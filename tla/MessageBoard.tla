---------------------------- MODULE MessageBoard ----------------------------
(***************************************************************************)
(* What Chatik promises the people who use it, without queues, caches,     *)
(* listeners or launches: what is said in a channel appears there if it    *)
(* appears at all, in any number of copies, and is never taken away; a copy*)
(* that was accepted for posting stays so until it is posted or refused,   *)
(* whatever happens to the device.                                         *)
(***************************************************************************)
EXTENDS Integers, Sequences

CONSTANT Channels

VARIABLES
  said,     \* said[m]: the channel the m-th message was said in
  outbox,   \* copies accepted on the device and not yet settled
  board     \* copies everybody can read

vars == <<said, outbox, board>>

\* A post is [channel, message, copy], message 0 being anything somebody
\* else said.  IsOf(p, m): p is a copy of message m, in the channel it was
\* said in.
IsOf(p, m) == /\ p.channel = said[m]
              /\ p.message = m
              /\ p.copy \in Nat

Init == said = <<>> /\ outbox = {} /\ board = {}

Say == /\ \E c \in Channels : said' = Append(said, c)
       /\ UNCHANGED <<outbox, board>>

Accept == /\ \E p \in outbox' \ (outbox \cup board) :
               /\ \E m \in DOMAIN said : IsOf(p, m)
               /\ outbox' = outbox \cup {p}
          /\ UNCHANGED <<said, board>>

Publish == /\ \E p \in outbox \ board : board' = board \cup {p}
           /\ UNCHANGED <<said, outbox>>

\* A posted copy is off the device's hands, even if the device was told that
\* it was refused.
Settle == /\ \E p \in outbox \cap board : outbox' = outbox \ {p}
          /\ UNCHANGED <<said, board>>

Refuse == /\ \E p \in outbox \ board : outbox' = outbox \ {p}
          /\ UNCHANGED <<said, board>>

OthersPublish == /\ \E p \in board' \ board :
                      /\ p.channel \in Channels /\ p.message = 0
                      /\ board' = board \cup {p}
                 /\ UNCHANGED <<said, outbox>>

Next == Say \/ Accept \/ Publish \/ Settle \/ Refuse \/ OthersPublish

Spec == Init /\ [][Next]_vars
=============================================================================
