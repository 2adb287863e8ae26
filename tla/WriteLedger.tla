----------------------------- MODULE WriteLedger -----------------------------
(***************************************************************************)
(* What the write path promises: the writes of a device reach the server   *)
(* in the order they were made, each at least once before it is reported   *)
(* as done and never again after it was reported; reports come in order,   *)
(* too.  How often a write reaches the server before is left open.         *)
(***************************************************************************)
EXTENDS Naturals

CONSTANT Writes  \* the numbers writes can have

VARIABLES queue,      \* writes not reported yet; they are numbered as made
          committed,  \* writes the server has carried out
          acked, rejected

vars == <<queue, committed, acked, rejected>>

IsFirst(b, S) == b \in S /\ \A c \in S : b <= c

Init == queue = {} /\ committed = {} /\ acked = {} /\ rejected = {}

Make(b) ==
  /\ \A c \in queue \cup committed \cup acked \cup rejected : c < b
  /\ queue' = queue \cup {b}
  /\ UNCHANGED <<committed, acked, rejected>>

Commit(b) ==
  /\ b \in queue
  /\ \A c \in queue : c < b => c \in committed
  /\ committed' = committed \cup {b}
  /\ UNCHANGED <<queue, acked, rejected>>

Acknowledge(b) ==
  /\ IsFirst(b, queue) /\ b \in committed
  /\ queue' = queue \ {b}
  /\ acked' = acked \cup {b}
  /\ UNCHANGED <<committed, rejected>>

Reject(b) ==
  /\ IsFirst(b, queue)
  /\ queue' = queue \ {b}
  /\ rejected' = rejected \cup {b}
  /\ UNCHANGED <<committed, acked>>

Next == \E b \in Writes : Make(b) \/ Commit(b) \/ Acknowledge(b) \/ Reject(b)

Spec == Init /\ [][Next]_vars
=============================================================================
