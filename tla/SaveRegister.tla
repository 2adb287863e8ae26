---------------------------- MODULE SaveRegister ----------------------------
(***************************************************************************)
(* What saving a profile promises: a register to which any number of saves *)
(* are addressed at once.  Each takes effect as a whole and at most once,  *)
(* or fails and changes nothing, and is acknowledged only afterwards.      *)
(***************************************************************************)
EXTENDS Naturals, Sequences

CONSTANT Profile   \* what can be saved

VARIABLES
  asked,      \* the profiles of the saves so far
  settled,    \* the saves that took effect or failed
  acked,      \* the saves that were acknowledged
  holds       \* the save whose profile the register holds, 0: none yet

vars == <<asked, settled, acked, holds>>

Init == asked = <<>> /\ settled = {} /\ acked = {} /\ holds = 0

Ask == /\ \E p \in Profile : asked' = Append(asked, p)
       /\ UNCHANGED <<settled, acked, holds>>

Settle(i) == /\ i \in DOMAIN asked \ settled
             /\ settled' = settled \cup {i}
             /\ holds' \in {holds, i}
             /\ UNCHANGED <<asked, acked>>

Ack(i) == /\ i \in settled \ acked
          /\ acked' = acked \cup {i}
          /\ UNCHANGED <<asked, settled, holds>>

Next == Ask \/ \E i \in DOMAIN asked : Settle(i) \/ Ack(i)

Spec == Init /\ [][Next]_vars
=============================================================================
