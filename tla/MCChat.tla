------------------------------- MODULE MCChat -------------------------------
(* Small instances of Chat for TLC.  Each budget says how often the users,   *)
(* the other clients and the failures of one scenario may act.               *)
EXTENDS ChatProperties, TLC

None == [k \in Kinds |-> 0]
Symmetry == Permutations(Channels)

\* Two Sends, from one screen or two, or over lost results; and a Send while
\* the list of channels changes in every way.
BudgetsSends ==
  {[None EXCEPT !["open"] = 2, !["send"] = 2],
   [None EXCEPT !["open"] = 1, !["send"] = 2, !["lose"] = 1],
   [None EXCEPT !["open"] = 1, !["send"] = 1, !["touch"] = 1, !["create"] = 1]}

\* A channel made on the device and a message sent to it, while the server
\* refuses a write and a call loses its results, or the process dies between any
\* two steps; two screens and a refused message; a channel updated and broken by
\* another client, while the process dies, results are lost, and a query or a
\* write is refused.
BudgetsFailures ==
  {[None EXCEPT !["open"] = 1, !["send"] = 1, !["create"] = 1,
                !["reject"] = 1, !["lose"] = 1],
   [None EXCEPT !["open"] = 1, !["send"] = 1, !["create"] = 1, !["crash"] = 1],
   [None EXCEPT !["open"] = 2, !["send"] = 1, !["reject"] = 1],
   [None EXCEPT !["create"] = 1, !["touch"] = 2, !["break"] = 1,
                !["crash"] = 1, !["lose"] = 1, !["refuse"] = 1],
   [None EXCEPT !["create"] = 1, !["touch"] = 1, !["break"] = 1,
                !["reject"] = 1, !["lose"] = 1, !["refuse"] = 1]}

\* For liveness, over one channel: a Send to a channel made on the device while
\* others update it and results are lost, so that it may go back and forth; the
\* same over a rejected write, with lost results or a crash; a Send while a query
\* is refused and the other client posts; and two Sends.
BudgetsPosts ==
  {[None EXCEPT !["open"] = 1, !["send"] = 1, !["create"] = 1, !["touch"] = 1,
                !["lose"] = 1],
   [None EXCEPT !["open"] = 1, !["send"] = 1, !["create"] = 1, !["reject"] = 1,
                !["lose"] = 1],
   [None EXCEPT !["open"] = 1, !["send"] = 1, !["create"] = 1, !["reject"] = 1,
                !["crash"] = 1],
   [None EXCEPT !["open"] = 1, !["send"] = 1, !["post"] = 1, !["refuse"] = 1],
   [None EXCEPT !["open"] = 1, !["send"] = 2]}
=============================================================================
