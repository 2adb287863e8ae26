------------------------------ MODULE MCProfile ------------------------------
(* Small instances of ProfileSave for TLC.                                   *)
EXTENDS ProfileProperties

None == [k \in Kinds |-> 0]

\* One screen, three saves under way at once; two screens, the first dismissed
\* while its saves are under way.
BudgetsScreens ==
  {[None EXCEPT !["open"] = 1, !["edit"] = 2, !["type"] = 3, !["save"] = 3],
   [None EXCEPT !["open"] = 2, !["edit"] = 3, !["type"] = 3, !["pick"] = 1,
                !["save"] = 2]}
=============================================================================
