CONSTANTS
  Texts = {"", "a"}
  Empty = ""
  Budgets <- BudgetsScreens
SPECIFICATION FairSpec
INVARIANTS SavedAsTyped NoDoubleSave SavesStick SpinnerHonest OneMode
PROPERTIES RegisterSpec SavesComplete
\* A user with nothing left to do rests.
CHECK_DEADLOCK FALSE
