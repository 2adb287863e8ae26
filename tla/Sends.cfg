CONSTANTS
  Channels = {c1, c2}
  Root = Root
  Malformed = Malformed
  NoChannel = NoChannel
  Budgets <- BudgetsSends
SYMMETRY Symmetry
SPECIFICATION Spec
INVARIANTS NoCrossDelivery SendsKeepOrder CopiesBounded
PROPERTIES MessagesNeverDisappear
\* Without deliveries, users and failures left to act the app waits.
CHECK_DEADLOCK FALSE
