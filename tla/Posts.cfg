CONSTANTS
  Channels = {c1}
  Root = Root
  Malformed = Malformed
  NoChannel = NoChannel
  Budgets <- BudgetsPosts
SPECIFICATION FairSpec
PROPERTIES SendsArePosted StoredWritesArrive ScreensConverge
\* Without deliveries, users and failures left to act the app waits.
CHECK_DEADLOCK FALSE
