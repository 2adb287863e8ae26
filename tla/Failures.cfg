CONSTANTS
  Channels = {c1, c2}
  Root = Root
  Malformed = Malformed
  NoChannel = NoChannel
  Budgets <- BudgetsFailures
SYMMETRY Symmetry
SPECIFICATION Spec
INVARIANTS TypeOK NoOrphans ScreensShowTheirChannel
PROPERTIES DirectoryNeverGoesBack BoardSpec
\* Without deliveries, users and failures left to act the app waits.
CHECK_DEADLOCK FALSE
