CONSTANTS
  MaxWrites = 5
  kMaxPendingWrites = 2
  Refused = {3}
  Statuses = {"transient", "permanent"}
  MaxFaults = 4
SPECIFICATION FairSpec
INVARIANTS AssertionsHold WritesAreUnderWay
PROPERTIES LedgerSpec WritesAreReported
\* With every write reported and the stream idle the client waits.
CHECK_DEADLOCK FALSE
