CONSTANTS
  MaxWrites = 4
  kMaxPendingWrites = 4
  Refused = {3}
  Statuses = {"transient", "permanent"}
  MaxFaults = 0
SPECIFICATION Spec
INVARIANTS RejectedIsNotCommitted
\* With every write reported and the stream idle the client waits.
CHECK_DEADLOCK FALSE
