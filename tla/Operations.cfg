CONSTANTS
  Operations = {o1, o2}
  MayCancel = {o1, o2}
SPECIFICATION FairSpec
INVARIANTS CompletionAfterSave
PROPERTIES OperationsComplete
\* A finished operation is at rest.
CHECK_DEADLOCK FALSE
