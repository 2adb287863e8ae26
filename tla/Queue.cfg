CONSTANTS
  Threads = {p1, p2}
  Queue = Queue
  Requests = {"plain"}
  MaxTasks = 4
SPECIFICATION FairSpec
INVARIANTS AliveWhileTouched DisposeIsFinal InOrder
PROPERTIES DisposeReturns
\* A client that is disposed of rests.
CHECK_DEADLOCK FALSE
