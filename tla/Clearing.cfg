CONSTANTS
  Threads = {p1, p2}
  Queue = Queue
  Requests = {"clear"}
  MaxTasks = 3
SPECIFICATION FairSpec
PROPERTIES DisposeReturns
\* A client that is disposed of rests.
CHECK_DEADLOCK FALSE
