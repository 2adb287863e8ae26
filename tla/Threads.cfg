CONSTANTS
  Ids = {1, 2, 3, 4, 5}
  MaxMessages = 2
  MaxWrites = 2
SPECIFICATION FairSpec
INVARIANTS NoUseAfterFree FinishedOnce OneAtATime BufferIsEmptied
PROPERTIES WorkerIsFreed EndIsNoticed
\* A stream that is gone is left alone.
CHECK_DEADLOCK FALSE
