SPECIFICATION FairSpec
CONSTANTS
  a = a
  b = b
  Docs = {a, b}
  Contents <- Story
  MaxLag = 1
  MaxStops = 0
  MaxFaults = 3
  MaxErrors = 1
INVARIANTS
  UpToDate
  ResumePoint
PROPERTIES
  CatchesUp
\* A listener that has caught up waits.
CHECK_DEADLOCK FALSE
