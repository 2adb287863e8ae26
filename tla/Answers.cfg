SPECIFICATION Spec
CONSTANTS
  a = a
  b = b
  Docs = {a, b}
  Contents <- OneChange
  MaxLag = 1
  MaxStops = 2
  MaxFaults = 1
  MaxErrors = 1
INVARIANTS
  AcksAreDue
  AssertionsHold
\* Nobody needs to listen.
CHECK_DEADLOCK FALSE
