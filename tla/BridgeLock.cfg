SPECIFICATION Spec
CONSTANTS
  p1 = p1
  p2 = p2
  p3 = p3
  g1 = g1
  Nobody = Nobody
  Process <- Processes
  Ghost = {}
  MaxTries = 8
  MaxReclaims = 5
  Stalls = FALSE
  MaxWrites = 3
  MaxFaults = 1
  MaxCrashes = 2
INVARIANTS OneOwner WriterIsCurrent AloneGetsIn
PROPERTIES LiveLockKept
SYMMETRY Symmetric
CHECK_DEADLOCK FALSE
