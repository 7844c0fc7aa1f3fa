SPECIFICATION Spec
CONSTANTS
  p1 = p1
  p2 = p2
  p3 = p3
  g1 = g1
  Nobody = Nobody
  Process <- Processes
  Ghost <- Ghosts
  MaxTries = 2
  MaxReclaims = 2
  Stalls = FALSE
  MaxWrites = 2
  MaxFaults = 0
  MaxCrashes = 1

PROPERTIES LiveLockKept
SYMMETRY Symmetric
CHECK_DEADLOCK FALSE
