SPECIFICATION Spec
CONSTANTS
  t1 = t1
  t2 = t2
  w1 = w1
  w2 = w2
  Task <- TwoTasks
  Window <- TwoWindows
  Outcomes = {"completed"}
  Effects = {"land"}
  MaxRequests = 2
  MaxActs = 0
  MaxFaults = 0
  MaxCrashes = 1
INVARIANTS CommandOnce OneMerge
SYMMETRY Symmetric
CHECK_DEADLOCK FALSE
