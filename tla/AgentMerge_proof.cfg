SPECIFICATION FairSpec
CONSTANTS
  t1 = t1
  t2 = t2
  w1 = w1
  w2 = w2
  Task <- OneTask
  Window <- OneWindow
  Outcomes = {"completed", "failed"}
  Effects = {"edit", "rewrite", "land"}
  MaxRequests = 1
  MaxActs = 1
  MaxFaults = 1
  MaxCrashes = 0
INVARIANTS MergedIsProven NothingLost
PROPERTIES MergeEndsUndisturbed
CHECK_DEADLOCK FALSE
