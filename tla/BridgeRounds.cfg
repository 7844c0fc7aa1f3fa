SPECIFICATION FairSpec
CONSTANTS
  NTasks = 2
  MaxRounds = 2
  MaxMessages = 2
  MaxCap = 2
  Reports = {"running", "failed", "stopped"}
PROPERTIES FencedStays RefinesLedger QueuedIsDispatched
CHECK_DEADLOCK FALSE
