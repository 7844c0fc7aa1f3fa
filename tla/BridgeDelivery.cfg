SPECIFICATION DeliverySpec
CONSTANTS
  NTasks = 1
  MaxRounds = 2
  MaxMessages = 2
  MaxCap = 2
  MaxAttempts = 1
  MaxReminders = 1
  MaxOutbox = 2
  MaxRefused = 1
  Reports = {"running"}
INVARIANTS WakeNotLost StopNotLost OneNotice
CHECK_DEADLOCK FALSE
