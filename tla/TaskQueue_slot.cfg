SPECIFICATION FairSpec
CONSTANTS
    t1 = t1
    t2 = t2
    r1 = r1
    Task = {t1, t2}
    Repo = {r1}
    repoOf <- OneRepo
    order <- TwoTasks
    UserOps = {"cancel", "retry"}
    Outcomes = {"completed"}
    MaxOps = 2
    MaxTurns = 1
    MaxEvents = 1
    MaxCopies = 2
    MaxFaults = 0
    MaxCrashes = 0
INVARIANTS
    OneTaskAtWork
    NoOrphan
PROPERTIES
    RefinesRepoSlot
    QueuedStarts
CHECK_DEADLOCK FALSE
