SPECIFICATION Spec
CONSTANTS
    t1 = t1
    t2 = t2
    r1 = r1
    Task = {t1, t2}
    Repo = {r1}
    repoOf <- OneRepo
    order <- TwoTasks
    UserOps = {"retry", "continue", "delete", "edit"}
    Outcomes = {"completed", "failed"}
    MaxOps = 2
    MaxTurns = 1
    MaxEvents = 2
    MaxCopies = 2
    MaxFaults = 1
    MaxCrashes = 0
INVARIANTS
    OneSessionAtWork
    
CHECK_DEADLOCK FALSE
