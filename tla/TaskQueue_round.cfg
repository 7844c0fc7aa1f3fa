SPECIFICATION Spec
CONSTANTS
    t1 = t1
    t2 = t2
    r1 = r1
    Task = {t1}
    Repo = {r1}
    repoOf <- OneRepo
    order <- OneTask
    UserOps = {"cancel", "retry", "continue", "chat", "permission", "edit"}
    Outcomes = {"completed"}
    MaxOps = 2
    MaxTurns = 2
    MaxEvents = 2
    MaxCopies = 2
    MaxFaults = 1
    MaxCrashes = 1
INVARIANTS
    ReviewIsCurrent
    NoResend
CHECK_DEADLOCK FALSE
