CONSTANTS
    p1 = p1
    p2 = p2
    t1 = t1
    t2 = t2
    c1 = c1
    c2 = c2
    c3 = c3
    Plugin <- Plugins
    Task <- Tasks
    Call <- Calls
    Create <- OneCreate
    Absent = Absent
    Corrupt = Corrupt
SPECIFICATION FairSpec
INVARIANTS OneOwner WriteUnderLock VisibleIsDurable
PROPERTIES SaveTouchesOneTask RefinesDurableBoard DisposeEnds
CHECK_DEADLOCK FALSE
