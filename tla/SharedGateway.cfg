SPECIFICATION FairSpec
CONSTANTS
    d1 = d1
    p1 = p1
    p2 = p2
    u1 = u1
    u2 = u2
    k1 = k1
    Device = {d1}
    Provider = {p1, p2}
    Target = {u1, u2}
    Uses = {p1}
    Edits <- MovedThenTaken
    MaxSlots = 2
    Reconciler = {k1}
    MaxActive = 1
    MaxMinted = 1
    MaxRequests = 2
    MaxEvents = 3
    None = None
INVARIANTS SettledIsCut RevokedIsCut NarrowedIsCut OffIsEmpty
PROPERTIES DeniedEnds
CHECK_DEADLOCK FALSE
