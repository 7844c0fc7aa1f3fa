SPECIFICATION FairSpec
CONSTANTS
    n1 = n1
    n2 = n2
    Name = {n1, n2}
    MaxFlow = 2
    MaxVersion = 3
    MaxCalls = 5
    MaxFaults = 2
    None = None
INVARIANTS SignedOutForGood DoneIsKept KeptIsCurrent PendingIsHeard
PROPERTIES RefreshEnds QueueMoves
CHECK_DEADLOCK FALSE
