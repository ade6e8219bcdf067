SPECIFICATION FairSpec
CONSTANTS
    Updates = 4
    Window = 2
    Stride = 2
    Guards = 2
    FollowAhead = 2
    BeginWidth = 2
    Fates <- ClosedFates
    MaxTransients = 1
    MaxSwitches = 2
INVARIANTS NoHole FinalIsTheFrontier
PROPERTY CatchesUp
CHECK_DEADLOCK FALSE
