\* Two windows, two networks, two requests; two renditions.
CONSTANTS
    t1 = t1
    t2 = t2
    n1 = n1
    n2 = n2
    r1 = r1
    r2 = r2
    Tab = {t1, t2}
    Network = {n1, n2}
    None = None
    Request = {r1, r2}
    Initial <- AnyNetwork
    MaxActs = 5
    MaxViews = 2
    MaxRelayActs = 3
    Levels = 2
    LastPosition = 2
    MaxHardRestarts = 2
    MaxMediaRecoveries = 1
    MaxTasks = 2
    MaxPlayerActs = 3
SPECIFICATION MCSpec
SYMMETRY Symmetry
INVARIANTS
    TransfersKeepTheirNetwork
    OneNetwork
    OneStream
    RequestsReachTheirRuntime
    PlayerGoesOn
    ShownIsPlayed
PROPERTY HistoryFollowsSeeks
CHECK_DEADLOCK FALSE
