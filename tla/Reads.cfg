CONSTANTS
    ChunkSize = 1
    MaxShards = 2
    MaxLevels = 2
    Parities <- SomeParity
    MaxSpan = 5
    Ranges <- SomeRanges
    Defects = 2
    Requests = 6
    Concurrency = 2
    MaxData = 3
    MaxParity = 2
    ExtraShards = 1
    ProgressiveBatch = 1
    MaxIndex = 12
    Lookahead = 3
    Size = 6
    WindowBytes = 2
    StartupBytes = 2
    ActiveBytes = 1
    KeepAhead = 2
    SeekGap = 1
    Stages = {2, 4}
    MaxParallel = 2
    Starts = {0, 3}
    Stops = {3, 5}
    MediaRequests = 2
    Prefetchers = 2
    Generations = 8
    FirstGeneration = 7
    MaxRequests = 2
    MaxGenerations = 2
    MaxFaults = 2
SPECIFICATION MCSpec
INVARIANTS
    RangeOrCause
    GivesUpOnlyWhenLost
    FrontierIsFound
    HighWaterIsLoaded
    ReadersAreServed
PROPERTIES
    ImplementsGroup
    PrefetchAdvances
    ReadsEnd
CHECK_DEADLOCK FALSE
