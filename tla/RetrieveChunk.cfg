CONSTANTS
    Peers = 2
    MaxSessions = 3
    MaxAttempts = 2
    Budget = 2
    Managed = {TRUE, FALSE}
SPECIFICATION FairSpec
INVARIANTS ExchangesAreSound MissingIsUnanimous
PROPERTIES KeepsPromise RequestEnds
CHECK_DEADLOCK FALSE
