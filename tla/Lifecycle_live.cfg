\* One peer, two connections, fair tasks and timers.
CONSTANTS
    p1 = p1
    p2 = p2
    c1 = c1
    c2 = c2
    c3 = c3
    i1 = i1
    i2 = i2
    Peer = {p1}
    Connection = {c1, c2}
    Of <- OnePeerOf
    Overlay <- OnePeerOverlay
    Requested <- NoRequest
    Attempt = {i1, i2}
    Limit = 1
    MaxGeneration = 0
    MaxCandidates = 1
    None = None
CHECK_DEADLOCK FALSE
SPECIFICATION FairSpec
PROPERTY AttemptSettles
