\* One peer, two connections, a network switch.
CONSTANTS
    p1 = p1
    p2 = p2
    c1 = c1
    c2 = c2
    c3 = c3
    i1 = i1
    i2 = i2
    Peer = {p1}
    Connection = {c1, c2}
    Of <- OnePeerOf
    Overlay <- OnePeerOverlay
    Requested <- EveryRequest
    Attempt = {i1, i2}
    Limit = 1
    MaxGeneration = 1
    MaxCandidates = 1
    None = None
CHECK_DEADLOCK FALSE
SPECIFICATION Spec
SYMMETRY Symmetry
INVARIANTS
    PopulationExact
    OnlyCurrentWork
PROPERTY NotForgotten
