\* Two peers of one overlay, with one slot and with two.
CONSTANTS
    p1 = p1
    p2 = p2
    c1 = c1
    c2 = c2
    c3 = c3
    i1 = i1
    i2 = i2
    Peer = {p1, p2}
    Connection = {c1, c3}
    Of <- PairOf
    Overlay <- TwoPeersOverlay
    Requested <- NoRequest
    Attempt = {i1, i2}
    Limit = 2
    MaxGeneration = 0
    MaxCandidates = 1
    None = None
CHECK_DEADLOCK FALSE
SPECIFICATION MCSpec
SYMMETRY PairSymmetry
INVARIANT SelectableIsPromoted
PROPERTY ImplementsPopulation
