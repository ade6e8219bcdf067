CONSTANTS
    RefreshRate = 1
    MaxChunkPrice = 2
    PoPrice = 1
    cheap = cheap  expensive = expensive
    Peer = {"p1", "p2"}
    Request = {cheap, expensive}
    PriceOf <- Prices
    Thresholds = {0, 2, 3}
    MaxSurplus = 1
    k1 = k1
    w1 = w1  w2 = w2  w3 = w3
    plain = plain  encrypted = encrypted
    NoFlight = NoFlight
    Key = {k1}
    Waiter = {w1, w2, w3}
    KeyOf <- OneKey
    ReferenceOf <- TwoReferences
    Permits = 1
    MaxClaims = 1
SPECIFICATION MCSpec
INVARIANTS NoLostCredit FlightsServeTheirWaiters
PROPERTIES WaitsEnd
