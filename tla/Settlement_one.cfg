\* One session in depth: two prices, threshold changes, cheques, retirement.
CONSTANTS
    RefreshRate = 1
    MaxChunkPrice = 2
    PoPrice = 1
    Account = {a1}
    Connection = {c1}
    Request = {r1, r2}
    Pushes = {r2}
    Task = {t1, t2}
    Generation = {g1}
    Prices = {1, 2}
    Thresholds = {0, 2, 3}
    None = None
SPECIFICATION FairSpec
INVARIANTS
    ReserveMatchesRequests
    CreditWithinThreshold
    DebtHasOneOwner
PROPERTY RetirementFinishes
