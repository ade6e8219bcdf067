\* Successive and duplicate sessions of one peer, one chunk fills the threshold.
CONSTANTS
    RefreshRate = 1
    MaxChunkPrice = 3
    PoPrice = 1
    Account = {a1, a2}
    Connection = {c1, c2}
    Request = {r1}
    Pushes = {}
    Task = {t1, t2}
    Generation = {g1}
    Prices = {3}
    Thresholds = {3}
    None = None
SYMMETRY Symmetry
SPECIFICATION Spec
INVARIANTS
    SessionsStayApart
