SPECIFICATION Spec
CONSTANTS
    Components = {"outbox", "native", "settlement"}
    o1 = o1
    Observations = {o1, o2, o3}
    Size <- MCSize
    MaxFiles = 2
    MaxBytes = 3
    MaxFaults = 1
    NoRelease = NoRelease
    Releases = {r1, r2}
    Requests = {"denied"}
    Parts = {"request"}
    Legacy = {NoRelease}
    MaxLines = 1
    BatchLines = 1
    MaxApplies = 2
    ActivityMaxFaults = 1
    x = x
    y = y
    z = z
    c1 = c1
    c2 = c2
    SettlementNone = SettlementNone
    Attempts = {x, y, z}
    SettlementCorrelations = {c1, c2}
    Corr <- MCCorr
    Micros <- MCMicros
    Limit = 2
    Window = 1
    MaxClock = 1
    SettlementMaxFaults = 1
SYMMETRY MCSymmetry
INVARIANTS
    OutboxSafe
    
    SettlementSafe
CHECK_DEADLOCK FALSE
