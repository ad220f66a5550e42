SPECIFICATION FairSpec
CONSTANTS
    Components = {"outbox", "settlement"}
    o1 = o1
    Observations = {o1, o2}
    Size <- MCSize
    MaxFiles = 2
    MaxBytes = 3
    MaxFaults = 1
    NoRelease = NoRelease
    Releases = {r1, r2}
    Requests = {"denied"}
    Parts = {"request"}
    Legacy = {NoRelease}
    MaxLines = 1
    BatchLines = 1
    MaxApplies = 1
    ActivityMaxFaults = 1
    x = x
    y = y
    z = z
    c1 = c1
    c2 = c2
    SettlementNone = SettlementNone
    Attempts = {x, y}
    SettlementCorrelations = {c1, c2}
    Corr <- MCCorr
    Micros <- MCMicros
    Limit = 2
    Window = 2
    MaxClock = 2
    SettlementMaxFaults = 2
PROPERTIES
    Delivered
    ReportTaken
CHECK_DEADLOCK FALSE
