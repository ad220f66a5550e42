SPECIFICATION FairSpec
CONSTANTS
    Components = {"invocations", "continuation", "hands"}
    MaxSlot = 0
    MaxEdits = 1
    ScheduleMaxCrashes = 1
    Interactive = TRUE
    Tokens = {k1, k2}
    MaxAttempts = 3
    DistillationMaxRevision = 3
    DistillationMaxAttempts = 2
    DistillationMaxFaults = 2
    Deletes = TRUE
    i1 = i1
    i2 = i2
    b1 = b1
    Invs = {i1, i2}
    InvocationBots = {b1}
    Target <- MCTarget
    Kind <- MCKind
    Cross = {i2}
    MaxMishaps = 1
    InvocationMaxCrashes = 0
    MaxExits = 1
    Entries = {1, 2}
    Paces = {TRUE}
    MaxStarts = 2
    ContinuationMaxCrashes = 0
    MaxUser = 0
    w1 = w1
    w2 = w2
    w3 = w3
    h1 = h1
    h2 = h2
    c1 = c1
    None = None
    Clients = {c1}
    HandsBots = {h1, h2}
    Workspaces = {w1, w2, w3}
    BotOf <- MCBotOf
    FirstActive <- MCFirstActive
    Tiers = {headless}
    MaxKeys = 3
    MaxSessions = 1
    HandsMaxFaults = 0
    MaxChanges = 1
PROPERTIES
    
    ContinuationEnds
    OperationsSettle
CHECK_DEADLOCK FALSE
