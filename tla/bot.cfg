SPECIFICATION Spec
CONSTANTS
    Components = {"schedules", "deletion", "distillation", "invocations", "continuation"}
    MaxSlot = 2
    MaxEdits = 1
    ScheduleMaxCrashes = 1
    Interactive = TRUE
    Tokens = {k1, k2}
    MaxAttempts = 3
    DistillationMaxRevision = 3
    DistillationMaxAttempts = 2
    DistillationMaxFaults = 2
    Deletes = TRUE
    i1 = i1
    i2 = i2
    b1 = b1
    Invs = {i1, i2}
    InvocationBots = {b1}
    Target <- MCTarget
    Kind <- MCKind
    Cross = {i2}
    MaxMishaps = 3
    InvocationMaxCrashes = 1
    MaxExits = 1
    Entries = {1, 2}
    Paces = {TRUE, FALSE}
    MaxStarts = 2
    ContinuationMaxCrashes = 1
    MaxUser = 1
    w1 = w1
    w2 = w2
    w3 = w3
    h1 = h1
    h2 = h2
    c1 = c1
    None = None
    Clients = {c1}
    HandsBots = {h1}
    Workspaces = {w1}
    BotOf <- MCBotOf
    FirstActive <- MCFirstActive
    Tiers = {headless}
    MaxKeys = 2
    MaxSessions = 2
    HandsMaxFaults = 1
    MaxChanges = 1
INVARIANTS
    ScheduleSafe
    DeletionSafe
    DistillationSafe
    InvocationsSafe
    
 
CHECK_DEADLOCK FALSE
