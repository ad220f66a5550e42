SPECIFICATION Spec
CONSTANTS
    Components = {"usage", "memories", "retrieval"}
    x = x
    y = y
    z = z
    c1 = c1
    c2 = c2
    UsageNone = UsageNone
    Attempts = {x, y, z}
    Correlations = {c1, c2}
    Corr <- MCCorr
    Confirmed = {y, z}
    Policies <- MCPolicies
    QuotaLimit <- MCQuota
    ConcurrencyLimit <- MCConcurrency
    CreditLimit <- MCCredit
    Allocation <- MCAllocation
    Credits = 1
    QuotaWindow = 2
    LeaseTtl = 2
    GrantExpiry = 2
    MaxRevision = 2
    MaxClock = 2
    MaxFaults = 1
    MemoriesNone = MemoriesNone
    MaxRequests = 3
    Users = {u}
    Agents = {a}
    MemoriesKeys = {k}
    MemoriesContents = {m1, m2}
    MaxMemories = 2
    MaxGrants = 2
    MaxChanges = 2
    short = short
    long = long
    Scopes = {s}
    RetrievalKeys = {k1, k2}
    Kinds = {fact}
    RetrievalContents = {short, long}
    Length <- MCLength
    Overhead = 2
    Page = 1
    PerKey = 2
    MaxStored = 3
    MaxTime = 1
    MaxWidth = 13
SYMMETRY MCSymmetry
INVARIANTS
    AdmissionSafe
    
    
CHECK_DEADLOCK FALSE
