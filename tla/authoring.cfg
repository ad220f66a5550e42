SPECIFICATION Spec
CONSTANTS
    Components = {"policy", "discovery", "oauth"}
    Requesters = {q1, q2}
    Reviewers = {v1, v2}
    MaxPublications = 2
    MaxEdits = 1
    MaxScans = 1
    MaxIds = 4
    MaxEndpoints = 1
    MaxSetbacks = 1
    MayCrash = TRUE
    NoKey = NoKey
    Nobody = Nobody
    t1 = t1
    t2 = t2
    Transactions <- MCTransactions
    Subjects = {s1}
    GrantKeys = {g1}
    AutoKeys = {k1}
    MaxRequests = 1
    MaxEntitlements = 2
    Visibilities = {"PUBLIC", "REQUEST"}
    AccessStart = "DRAFT"
    Changes = {"DEPRECATED", "RETIRED"}
    alice = alice
    bob = bob
    Actors <- MCActors
    Contents = {permit}
    Default = default
    NoOne = nobody
    Kinds = {"RESOURCE", "RUNTIME", "BOT"}
    MaxVersions = 2
    MaxRevision = 2
    MaxSettings = 1
    SeedRevision = 2
    DiscoveryNone = DiscoveryNone
    Tools = {m1, m2}
    Digests = {d1, d2}
    Runtimes = {r1}
    MaxOps = 2
    MaxDrift = 1
    MaxDecided = 2
    DiscoveryMaxFaults = 1
    OAuthNone = OAuthNone
    Sessions = {o1, o2}
    Callers = {x, y}
    Sites = {a, b}
    Rotating = TRUE
    MaxTokens = 3
    OAuthMaxFaults = 1
    MaxChanges = 1
SYMMETRY AuthoringSymmetry
INVARIANTS
    PolicySafe
    DiscoverySafe
    
CHECK_DEADLOCK FALSE
