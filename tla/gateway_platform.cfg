SPECIFICATION Spec
CONSTANTS
    Components = {"store", "locks", "registration", "lease", "connection"}
    Runtimes = {r1}
    ReleaseIds = {a1, a2}
    ReportIds = {i1, i2}
    MaxRevision = 2
    None = None
    p1 = p1
    p2 = p2
    w = w
    r = r
    n = n
    b = b
    Transactions = {p1, p2, w, r, n, b}
    Kind <- MCKind
    LocksNobody = LocksNobody
    Requests = {q1, q2, q3}
    RegistrationNobody = RegistrationNobody
    MaxSecret = 5
    RegistrationMaxFaults = 2
    Sockets = {s1, s2}
    Heartbeat = Heartbeat
    Free = Free
    MaxQueue = 2
    LeaseMaxFaults = 2
    ConnectionRuntimes = {c1, c2}
    Verifiers = {v1, v2}
    FromSnapshot = FALSE
    MaxRow = 4
    MaxHead = 3
SYMMETRY MCSymmetry
INVARIANTS
    ControlSafe
    RollbackSafe
    
    RegistrationSafe
    LeaseSafe
    
PROPERTIES
    ObservedNeverRegresses
CHECK_DEADLOCK FALSE
