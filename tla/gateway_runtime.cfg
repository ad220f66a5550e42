SPECIFICATION Spec
CONSTANTS
    Components = {"runtime", "sidecars", "aigw", "otlp"}
    a = a
    b = b
    ReleaseIds = {a, b}
    MaxRevision = 2
    None = None
    Entitlements = {"e1", "e2"}
    Revokes <- MCRevokes
    Grants <- MCGrants
    MaxFaults = 2
    MaxRelease = 2
    Empty = {2}
    MaxRuns = 2
    MaxLives = 2
    MaxExits = 1
    Processes = {p1, p2}
    NRecords = 2
    MaxBuffered = 1
    OtlpMaxFiles = 1
    OtlpMaxFaults = 1
SYMMETRY MCSymmetry
INVARIANTS
    RuntimeSafe
    
    AigwSafe
    
PROPERTIES
    MarksNeverRegress
CHECK_DEADLOCK FALSE
