SPECIFICATION FairDelivery
CONSTANTS
    Runtimes = {r1, r2}
    Self = r1
    ReleaseIds = {a, b}
    MaxRevision = 2
    None = None
    ReportIds = {p1, p2}
    Entitlements = {}
    Revokes <- MCRevokes
    MaxFaults = 2
INVARIANT DeliverySafe
PROPERTIES
    Refines
    HeadSettles
    ObservedConvergesUnlessFailed
