SPECIFICATION Spec
CONSTANTS
    None = None
    Origin = origin
    Peers = {p1, p2}
    Followers = {p1, p2}
    InitialVis = "public"
    Editors = {e1, e2}
    Workers = {w1, w2}
    Slots = {s1, s2}
    MaxActs = 3
    MaxAttempts = 2
    BatchSize = 1
    MaxFaults = 1
    MaxEvents = 3
INVARIANTS
    TypeOK
    AppliedOnce
    DeliveredStaysDelivered
    PurgeHolds
    CatalogConverges
    ClaimedJobsAreHeld
    
SYMMETRY Symmetric
CHECK_DEADLOCK FALSE
