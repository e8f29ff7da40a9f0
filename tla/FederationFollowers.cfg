SPECIFICATION Spec
CONSTANTS
    None = None
    Origin = origin
    Peers = {p1, p2}
    Followers = {p1, p2}
    InitialVis = "public"
    Editors = {e1, e2}
    Workers = {w1, w2}
    Slots = {s1, s2}
    MaxActs = 1
    MaxAttempts = 2
    BatchSize = 1
    MaxFaults = 0
    MaxEvents = 1
INVARIANT
    FollowersAreServed
CHECK_DEADLOCK FALSE
