SPECIFICATION FairSpec
CONSTANTS
    u1 = u1
    u2 = u2
    s1 = s1
    s2 = s2
    None = None
    Users = {u1, u2, u2caps}
    Bootstrap = u2
    AsWritten = u2caps
    Sids = {s1, s2}
    SidOf <- MCSidOf
    Registered = {u1}
    LoggedIn = {s1}
    Passwords = {pw1, pw2}
    FirstPassword = pw1
    Plays = {p1, p2}
    Owner = u1
    Entitled = {}
    MaxFaults = 1
    MaxEvents = 4
INVARIANTS
    TypeOK
    ServedToItsViewer
    DirectoriesMatchRows
PROPERTIES
    ExpiredAreRemoved
CHECK_DEADLOCK FALSE
