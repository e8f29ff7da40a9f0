SPECIFICATION Spec
CONSTANTS
    b = b
    c = c
    v1 = v1
    h1 = h1
    h2 = h2
    None = None
    Invoices = {i1}
    Hooks <- MCHooks
    Admins = {w1}
    Users <- MCUsers
    Videos = {v1}
    Owner <- MCOwner
    Providers = {"stripe", "paypal", "xendit"}
    HasBank = {c}
    MayBlock <- MCBlocks
    MaxFailures = 1
    MaxCrashes = 1
    MaxPayouts = 1
INVARIANT
    FailedUnlocksNothing
CHECK_DEADLOCK FALSE
