SPECIFICATION Spec
CONSTANTS
    b = b
    c = c
    v1 = v1
    None = None
    Invoices = {i1}
    Confirmers = {t1, t2}
    Users = {b, c}
    Buyers = {b}
    Videos = {v1}
    Owner <- MCOwner
    PriceCents <- MCPrice
    Decimals = 0
    Amounts = {1, 2}
    HashedFields <- MCFields
    MayBlock <- MCBlocks
    MaxFaults = 0
INVARIANT
    GrantedOnce
CHECK_DEADLOCK FALSE
