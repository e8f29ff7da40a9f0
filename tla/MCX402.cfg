SPECIFICATION FairSpec
CONSTANTS
    b = b
    c = c
    v1 = v1
    None = None
    Invoices = {i1, i2}
    Confirmers = {t1}
    Users = {b, c}
    Buyers = {b}
    Videos = {v1}
    Owner <- MCOwner
    PriceCents <- MCPrice
    Decimals = 0
    Amounts = {1, 2}
    HashedFields <- MCFields
    MayBlock <- MCBlocks
    MaxFaults = 1
INVARIANTS
    TypeOK
    AllowlistIsPaid
    LockedOutOnlyByCut
PROPERTIES
    ImplementsEntitlement
    PaidIsFinal
    
CHECK_DEADLOCK FALSE
