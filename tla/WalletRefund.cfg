SPECIFICATION TxSpec
CONSTANTS
    r1 = r1
    r2 = r2
    v1 = v1
    None = None
    Requests <- MCRequests
    Videos <- MCVideos
    Users = {1, 2, 3}
    Owner <- MCOwner
    Amounts = {1, 4}
    Percents = {0, 50}
    Prices = {1, 4}
    MayBlock <- MCMayBlock
    Switches <- MCSwitches
    MinDeposit = 4
    MinWithdrawal = 4
    MinTransfer = 2
    CreatorSplitBp = 5000
    OpeningBalance <- MCOpeningBalance
    OpeningLedger <- MCOpeningLedger
    LookupsFail = FALSE
INVARIANT
    RefundedStaysRejected
