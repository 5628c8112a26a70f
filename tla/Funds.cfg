SPECIFICATION FairSpec
CONSTANTS
    Users = {"alice"}
    Requests <- MCRequests
    Owner <- MCOwner
    Amounts = {1, 2}
    Deposited = 3
    Capacity = 1
    U64Size = 100
    DbFails = TRUE
INVARIANTS
    RevertedAtMostOnce
    OkIsFunded
    UnfundedOrderCause
    StrandedFundsCause
    OverdraftCause
PROPERTY FailedOrderIsRefunded
