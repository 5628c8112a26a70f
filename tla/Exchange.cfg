SPECIFICATION ExchangeSpec
CONSTANTS
    Prices = {1}
    Quantities = {1}
    MemoMax = 1
    Menu <- MCMenu
    Controls = {}
    Capacity = 1
    MaxCmds = 2
    Users = {"alice", "bob"}
    Requests <- MCRequests
    Owner <- MCOwner
    Deposited = 1
    U64Size = 100
    DbFails = TRUE
INVARIANT LoggedOrderIsReserved
PROPERTIES
    ImplementsFunds
    RequestsEnd
