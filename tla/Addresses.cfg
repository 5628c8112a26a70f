SPECIFICATION Spec
CONSTANTS
    Users = {"alice", "bob"}
    Requests = {1, 2, 3}
    Addrs = {"a1", "a2", "a3"}
    Menu <- MCMenu
INVARIANTS
    ShownAddressIsCredited
    SecondDepositCause
    DepositLostCause
CHECK_DEADLOCK FALSE
