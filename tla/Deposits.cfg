SPECIFICATION Spec
CONSTANTS
    Users = {"alice", "bob", "carol"}
    Accounts = {"alice", "bob"}
    Txids <- MCTxids
    Outputs <- MCOutputs
    Requests = {1, 2, 3}
    Window = 2
    MaxFailures = 1
INVARIANTS
    CreditedAtMostOnce
    NoLockCycle
    ListedIsCredited
