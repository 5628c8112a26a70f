SPECIFICATION Spec
CONSTANTS
    Emails = {"ann@x"}
    Passwords = {"pw1", "pw2"}
    Requests = {r1, r2, r3, r4}
    MaxAge = 1
    MaxTime = 2
    Menu <- MCMenu
INVARIANTS
    SessionIsAuthentic
    AccountIsCreators
    RefutedStaysOut
SYMMETRY Symmetry
CHECK_DEADLOCK FALSE
