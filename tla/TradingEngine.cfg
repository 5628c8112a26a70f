SPECIFICATION Spec
CONSTANTS
    Prices = {1}
    Quantities = {1, 2}
    MemoMax = 1
    Menu <- MCMenu
    Controls = {"Suspend", "Resume"}
    Capacity = 2
    MaxCmds = 3
INVARIANTS
    BookIsReplayOfLog
    AnsweredIsLogged
    LogFollowsChannel
    BootPanicCause
    NeverCrossed
    WaitsWhileInHand
