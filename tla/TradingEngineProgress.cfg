SPECIFICATION FairSpec
CONSTANTS
    Prices = {1}
    Quantities = {1, 2}
    MemoMax = 1
    Menu <- MCMenu
    Controls = {"Suspend", "Resume"}
    Capacity = 2
    MaxCmds = 2
PROPERTIES
    Answered
    ShutdownCompletes
