SPECIFICATION Spec
CONSTANTS
    Prices = {1}
    Quantities = {1, 2}
    MemoMax = 8
    Menu <- MCMenu
    Controls = {}
    Capacity = 2
    MaxCmds = 3
INVARIANT CancelFindsRestingOrder
