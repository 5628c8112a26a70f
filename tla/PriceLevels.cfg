SPECIFICATION Spec
CONSTANTS
    Prices = {1, 2, 3}
    Quantities = {2}
    MemoMax = 3
    OrderCap = 3
INVARIANTS
    LevelsSorted
    MemosGrow
    IterRelIsPriceTime
PROPERTY ImplementsMap
CHECK_DEADLOCK FALSE
