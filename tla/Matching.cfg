SPECIFICATION Spec
CONSTANTS
    Prices = {1, 2}
    Quantities = {1, 2, 3}
    MemoMax = 2
INVARIANTS
    NotCrossed
    NoPanic
    IInv
PROPERTIES
    ErrLeavesBook
    QuantityConserved
    ImplementsPlaceOrder
