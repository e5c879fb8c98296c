SPECIFICATION MCSpec
CONSTANTS
    Programs = {}
    StatePrograms <- FewImplementations
    Order <- MCOrder
    MAIN = "main"
    OPERATOR = "+"
INVARIANTS
    AlwaysDispatched
CHECK_DEADLOCK FALSE
