SPECIFICATION MCSpec
CONSTANTS
    Programs <- Smallest
    StatePrograms = {}
    Order <- MCOrder
    MAIN = "main"
    OPERATOR = "+"
INVARIANTS
    StackEstimate
CHECK_DEADLOCK FALSE
