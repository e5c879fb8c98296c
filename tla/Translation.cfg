SPECIFICATION Behaviour
CONSTANTS
    Programs <- MCPrograms
    StatePrograms <- MCStatePrograms
    Order <- MCOrder
    MAIN = "main"
    OPERATOR = "+"
    Levels = {0, 1, 2}
    CELLS = 64
    FUEL = 600
INVARIANTS
    CalledIsThere ExportedFound NothingDead CallsCounted OverlaySafe Dispatched
    Restored
PROPERTY Implements
CHECK_DEADLOCK FALSE
