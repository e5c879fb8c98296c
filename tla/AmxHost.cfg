SPECIFICATION Spec
CONSTANTS
    Loaded <- Order
    Handlers <- Scripts
    CellBits = 2
    LongBits = 2
    Limits = {0, 2}
    Delays = {2}
    SelectSees = TRUE
    MaxElapsed = 3
    MaxPending = 1
INVARIANTS
    TimerMeasure
PROPERTIES
    TimerServed
    MainWakes
    AbortEndsLoop
CHECK_DEADLOCK FALSE
