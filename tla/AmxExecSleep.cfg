SPECIFICATION Spec
CONSTANTS
    Code <- Sleeper
    MainEntry <- Main
    Publics = {10}
    HLW = 0
    STP = 11
    STKMARGIN = 2
    AllotSizes = {}
    MaxParams = 1
    MaxDepth = 2
    NativeErrors = {"NATIVE"}
    HookResults = {"NONE"}
    BadIndex = FALSE
    HugeAllots = FALSE
    Relocate = TRUE
    SleepCopies = TRUE
INVARIANTS
    TypeOK
    CallerMemoryIntact
    SleepKeepsPlace
    ErrorTravels
