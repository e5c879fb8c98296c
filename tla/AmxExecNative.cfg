SPECIFICATION Spec
CONSTANTS
    Code <- Whole
    MainEntry <- Main
    Publics = {14, 27}
    HLW = 0
    STP = 8
    STKMARGIN = 2
    AllotSizes = {5}
    MaxParams = 1
    MaxDepth = 1
    NativeErrors = {"NATIVE"}
    HookResults = {"NONE","EXIT"}
    BadIndex = FALSE
    HugeAllots = FALSE
    Relocate = FALSE
    SleepCopies = TRUE
INVARIANTS
    CallerBalanced
    ReturnIsClean
