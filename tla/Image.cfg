CONSTANTS
    EntryFile = "main"
    Includes = {"inc", "lib"}
    FuncNames <- MCFuncNames
    Locals = {"x"}
    MaxCells = 1
    AMX_COMPACTMARGIN = 6
    Programs <- MCPrograms
    Sections <- MCSections
    Cell = 4
    Images <- CodeFiles
    Variants = {"plain", "reloc", "table"}
    Machines = {m1, m2}
    m1 = m1
    m2 = m2
    Files <- MCFiles
    Libs <- MCLibs
    Lists <- MCLists
    Builds <- MCBuilds
    BLOCKS = 9
SPECIFICATION MCSpec
INVARIANTS
    PlaceFound BreakpointFound ExpandRestores Owned NativesExist
    WalksAgree NarrowIsAccepted RunsOnInstructions
PROPERTY BoundOnce
CHECK_DEADLOCK FALSE
