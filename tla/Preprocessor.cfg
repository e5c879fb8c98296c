SPECIFICATION Spec
CONSTANTS
  Modes <- MCModes
  Names <- MCNames
  OneElse = TRUE
  MaxFiles = 3
  MaxNest = 2
  Period = 2
INVARIANTS
  ConditionsKept
  PlaceKept
CHECK_DEADLOCK FALSE
