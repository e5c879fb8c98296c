SPECIFICATION Spec
CONSTANTS
  BYTE = 4
  Hlw = 16
  Stp = 56
  STKMARGIN = 8
  CodeSize = 64
  Starts <- MCStarts
  Cod = 56
  Dat = 120
  ResetStk = 56
  ResetHea = 16
  SWITCH_LINEAR = 3
  BitAnd <- MCAnd
  BitOr <- MCOr
  BitXor <- MCXor
  Machines <- MCMachines
  Instructions <- MCInstructions
  Tables <- ShortTables
INVARIANTS
  Contained
  NoFalseAlarm
  CoresAgree
  LayoutKept
CHECK_DEADLOCK FALSE
