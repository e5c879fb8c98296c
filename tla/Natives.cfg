SPECIFICATION MCSpec
CONSTANTS
  Base = 3
  CellBytes = 2
  Other = 8
  Wide <- MCWide
  Damages <- MCDamages
  MaxWide = 2
  Raw <- MCRaw
  Urls <- MCUrls
  CELLMIN <- MCCELLMIN
  Arrays <- MCArrays
  Origin <- MCOrigin
  Size <- MCSize
  Upper <- MCUpper
  Hosted <- MCHosted
  Items <- MCItems
  MaxItems = 3
  Names <- MCNames
  Behind = {0, 97}
  WORDSHIFT = 7
  MULTIPLIER = 10
  LIMIT32 = 28
  Operands <- MCOperands
  Divisors <- MCDivisors
  Exponents <- MCExponents
  Hosts <- Several
  Machines = {m1, m2}
  m1 = m1
  m2 = m2
  MinExponent = 2
  MaxExponent = 3
INVARIANTS
  ContentsKept
  ResultsAgree
  DecodesAgain
  FindsMeant
  Exact
PROPERTIES
  CollectedExactly
  ChainsKept
CHECK_DEADLOCK FALSE
