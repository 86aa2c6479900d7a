CONSTANTS
  m1 = m1
  m2 = m2
  x = x
  y = y
  v1 = v1
  v2 = v2
  Modules = {m1}
  Script = script
  Imports <- MCImports
  Names = {x}
  Declared <- MCDeclared
  Values = {v1}
  Initial = v1
  Unit = unit
  Lent = lent
  Absent = absent
  Signatures <- PassingSignatures
  LambdaParams = {x}
  LambdaHomes = {script}
  LambdaHolds <- MCHoldsNone
  ErrName = x
  MaxCalls = 2
  MaxNest = 2
  MaxOpen = 5
  ArgumentsEnd = FALSE
SPECIFICATION FairSpec
INVARIANTS
  OneTable
  LentOnce
  MarksInside
  NoStrayScope
  CallsBalanced
PROPERTIES
  ErrorLands
  EndedKeepsItsPlace
CHECK_DEADLOCK FALSE
