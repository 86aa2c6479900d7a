CONSTANTS
  m1 = m1
  m2 = m2
  x = x
  y = y
  v1 = v1
  v2 = v2
  Modules = {m1, m2}
  Script = script
  Imports <- MCImports
  Names = {x}
  Declared <- MCDeclared
  Values = {v1, v2}
  Initial = v1
  Unit = unit
  Lent = lent
  Absent = absent
  Signatures <- LendingSignatures
  LambdaParams = {}
  LambdaHomes = {script}
  LambdaHolds <- MCHoldsX
  ErrName = x
  MaxCalls = 3
  MaxNest = 0
  MaxOpen = 6
  ArgumentsEnd = FALSE
SPECIFICATION Spec
INVARIANTS ModuleCodeAtHome
PROPERTIES ImplementsModuleStore
CHECK_DEADLOCK FALSE
