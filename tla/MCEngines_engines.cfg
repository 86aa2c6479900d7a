SPECIFICATION EnginesSpec
CONSTANTS
  Programs <- MCPrograms
  ProgramNames <- MCNames
  MaxCalls = 3
INVARIANTS
  FramesFit
  NothingLeftOpen
  CodeFits
  AutoFreeIsInvisible
PROPERTY KeepsPromise
CHECK_DEADLOCK FALSE
