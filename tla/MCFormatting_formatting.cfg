SPECIFICATION Spec
CONSTANTS
  Sources <- MCSources
  Layouts <- MCLayouts
  MaxBreaks = 1
INVARIANTS
  KeepsMeaning
  FixedPoint
  OneMistakeOneDiagnostic
CHECK_DEADLOCK FALSE
