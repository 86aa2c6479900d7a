SPECIFICATION Spec
CONSTANTS
  Programs <- MCPrograms
  Scrutinees <- MCScrutinees
  Underscored <- MCUnderscored
  MaxTurns = 2
INVARIANTS
  BranchesAsWarned
  DestroyedReadsFail
  UnreadIsNotRead
  AcceptedRunsOn
CHECK_DEADLOCK FALSE
