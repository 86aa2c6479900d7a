SPECIFICATION Spec
CONSTANTS
  Seeds <- MCSeeds
  Turns <- MCTurns
  Apart = FALSE
INVARIANTS
  EnginesAgree
  LeftToRight
  EditsByDefinition
PROPERTIES
  RefusedEditLeavesReceiver
CHECK_DEADLOCK FALSE
