CONSTANTS
  Files = {a, b}
  a = a
  b = b
  NoText = NoText
  MaxChanges = 4
SPECIFICATION Spec
SYMMETRY FilesAlike
INVARIANTS IndexFollowsText ShownIsCurrent
\* The editor may stop.
CHECK_DEADLOCK FALSE
