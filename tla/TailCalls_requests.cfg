SPECIFICATION Spec
CONSTANTS
    NoFunction = NoFunction
    Functions = {f, g}
    Values = {a}
    Names = {c}
    MaxCalls = 3
    MaxTries = 1
CHECK_DEADLOCK FALSE
INVARIANTS
    RequestIsOwn
    CurrentIsInnermost
