CONSTANTS
  Walks = {"Package", "Effects"}
  MaxPath = 5
  MaxReexports = 1
  Instances <- Aliased
SPECIFICATION Spec
INVARIANTS EnginesLinkAlike
CHECK_DEADLOCK FALSE
