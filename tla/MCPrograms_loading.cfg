CONSTANTS
  Walks = {"Package", "Effects"}
  MaxPath = 5
  MaxReexports = 1
  Instances <- LoadingProjects
SPECIFICATION FairSpec
INVARIANTS CyclesAreFound LoadedIsClosed EnginesLinkAlike ChecksKnowTheRun PackageHasWhatRuns
PROPERTIES WalkEnds
CHECK_DEADLOCK FALSE
