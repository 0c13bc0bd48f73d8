CONSTANTS
  Sizes <- MCSizes
  Others <- MCOthers
  OtherRuns <- MCOtherRuns
  Settings <- MCSettings
  Ids <- MCIds
SPECIFICATION MCSpec
INVARIANTS EveryBrOnce HitsRight StoredKept
PROPERTIES ReadingEnds
CHECK_DEADLOCK FALSE
