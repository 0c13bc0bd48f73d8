CONSTANTS
  Sizes <- MCSizes
  Iterations = {2, 4}
  PruneIterations = 4
  MaxSkips = 2
  MaxCrashes = 1
  MaxQueue = 8
SPECIFICATION MCSpec
INVARIANTS TestsWhatIsAsked SearchCorrect SavesUnlessLinkLeft
PROPERTIES SearchEnds
CHECK_DEADLOCK FALSE
