CONSTANTS
  NLabels = 2
  NDuts = 2
  NBrs = 3
  Remote <- MCRemote
  LabelOf <- MCLabelOf
  Image <- MCImage
  Checksummed <- MCChecksummed
SPECIFICATION MCSpec
INVARIANTS RunAtMostOnce RightImage NothingLeftBehind LateBound SkippedBehindEnded
CHECK_DEADLOCK FALSE
