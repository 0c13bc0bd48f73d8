CONSTANTS
  NLabels = 2
  NDuts = 2
  NBrs = 2
  Remote <- MCAnyRemote
  LabelOf <- MCOneLabel
  Image <- MCSameImage
  Checksummed <- MCChecksummed
SPECIFICATION MCFairSpec
PROPERTIES EveryoneEnds
CHECK_DEADLOCK FALSE
