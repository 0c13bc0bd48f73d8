CONSTANTS
  Brs = {"b1", "b2", "b3"}
  Machines = {"m1", "m2"}
  Remote <- MCRemote
  Image <- MCImage
  Patience = 1
  MaxOther = 1
  OtherImage = "o"
  NoImage = "none"
  NoMachine = "nomachine"
SPECIFICATION MCSpec
INVARIANTS OneBrPerMachine UsedAreLocked RightImage LostWereRemoved CountsRight
PROPERTIES ExperimentEnds
CHECK_DEADLOCK FALSE
