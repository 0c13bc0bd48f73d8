CONSTANTS
  Shapes <- MCShapes
  MaxPending = 2
SPECIFICATION MCSpec
INVARIANTS MatrixCorrect NoneOnlyWhenExhausted
PROPERTIES AllocateSteps SearchEnds
CHECK_DEADLOCK FALSE
