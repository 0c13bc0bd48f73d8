CONSTANTS
  Specs <- MCSpecs
  Numeric <- MCNumeric
  Start <- MCStart
  End <- MCEnd
  Algorithms = {"GA", "HillClimb", "Elimination"}
  NumChromosomes = 2
  StopThreshold = 0
  Checksums = {101}
  ErrorImage = 100
  Costs = {1}
  POISONPILL = POISONPILL
  NumProcesses <- MCNumProcesses
SPECIFICATION Spec
INVARIANTS ResultsDelivered LocalOptimum
PROPERTIES ExperimentEnds
CHECK_DEADLOCK FALSE
