CONSTANTS
  NMachines = 2
  NJobs = 3
  Preds <- MCPreds
  Needs <- MCNeeds
  Cleanups <- MCCleanups
  MaxStarts <- MCMaxStarts
SPECIFICATION MCSpec
PROPERTY ReadyJobsStart
CHECK_DEADLOCK FALSE
