CONSTANTS
  NMachines = 2
  NJobs = 3
  Preds <- MCPreds
  Needs <- MCNeeds
  Cleanups <- MCCleanups
  MaxStarts <- MCMaxStarts
SPECIFICATION MCSpec
INVARIANTS MachinesAccounted JobsOnceInOrder
PROPERTIES NotificationEnds
CHECK_DEADLOCK FALSE
