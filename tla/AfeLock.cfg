CONSTANTS
  Machines = {1, 2}
  Experiments = {"e1", "e2"}
  People = {"p"}
  Imagers = {"i"}
  UserOf <- MCUserOf
  Remote <- MCRemote
  MaxTries = 2
  Free = "free"
SPECIFICATION AfeSpec
INVARIANTS LocksKept
PROPERTIES StaleUnlocksOnly ClientsEnd
CHECK_DEADLOCK FALSE
