CONSTANTS
  a1 = a1
  a2 = a2
  b = b
  cli = cli
  Procs = {a1, a2, b, cli}
  AutoProcs = {a1, a2, b}
  Waiters = {a2}
  User <- MCUser
  NoProc = NoProc
  MaxShared = 2
  Timeout = 2
  Slices = 2
SPECIFICATION Spec
INVARIANTS AutoAlone LockCorrect
PROPERTIES RefusedOnlyIfHeld ImplementsMachineLock TryLockEnds
