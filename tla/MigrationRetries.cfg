SPECIFICATION Spec
CONSTANTS
  Servers = {l1, f1}
  Callers = {l1, f1}
  Loops = {l1}
  Finalizers = {f1}
  ServerOf <- MCServer
  LockNames <- MCLockNames
  NoName = NoName
  PoolSize = 1
  Migrations = {1}
  Params <- ThreeValues
  MaxJobs = 5
  MaxFailures = 1
  MaxRetries = 1
  MaxDeaths = 2
  l1 = l1
  f1 = f1
INVARIANTS
  FinalizedIsAlwaysComplete
CHECK_DEADLOCK FALSE
