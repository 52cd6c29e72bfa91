SPECIFICATION FairSpec
CONSTANTS
  Requests = {r1, r2}
  Callers = {1, 2, 3}
  PoolSize = 1
  MaxFaults = 2
  MaxCalls = 2
  NoRequest = NoRequest
INVARIANTS
  ReleasedClean
  NoOrphans
PROPERTIES
  FollowsLifecycle
  RequestsEnd
CHECK_DEADLOCK FALSE
