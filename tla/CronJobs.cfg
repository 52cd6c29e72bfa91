SPECIFICATION FairSpec
CONSTANTS
  Servers = {"s1", "s2"}
  Groups = {"minutely", "daily"}
  LockNames = {"a", "b"}
  Callers <- Loops
  ServerOf <- Server
  JobsOf <- TwoGroups
  Wait <- Waits
  Interval <- Intervals
  NoName = NoName
  PoolSize = 1
  MaxAge = 1
  MaxDeaths = 1
INVARIANTS
  OneServerPerJob
  RunsAtFrequency
PROPERTIES
  JobsKeepRunning
  StopReturns
CHECK_DEADLOCK FALSE
