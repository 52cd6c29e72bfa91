SPECIFICATION FairSpec
CONSTANTS
  Workspaces = {w1}
  Hosts = {h1}
  Starters = {s1, s2}
  Capacity = 1
  NoHost = NoHost
  NoWorkspace = NoWorkspace
  MaxLaunches = 2
  MaxStarts = 2
  MaxEvents = 2
  s1 = s1
  s2 = s2
  w1 = w1
  h1 = h1
INVARIANTS
  OneAssigner
PROPERTIES
  KeepsWork
  LaunchEnds
  RunawaysGo
  DrainingEnds
CHECK_DEADLOCK FALSE
