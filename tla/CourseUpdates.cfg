SPECIFICATION FairSpec
CONSTANTS
  Servers = {"s1", "s2"}
  Callers = {edit, pull}
  Jobs = {edit, pull}
  Edits = {edit}
  ServerOf <- OwnServer
  Lock = lock
  First <- AllFirst
  LockNames = {lock}
  NoName = NoName
  PoolSize = 2
  Files = {f}
  Contents = {v1, v2}
  Absent = Absent
  Mixed = Mixed
  AbandonedAge = 1
  MaxCommits = 3
  MaxFailures = 1
INVARIANTS
  OnlyPushedIsPublished
  ChunksMatch
  SuccessIsPublished
PROPERTIES
  RecordedIsSynced
  StatusIsFinal
  JobsDecided
CHECK_DEADLOCK FALSE
