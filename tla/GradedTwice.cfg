SPECIFICATION Spec
CONSTANTS
  Questions = {1}
  AQ <- OneExamQuestion
  Zones <- CappedZone
  MaxPoints = 4
  MaxBonusPoints = 0
  Credits = {100}
  RawResults <- NoResults
  AutoClose = FALSE
  RateLimited = FALSE
  Workers = {w1}
  Cron = cron
  ScoreUnit = 1
  MaxVariants = 1
  MaxSubmissions = 1
  MaxJobs = 2
  MaxCrashes = 0
  w1 = w1
  w2 = w2
  cron = cron
INVARIANTS
  OneAttemptPerAnswer
CHECK_DEADLOCK FALSE
