SPECIFICATION Spec
CONSTANTS
  Questions = {1}
  AQ <- OneExternalQuestion
  Zones <- CappedZone
  MaxPoints = 4
  MaxBonusPoints = 0
  Credits = {100}
  RawResults <- OneResult
  AutoClose = FALSE
  RateLimited = FALSE
  Workers = {w1, w2}
  Cron = cron
  ScoreUnit = 1
  MaxVariants = 1
  MaxSubmissions = 2
  MaxJobs = 2
  MaxCrashes = 0
  w1 = w1
  w2 = w2
  cron = cron
SYMMETRY HandlerSymmetry
INVARIANTS
  OneOutstandingJob
  RequestsBacked
PROPERTIES
  GradedInOrder
  DecidedJobsFinal
  ImplementsService
CHECK_DEADLOCK FALSE
