SPECIFICATION FairSpec
CONSTANTS
  Questions = {1}
  AQ <- OneExamQuestion
  Zones <- CappedZone
  MaxPoints = 4
  MaxBonusPoints = 0
  Credits = {50, 110}
  RawResults <- NoResults
  AutoClose = TRUE
  RateLimited = TRUE
  Workers = {w1}
  Cron = cron
  ScoreUnit = 1
  MaxVariants = 1
  MaxSubmissions = 2
  MaxJobs = 3
  MaxCrashes = 1
  w1 = w1
  w2 = w2
  cron = cron
PROPERTIES
  PointsNeverDecrease
  ExamFinishes
CHECK_DEADLOCK FALSE
