SPECIFICATION HistorySpec
CONSTANTS
  ScoreUnit = 3
  MaxAttempts = 5
  Configs <- AllConfigs
INVARIANTS
  ExamWorth
  AdvertisedIsEarned
  HomeworkWorth
CHECK_DEADLOCK FALSE
