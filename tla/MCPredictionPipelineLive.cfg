SPECIFICATION FairSpec
CONSTANTS
  good1 = good1  good2 = good2  bad = bad
  w1 = w1  w2 = w2  t1 = t1  t2 = t2
  NoJob = NoJob  NoStats = NoStats
  Predictions <- GoodBad
  Malformed <- OneBad
  Workers <- TwoWorkers
  Prefetch = 1
  Triggers <- OneTrigger
  MaxRetries = 2
  CrashBudget = 1
  DisconnectBudget = 1
  FaultBudget = 1
PROPERTIES
  ImplementsLifecycle
  QueueDrains
