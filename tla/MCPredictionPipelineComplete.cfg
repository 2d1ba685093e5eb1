SPECIFICATION Spec
CONSTANTS
  good1 = good1  good2 = good2  bad = bad
  w1 = w1  w2 = w2  t1 = t1  t2 = t2
  NoJob = NoJob  NoStats = NoStats
  Predictions <- GoodPair
  Malformed <- NoneMalformed
  Workers <- OneWorker
  Prefetch = 1
  Triggers <- TwoTriggers
  MaxRetries = 3
  CrashBudget = 0
  DisconnectBudget = 0
  FaultBudget = 0
INVARIANT CompleteMeansDone
