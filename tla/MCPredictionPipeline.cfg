SPECIFICATION Spec
CONSTANTS
  good1 = good1  good2 = good2  bad = bad
  w1 = w1  w2 = w2  t1 = t1  t2 = t2
  NoJob = NoJob  NoStats = NoStats
  Predictions <- OneGood
  Malformed <- NoneMalformed
  Workers <- TwoWorkers
  Prefetch = 1
  Triggers <- TwoTriggers
  MaxRetries = 2
  CrashBudget = 1
  DisconnectBudget = 1
  FaultBudget = 2
SYMMETRY Symmetry
INVARIANTS
  TypeOK
  NoLostPrediction
  RowsBoundedByCopies
  CounterAccountsForRows
  ClaimsHoldOnce
  DeadLetterNeedsFaults
