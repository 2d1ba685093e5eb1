SPECIFICATION Spec
CONSTANTS
  t1 = t1  t2 = t2  q1 = q1  w1 = w1
  Triggers <- TwoTriggers
  Queries <- OneQuery
  Workers <- OneWorker
  Batch <- Batches
  HighWater = 2
  DisconnectBudget = 1
  CrashBudget = 1
CHECK_DEADLOCK FALSE
INVARIANTS
  TypeOK
  RoutesStand
  AnsweredMeansHandedOver
PROPERTIES
  ChannelKeptByQueries
  TriggersEnd
