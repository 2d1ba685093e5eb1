SPECIFICATION FairSpec
CONSTANTS
  p1 = p1  p2 = p2  p3 = p3  b1 = b1  b2 = b2
  NoDraw = NoDraw
  Predictions <- ThreePredictions
  Malformed <- OneMalformed
  Batches <- TwoBatches
  BatchSize = 2
  SeedBudget = 1
  FailBudget = 1
CHECK_DEADLOCK FALSE
INVARIANTS
  TypeOK
  BatchCoversAll
  PagesInOrder
  RepeatNeedsLateCommitOrTie
PROPERTIES
  StaleDrawFades
