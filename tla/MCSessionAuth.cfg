SPECIFICATION Spec
CONSTANTS
  in1 = in1  in2 = in2  ref1 = ref1  ref2 = ref2  use1 = use1  use2 = use2
  NoSession = NoSession
  Requests <- TwoSessions
  Kind <- KindsTwoSessions
  UserOf <- OneUser
  RecentLimit = 1
  BulkLimit = 1
  FailBudget = 1
  LapseBudget = 1
SYMMETRY Symmetry
CHECK_DEADLOCK FALSE
PROPERTY ImplementsTable
INVARIANTS
  NoStaleAdmission
  RejectedForCause
  OnlyRacedRefreshRevives
