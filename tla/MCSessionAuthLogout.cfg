SPECIFICATION Spec
CONSTANTS
  in1 = in1  in2 = in2  ref1 = ref1  ref2 = ref2  use1 = use1  use2 = use2
  NoSession = NoSession
  Requests <- OneSession
  Kind <- KindsOneSession
  UserOf <- OneUser
  RecentLimit = 3
  BulkLimit = 100
  FailBudget = 0
  LapseBudget = 0
CHECK_DEADLOCK FALSE
INVARIANT LoggedOutStaysOut
