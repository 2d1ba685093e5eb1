SPECIFICATION Spec
CONSTANTS
  s1 = s1  s2 = s2  v1 = v1  v2 = v2
  NoOtp = NoOtp  NoTtl = NoTtl  Wrong = Wrong
  Sends <- TwoSends
  Verifies <- TwoVerifies
  Expiry = 2
  Cooldown = 2
  Window = 1
  MaxAttempts = 1
  FailBudget = 1
SYMMETRY Symmetry
CHECK_DEADLOCK FALSE
INVARIANTS
  TypeOK
  SpacedSends
  CodeSpentOnce
  RejectedForCause
  GuessBudget
  CounterEnds
PROPERTY
  ImplementsOneTimeCode
