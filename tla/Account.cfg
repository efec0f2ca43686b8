CONSTANTS
  Requests = {r1, r2, r3}
  Threshold = 3
  Durations <- Growing
  Users = {u1}
  StepUps = {s1, s2}
  Providers = {"EMAIL"}
  Asked <- NewDevice
  MaxAttempts = 2
  MaxEnrolled = 2
  Attempts = {a1, a2, a3}
  WindowTicks = 2
  MaxRequests = 3
  ThresholdFailed = 2
  ThresholdPercent = 30
  BlockAfter = 2
  DecayTicks = 1
  MaxPenalty = 3
  Parts = {"limiter", "lockout", "step_up"}
SPECIFICATION MCSpec
INVARIANTS TypesOK FailuresBounded LimiterHolds StepUpDecides
PROPERTIES LockHolds LockEnds LetThroughAgain
\* Step-ups are answered or forgotten, and enrollments bounded.
CHECK_DEADLOCK FALSE
