CONSTANTS
  Requests = {r1, r2}
  Threshold = 3
  Durations <- Growing
  Users = {u1}
  StepUps = {s1}
  Providers = {"SMS", "EMAIL"}
  Asked <- NoMatch
  MaxAttempts = 3
  MaxEnrolled = 2
  Attempts = {a1}
  WindowTicks = 2
  MaxRequests = 3
  ThresholdFailed = 2
  ThresholdPercent = 30
  BlockAfter = 2
  DecayTicks = 1
  MaxPenalty = 3
  Parts = {"step_up"}
SPECIFICATION MCSpec
INVARIANTS OwnCodesAccepted
\* Step-ups are answered or forgotten, and enrollments bounded.
CHECK_DEADLOCK FALSE
