CONSTANTS
  Requests = {r1, r2}
  Endpoints <- TwoEndpoints
  BatchSize = 2
  Starts = 2
  MaxEvents = 3
  Tasks = {t1}
  Rules <- DefaultRules
  Events <- Mixed
  Works <- DefaultWorks
  Cap = 1
  MaxRecent = 2
  Parts = {"telemetry"}
SPECIFICATION MCSpec
INVARIANTS NoLoopLeft
\* The service is shut down.
CHECK_DEADLOCK FALSE
