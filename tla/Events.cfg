CONSTANTS
  Requests = {r1, r2}
  Endpoints <- TwoEndpoints
  BatchSize = 2
  Starts = 2
  MaxEvents = 4
  Tasks = {t1, t2}
  Rules <- DefaultRules
  Events <- Mixed
  Works <- DefaultWorks
  Cap = 1
  MaxRecent = 2
  Parts = {"telemetry", "soar"}
SPECIFICATION MCSpec
INVARIANTS TypesOK AuditKept CapOvershootBounded PlaybooksRun
PROPERTIES AllOffered
\* The service is shut down, and events are bounded.
CHECK_DEADLOCK FALSE
