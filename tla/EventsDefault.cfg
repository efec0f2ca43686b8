CONSTANTS
  Requests = {r1}
  Endpoints <- TwoEndpoints
  BatchSize = 2
  Starts = 1
  MaxEvents = 1
  Tasks = {t1, t2}
  Rules <- DefaultRules
  Events <- Failures
  Works <- DefaultWorks
  Cap = 1
  MaxRecent = 3
  Parts = {"soar"}
SPECIFICATION MCSpec
INVARIANTS EveryRuleRuns
\* Events are bounded.
CHECK_DEADLOCK FALSE
