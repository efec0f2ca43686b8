CONSTANTS
  Requests = {r1, r2}
  Eager = FALSE
  Gated = FALSE
  Threads = {t1, t2, t3}
  MaxForced = 1
  MaxFailures = 1
  Retries = 2
  MaxChanges = 2
  Parts = {"readiness", "network", "investigation"}
SPECIFICATION MCSpec
INVARIANTS TypesOK LoadsOnce NeverHalfInitialised ReportedOnce
PROPERTIES BecomesReady Settles
