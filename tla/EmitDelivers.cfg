CONSTANTS
  Parts = {"trust"}
  Users = {u1, u2}
  Consoles = {c1}
  Scores <- BoundaryScores
  MaxLogins = 3
  MaxLate = 1
  Nodes = {n1, n2}
  Capacity = 2
  Rate = 1
  MaxTime = 1
  Clients = {k1}
  Outer = 2
  Inner = 1
  Sessions = {s1, s2}
  Browsers = {b1, b2}
  SessionTtl = 2
  Settings <- AdminSettings
  Cap = 2
  Sizes = {1, 2}
  MaxBody = 4
  Statuses = {200, 400}
  ReadsOn = FALSE
  Paths <- LoginAndHealth
  ExcludedPaths <- HealthAndDocs
  Configurations <- SomeLayers
  ProtectedRoutes <- ProtectedPaths
  Requests = {1, 2, 3}
  Accounts = {"ann"}
  Enrolled = {"ann"}
  Origins <- OneOrigin
  Threshold = 2
  Artifacts = {"a1", "a2"}
  Deployments <- Environments
  MaxReplaced = 2
  Logins = {1, 2}
  Passwords <- TwoPasswords
  Prefix <- FirstFive
  Ttl = 2
  LongestFetch = 1
  Challenges = {1, 2}
  Fingerprints <- ThreeFingerprints
  Responses <- AnyResponses
  Lifetime = 2
  Callers = {1, 2}
  MaxStarts = 3
  MaxEvents = 3
  Warm = 1
  Registrations <- Application
  Tokens = {"t1"}
  Resources = {"r1"}
  Contexts <- TokenContexts
  Kinds <- ResourceKinds
  Operations = {1, 2}
  TokenTtl = 1
  MaxMemory = 4
  Runs = {"run1", "run2"}
  Terminations = {"c1"}
  Targets = {"s1"}
  ContainmentPolicies <- TwoPolicies
  Alerts <- ContainmentContexts
  Cooldown = 2
SPECIFICATION MCSpec
INVARIANTS EmitDelivers
\* Operations are bounded.
CHECK_DEADLOCK FALSE
