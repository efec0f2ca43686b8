CONSTANTS
  Requests = {r1, r2}
  Eager = FALSE
  Gated = TRUE
SPECIFICATION TrafficSpec
PROPERTIES GateOpens
CHECK_DEADLOCK FALSE
