CONSTANTS
  Attempts = {r1}
  WindowTicks = 2
  MaxRequests = 3
  ThresholdFailed = 2
  ThresholdPercent = 30
  BlockAfter = 2
  DecayTicks = 1
  MaxPenalty = 3
SPECIFICATION TimedSpec
PROPERTIES PenaltyDecays
