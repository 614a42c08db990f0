SPECIFICATION RestartSpec
CONSTANTS
  Bundles <- OneDrifting
  Plans <- OnePlan
  Scopes <- OneScope
  Callers <- MCCallers
  Workers = {w1, w2}
  Handlers = {}
  MaxPlans = 1
  MaxMarket = 1
  MaxFaults = 2
  MaxTime = 2
  Solo = FALSE
  Ruleset = policy
  Null = Null
  Window = 1
  MaxAge = 1
  LeaseMs = 1
  RetryMs = 1
  MaxAttempts = 2
SYMMETRY Symmetric
INVARIANTS TypeOK InsightsAnswerRequests
PROPERTIES QueueImplemented
CHECK_DEADLOCK FALSE
