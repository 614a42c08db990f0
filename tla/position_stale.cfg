SPECIFICATION Spec
CONSTANTS
  Bundles <- OneDrifting
  Plans <- OnePlan
  Scopes <- OneScope
  Callers <- MCCallers
  Workers = {}
  Handlers = {h1}
  MaxPlans = 1
  MaxMarket = 0
  MaxFaults = 0
  MaxTime = 2
  Solo = FALSE
  Ruleset = policy
  Null = Null
  Window = 1
  MaxAge = 1
  LeaseMs = 1
  RetryMs = 1
  MaxAttempts = 2
PROPERTIES ExpiredWaitingFails
CHECK_DEADLOCK FALSE
