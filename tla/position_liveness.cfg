SPECIFICATION BacklogSpec
CONSTANTS
  Bundles <- OneLasting
  Plans <- ManyPlans
  Scopes <- OneScope
  Callers <- MCCallers
  Workers = {w1, w2, w3}
  Handlers = {}
  MaxPlans = 2
  MaxMarket = 0
  MaxFaults = 2
  MaxTime = 9
  Solo = TRUE
  Ruleset = policy
  Null = Null
  Window = 1
  MaxAge = 1
  LeaseMs = 1
  RetryMs = 1
  MaxAttempts = 2
PROPERTIES RequestsEnd
CHECK_DEADLOCK FALSE
