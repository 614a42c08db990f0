SPECIFICATION LostSpec
CONSTANTS
  Bundles <- WakeupBundles
  Plans <- ManyPlans
  Scopes <- OneScope
  Callers <- MCCallers
  Workers = {}
  Handlers = {h1, h2}
  MaxPlans = 2
  MaxMarket = 0
  MaxFaults = 0
  MaxTime = 1
  Solo = FALSE
  Ruleset = policy
  Null = Null
  Window = 1
  MaxAge = 1
  LeaseMs = 1
  RetryMs = 1
  MaxAttempts = 2
SYMMETRY Symmetric
INVARIANTS NoLostWakeup
PROPERTIES
  SweepRepairs
CHECK_DEADLOCK FALSE
