SPECIFICATION FairSpec
CONSTANTS
  Workers = {w1, w2}
  Null = Null
  LeaseMs = 1
  RetryMs = 1
  MaxAttempts = 2
  Prompt = TRUE
  MaxIds <- OneEach
  MaxTime = 8
  MaxFaults = 2
PROPERTIES CatchesUp
CHECK_DEADLOCK FALSE
