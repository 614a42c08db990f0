SPECIFICATION Spec
CONSTANTS
  Workers = {w1, w2}
  Null = Null
  LeaseMs = 1
  RetryMs = 1
  MaxAttempts = 2
  Prompt = FALSE
  MaxIds <- TwoAndOne
  MaxTime = 2
  MaxFaults = 2
SYMMETRY Symmetric
INVARIANTS TypeOK CursorCoherent NothingSkipped
PROPERTIES NeverBack LeaseKept
CHECK_DEADLOCK FALSE
