SPECIFICATION Spec
CONSTANTS
  Scopes = {s1}
  Selections = {e1}
  Plans = {p1, p2}
  Rulesets = {r1}
  Sessions = {c1, c2}
  Null = Null
  LeaseMs = 1
  RetryMs = 1
  MaxAttempts = 2
  Overlap = FALSE
  MaxTime = 2
INVARIANTS SchemaHolds WaitingAlone AttemptsLeft
PROPERTIES
  TerminalFinal
  NoLiveLeaseStolen
  HeadBlocks
  ImplementsLeases
