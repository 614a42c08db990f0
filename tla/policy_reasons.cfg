SPECIFICATION Spec
CONSTANTS
  Config <- MCConfig
  PerHour = 2
  Frame = "15m"
  ObservationAge = 1
  CooldownMs = 2
  NoPlan = NoPlan
  NoAnswer = NoAnswer
  Lifetime = 3
  PositionAge = 2
  Slots <- MCSlots
  Readings <- MCReadings
  Requests <- MCRequests
  Evidences <- MCEvidences
  MaxTime = 4
  MaxBars = 4
INVARIANTS
  DocumentedOrderAccepted
CHECK_DEADLOCK FALSE
