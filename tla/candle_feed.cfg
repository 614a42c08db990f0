SPECIFICATION FairSpec
CONSTANTS
  Config <- MCConfig
  PerHour = 2
  MaxTries = 2
  Lookback = 3
  Enough = 2
  Tolerance = 2
  Slots <- MCSlots
  MaxVersion = 1
  MaxFaults = 2
  MaxTime = 7
INVARIANTS
  TypeOK
  StoredIsGenuine
  StaleOnlyWhenCandlesMissing
PROPERTIES
  NeverRegresses
  Converges
CHECK_DEADLOCK FALSE
