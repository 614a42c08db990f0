SPECIFICATION FairSpec
CONSTANTS
  Sources <- MCSources
  Offers <- MCOffers
  Windows <- MCWindows
  Contexts <- MCContexts
  SourceQuality <- MCSourceQuality
  MethodQuality <- MCMethodQuality
  Bps = 4
  MinScore = 1
  StaleWeight = 2
  Cap = 2
  MaxRows = 2
  Horizon = 3
INVARIANTS
  TypeOK
  ClosureIsExact
  ConclusionsRestOnSources
  NothingLost
  NoBetterItemLeftOut
  SameEvidenceSameVerdict
  SummaryIsTrue
PROPERTIES
  SelectionEnds
CHECK_DEADLOCK FALSE
