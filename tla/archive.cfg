SPECIFICATION Spec
CONSTANTS
  Writers = {w1, w2}
  Readers = {r1}
  k1 = k1
  k2 = k2
  k3 = k3
  Keys <- MCKeys
  AboutOf <- MCAboutOf
  Queries <- MCQueries
  MaxLimit = 2
  None = None
  MaxTime = 2
  MaxId = 3
SYMMETRY Symmetric
INVARIANTS
  HistoryIsComplete
PROPERTIES
  CurrentNeverOlder
CHECK_DEADLOCK FALSE
