SPECIFICATION Spec
CONSTANTS
  p1 = p1
  p2 = p2
  p3 = p3
  T = T
  U = U
  Pos = {p1, p2, p3}
  LongTerm = {p2}
  TickerOf <- MCTickerOf
  Caches <- MCCaches
  WeeklyCache = {}
  Worker = {w1, w2}
  All = All
  DaysPerWeek = 2
  LastDay = 2
  MaxOps = 2
  None = None
SYMMETRY Symmetry
INVARIANTS
  TypeOK
  VerdictMatchesSnapshot
PROPERTIES
  PreviousIsPrevious
  OlderNeedsOverlap
