SPECIFICATION PageSpec
CONSTANTS
  p1 = p1
  T = T
  Pos = {p1}
  LongTerm = {}
  TickerOf <- MCTickerOf
  Caches <- MCCaches
  WeeklyCache = {}
  Worker = {w1}
  All = All
  DaysPerWeek = 2
  LastDay = 2
  MaxOps = 1
  None = None
INVARIANTS
  CountersAuthoritative
