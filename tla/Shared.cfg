SPECIFICATION SharedSpec
CONSTANTS
  a1 = a1
  a2 = a2
  b1 = b1
  pa = pa
  pb = pb
  Process = {pa, pb}
  Thread = {a1, a2, b1}
  Home <- MCHome
  Condition = {w20, d50}
  DefaultCondition = w20
  MAX_MA_CONDITIONS = 1
  MaxRequests = 3
  Pos = {p1, p2}
  Worker = {f1}
  StaleAfter = 2
  hot = hot
  cold = cold
  Position = {hot, cold}
  VerdictOf <- MCVerdictOf
  Theme = {th1, th2}
  Slot = {sl1, sl2}
  MaxSent = 2
  User = {u1, u2}
  Connection = {c1, c2}
  Backend = {s1, s2}
  PoolHome <- MCPoolHome
  c1 = c1
  c2 = c2
  s1 = s1
  s2 = s2
  small = small
  large = large
  Refresh = {small, large}
  Lookback <- MCLookback
  History = 3
  MaxPeriod = 5
  Member = {m1, m2}
  Flow = {g1, g2}
  MaxAsked = 3
  None = None
INVARIANTS
  SharedTypeOK
  SeededMeansStored
  EmptyNeedsOverlap
  OrphansSweepable
  BoardMatchesServer
  OwnSettingOrUndone
  ShortNeedsOther
  PartialNeedsTurn
  OneNotification
PROPERTIES
  DefaultsNeverOverwrite
  RequestsEnd
  EveryFlagClears
  LastAdminStays
