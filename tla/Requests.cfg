SPECIFICATION RequestsSpec
CONSTANTS
  Thread = {t1, t2, t3}
  CreditsPerMinute = 2
  WINDOW_SECONDS = 3
  Lag = 1
  Horizon = 6
  MaxCalls = 5
  MinInterval = 2
  Flow = {f1, f2}
  MaxRefresh = 2
  MaxTickers = 1
  MaxRows = 2
  MaxDay = 3
  Ticker = {a, b}
  Session = {s1, s2, s3}
  None = None
INVARIANTS
  RequestsTypeOK
  WindowIsSuffix
  BudgetRespected
  CallsSpaced
  QuotaNeedsOverlap
  ForeignNeedsOverlap
PROPERTIES
  NoDelayUnderBudget
  Paced
  IntervalPaced
  AddsNeedOverlap
  EarlyRefusalNeedsMidnight
