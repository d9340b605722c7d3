SPECIFICATION Spec
CONSTANTS
  Flow = {f1, f2}
  MaxRefresh = 3
  MaxTickers = 2
  MaxRows = 4
  MaxDay = 2
  None = None
INVARIANTS
  QuotaHolds
