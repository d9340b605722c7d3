SPECIFICATION Spec
CONSTANTS
  Ticker = {a, b}
  Flow = {f1, f2}
  None = None
INVARIANTS
  SettledDataIsOwn
