SPECIFICATION Spec
CONSTANTS
  hot = hot
  cold = cold
  Position = {hot, cold}
  Theme = {th1}
  VerdictOf <- MCVerdictOf
  Slot = {sl1, sl2}
  MaxSent = 2
  None = None
INVARIANTS
  ChipsShowTheirPosition
