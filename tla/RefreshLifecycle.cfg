SPECIFICATION FairSpec
CONSTANTS
  Pos = {p1}
  Flow = {f1, f2, f3}
  StaleAfter = 1
  None = None
INVARIANTS
  TypeOK
  FlagOwned
PROPERTIES
  OwnedFlagClears
