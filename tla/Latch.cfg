SPECIFICATION Spec
CONSTANTS
  c1 = c1
  c2 = c2
  s1 = s1
  s2 = s2
  Connection = {c1, c2}
  Backend = {s1, s2}
  Home <- MCHome
  User = {u1, u2}
  None = None
INVARIANTS
  OwnSetting
