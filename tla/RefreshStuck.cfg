SPECIFICATION Spec
CONSTANTS
  Pos = {p1}
  Flow = {f1, f2}
  StaleAfter = 2
  None = None
SYMMETRY Symmetry
INVARIANTS
  OrphansSweepable
