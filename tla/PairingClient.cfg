CONSTANTS
  p1 = p1  p2 = p2
  k1 = k1  k2 = k2
  o1 = o1  o2 = o2
  c1 = c1  c2 = c2
  Pairs = {p1, p2}
  Keys = {k1, k2}
  Offers = {o1}
  Procs = {c1, c2}
  None = None
  OtherTarget = OtherTarget
  Overlap = FALSE
SYMMETRY Symmetric
SPECIFICATION Spec
INVARIANTS
  RequestKept
  KeysNamed
  TargetBacked
  ReportsTrue
