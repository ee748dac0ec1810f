CONSTANTS
  d = d  f = f  p = p
  x1 = x1  x2 = x2
  Components = {d, f, p}
  Packages = {p}
  Runtime = d
  Parent <- Tree
  Install = install
  Removals = {x1, x2}
  NoPath = NoPath
  NoReceipt = NoReceipt
  Faults = {"fail", "die", "tamper"}
  MaxFaults = 3
SPECIFICATION FairSpec
INVARIANTS
  OnRecord
  FinishedTrue
PROPERTIES
  Converges
CHECK_DEADLOCK FALSE
