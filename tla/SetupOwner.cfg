CONSTANTS
  d = d  x1 = x1  p1 = p1  p2 = p2
  Components = {d}
  Packages = {d}
  Runtime = d
  Parent <- Tree
  Install = install
  Removals = {x1}
  NoPath = NoPath
  NoReceipt = NoReceipt
  Faults = {"fail", "die"}
  MaxFaults = 1
  Procs = {p1, p2}
  MaxExec = 2
  NoExec = NoExec
SPECIFICATION OwnerSpec
SYMMETRY Callers
INVARIANTS
  FenceCovers
  SettledTrue
  
PROPERTIES
  ImplementsInstaller
CHECK_DEADLOCK FALSE
