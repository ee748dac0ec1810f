CONSTANTS
  c1 = c1  c2 = c2  c3 = c3
  r1 = r1  r2 = r2
  s1 = s1  s2 = s2
  Claims = {c1}
  Runs = {r1}
  RunOf <- OneRun
  UIClaims = {}
  Sessions = {s1, s2}
  NoClaim = NoClaim
  Torn = Torn
  NoSession = NoSession
  Faults = {"crash", "probecrash"}
  MaxFaults = 1
SPECIFICATION Spec
INVARIANTS
  SessionUnderLock
CHECK_DEADLOCK FALSE
