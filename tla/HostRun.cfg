CONSTANTS
  c1 = c1  c2 = c2  c3 = c3
  r1 = r1  r2 = r2
  s1 = s1  s2 = s2
  Claims = {c1, c2, c3}
  Runs = {r1, r2}
  RunOf <- ThreeClaims
  UIClaims = {c1}
  Sessions = {s1, s2}
  NoClaim = NoClaim
  Torn = Torn
  NoSession = NoSession
  Faults = {"abandon", "crash", "lockwrite", "receiptwrite", "broker", "uijournal", "halfadopt", "locksync", "restage", "torn"}
  MaxFaults = 2
SPECIFICATION Spec
INVARIANTS
  TypeOK
  SessionUnderLock
  CleanupIsTrue
  SetupExclusive
  SessionAuthentic
PROPERTIES
  ImplementsLease
CHECK_DEADLOCK FALSE
