CONSTANTS
  c1 = c1  c2 = c2  c3 = c3
  r1 = r1  r2 = r2
  s1 = s1  s2 = s2
  Claims = {c1, c3}
  Runs = {r1}
  RunOf <- SharedRun
  UIClaims = {c1}
  Sessions = {s1, s2}
  NoClaim = NoClaim
  Torn = Torn
  NoSession = NoSession
  Faults = {"abandon", "crash", "lockwrite", "receiptwrite", "broker"}
  MaxFaults = 3
SPECIFICATION FairSpec
PROPERTIES
  ReceiptProgress
  
