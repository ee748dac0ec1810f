CONSTANTS
  Runners = {r1}
  Observers = {o1}
  Sessions = {s1, s2}
  NoSession = NoSession
  Files = {result, journal}
  UIJournal = journal
  Faults = {"crash", "record", "publish", "unread", "lose", "store", "malformed", "foreign", "imposter"}
  MaxFaults = 1
SPECIFICATION Spec
SYMMETRY Symmetry
INVARIANTS
  TypeOK
  CleanupAttempted
  PinAgreement
  BundleTrue
PROPERTIES
  EffectsNeedPin
CHECK_DEADLOCK FALSE
