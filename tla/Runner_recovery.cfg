CONSTANTS
  Runners = {r1}
  Observers = {o1}
  Sessions = {s1}
  NoSession = NoSession
  Files = {journal}
  UIJournal = journal
  Faults = {"crash", "publish"}
  MaxFaults = 1
SPECIFICATION FairSpec
INVARIANTS
  SettledIsFinal
PROPERTIES
  HostReleased
CHECK_DEADLOCK FALSE
