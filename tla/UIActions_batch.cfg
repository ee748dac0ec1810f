CONSTANTS
  N = 3
  NoFile = NoFile
  Faults = {"crash", "abandon", "publish"}
SPECIFICATION FairSpec
INVARIANTS
  TypeOK
  DeliveredOnRecord
  OutcomesTrue
  TerminalDecided
  EvidenceTrue
PROPERTIES
  HistoryKept
  BatchEnds
CHECK_DEADLOCK FALSE
