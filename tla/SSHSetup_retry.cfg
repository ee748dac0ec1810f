CONSTANTS
  p1 = p1  p2 = p2
  Procs = {p1}
  Types = {"Automatic", "Manual", "Disabled"}
  NoReceipt = NoReceipt
  Overlap = FALSE
  MaxFaults = 1
  MaxEdits = 0
SPECIFICATION ApplySpec
PROPERTIES
  RetryConverges
