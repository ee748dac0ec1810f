CONSTANTS
  p1 = p1  p2 = p2
  k1 = k1  k2 = k2
  o1 = o1
  i1 = i1  i2 = i2  i3 = i3
  q1 = q1  q2 = q2
  Pairs = {p1, p2}
  Keys = {k1, k2}
  Offers = {o1}
  Intents = {i1, i2, i3}
  PairOf <- Rivals
  KeyOf <- RivalKeys
  OfferOf <- OneOffer
  Procs = {q1, q2}
  NoIntent = NoIntent
  NoProc = NoProc
  NoPair = NoPair
  Operator = Operator
  EditInSwap = FALSE
  MaxEdits = 1
SYMMETRY SymmetricProcs
SPECIFICATION Spec
INVARIANTS
  TypeOK
  OnRecord
  RevokedGone
  
PROPERTIES
  ImplementsAccess
