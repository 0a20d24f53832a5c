SPECIFICATION Spec
CONSTANTS
  Participants = {p1, p2}
  Stations = {s1, s2}
  NoUid = NoUid
  None = None
  Uids <- AlikePair
  Choices = {1, 2}
  Words = FALSE
  Weight <- MCWeight
  MaxPassages = 1
SYMMETRY Symmetry
INVARIANTS
  StationInv
PROPERTIES
  CreditIsPermanent
  ImplementsLedger
