SPECIFICATION Spec
CONSTANTS
  Participants = {p1, p2}
  Stations = {s1}
  NoUid = NoUid
  None = None
  Uids <- PlainPair
  Choices = {0, 1, 2, 3}
  Words = TRUE
  Weight <- MCWeight
  MaxPassages = 1
INVARIANT LapIsChosen
