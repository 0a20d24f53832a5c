SPECIFICATION Spec
CONSTANTS
  Participants = {p1, p2}
  Stations = {s1}
  CardIds = {c1, c2, c3}
  Begin = 1
  Top = 3
  Max = 11
  PageRows = 2
  MaxPassages = 4
INVARIANT PageIsTheTop
