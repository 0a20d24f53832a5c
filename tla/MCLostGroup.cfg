SPECIFICATION KpiSpec
CONSTANTS
  p1 = p1
  p2 = p2
  p3 = p3
  nice = nice
  cannes = cannes
  Null = Null
  Empty = Empty
  Participants <- MCParticipants
  Idents <- MCIdents
  IdentOf <- MCIdentOf
  Stations = {s1}
  CardIds = {c1, c2}
  MaxCount = 2
  MaxPassages = 5
  RowIdents = {Null, Empty, g1, g2}
  MaxRows = 5
INVARIANT SendsEveryGroup
