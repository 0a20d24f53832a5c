SPECIFICATION MCSpec
CONSTANTS
  Zones = {summed, capped, monthly}
  Monthly = {monthly}
  Summed = {summed}
  Capped = {capped}
  e1 = e1
  e2 = e2
  e3 = e3
  Ids = {e1, e2, e3}
  RowLists <- MCRowLists
  MaxEntities = 2
  MaxPoint = 3
  None = None
  Top = 2
  Totals = {3, 4, 5}
  Lowest <- MCLowest
  Datasets <- MCDatasets
  Records <- MCRecords
  Groups <- MCGroups
  Table = {1, 2}
  Beyond = {30}
  Throwing = {"adresses"}
  NaN = NaN
  Undrawn = Undrawn
  Default = Default
  MaxRequests = 2
INVARIANTS
  IndexInRange
  ArrowsAgree
  ShownIsIndexed
  PagesFit
  BelowOneIsUneven
  ChartsHaveTheirTag
  MapCountsCharted
PROPERTY ChangeTopperReturns
