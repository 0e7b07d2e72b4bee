\* Five servers in three layouts, two of them in trouble; two to four copies.
CONSTANTS
  Server = {1, 2, 3, 4, 5}
  Layouts <- MCLayouts
  BlockCounts = {2, 3, 4}
  Nothing = 0
SPECIFICATION PlacementSpec
CONSTRAINT TwoBad
INVARIANTS
  PlacesFreshServers
  RepairFindsServer
  SpansTwoRacks
