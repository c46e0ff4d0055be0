SPECIFICATION Spec
CONSTANTS
  Nodes = {1, 2, 3, 4}
  Costs = {1, 2}
  INFINI = 7
  Edges = {{1, 2}, {2, 3}, {3, 4}}
  Topologies <- WithCycles
  Orders <- TwoOrders
  MaxChanges = 2
INVARIANTS
  TypeOK
  LatestVectorKnown
  UnreachableAgree
  HopMatchesCost
PROPERTIES
  ImplementsRouting
  Converges
  RoutesEnd
