SPECIFICATION Spec
CONSTANTS
  Nodes = {1, 2, 3, 4}
  Costs = {1, 2}
  INFINI = 9
  Edges = {{1, 2}, {1, 3}, {2, 3}, {2, 4}, {3, 4}}
  Topologies <- MCTopologies
  MaxChanges = 1
INVARIANTS
  EdgesMatchWeights
  NearestFirst
  SmallestPredecessor
  TablesLeadToDestination
PROPERTIES
  ImplementsRouting
  Terminates
