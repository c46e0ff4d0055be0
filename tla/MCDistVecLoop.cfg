SPECIFICATION Spec
CONSTANTS
  Nodes = {1, 2, 3, 4}
  Costs = {1, 5}
  INFINI = 12
  Edges = {{1, 2}, {1, 3}, {2, 4}, {3, 4}}
  Topologies <- MCTopologies
  Orders <- TwoOrders
  MaxChanges = 1
PROPERTY
  Terminates
