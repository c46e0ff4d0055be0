SPECIFICATION Spec
CONSTANTS
  Nodes = {1, 2, 3, 4}
  Costs = {1, 2}
  INFINI = 9
  Topologies = {}
  MaxLines = 3
  MaxChanges = 2
INVARIANTS
  SameNetwork
  SourcesComplete
