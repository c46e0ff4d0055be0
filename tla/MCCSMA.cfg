SPECIFICATION Spec
CONSTANTS
  Nodes = {n1, n2, n3}
  L = 3
  R <- BackOffRanges
  M = 3
  MaxTime = 11
  FirstMin = 3
INVARIANTS
  StatisticsAgree
  BackOffRange
PROPERTIES
  IdleUntilReady
  Ends
