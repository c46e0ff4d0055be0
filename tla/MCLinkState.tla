---------------------------- MODULE MCLinkState -----------------------------
EXTENDS LinkState

CONSTANT Edges        \* the pairs of nodes that may have a link at the start

\* Every graph over Edges in which every node occurs, as a topology file has it.
GraphOf(cost) ==
  [n \in Nodes |->
     [m \in {k \in Nodes : \E e \in Edges : e = {n, k} /\ cost[e] # 0} |-> cost[{n, m}]]]

MCTopologies ==
  {g \in {GraphOf(cost) : cost \in [Edges -> {0} \cup Costs]} :
     \A n \in Nodes : DOMAIN g[n] # {}}
=============================================================================
