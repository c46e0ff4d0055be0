----------------------------- MODULE MCDistVec ------------------------------
EXTENDS DistVec

CONSTANT Edges        \* the pairs of nodes that may have a link at the start

\* Every graph over Edges in which every node occurs, as a topology file has it.
GraphOf(cost) ==
  [n \in Nodes |->
     [m \in {k \in Nodes : \E e \in Edges : e = {n, k} /\ cost[e] # 0} |-> cost[{n, m}]]]

MCTopologies ==
  {g \in {GraphOf(cost) : cost \in [Edges -> {0} \cup Costs]} :
     \A n \in Nodes : DOMAIN g[n] # {}}

\* Graphs with two ways around, where the first way found need not be the
\* cheapest one.
Cycles ==
  LET edges == {{1, 2}, {2, 4}, {1, 3}, {3, 4}}
  IN  {[n \in Nodes |-> [m \in {k \in Nodes : {n, k} \in edges} |-> cost[{n, m}]]] :
         cost \in [edges -> Costs]}
WithCycles == MCTopologies \cup Cycles

Ascending == [i \in 1 .. Cardinality(Nodes) |-> i]
Descending == [i \in 1 .. Cardinality(Nodes) |-> Cardinality(Nodes) + 1 - i]
TwoOrders == {Ascending, Descending}
=============================================================================
