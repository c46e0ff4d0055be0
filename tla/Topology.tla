------------------------------ MODULE Topology ------------------------------
(***************************************************************************)
(* The weighted graphs that the two routing programs of mp3 read from a    *)
(* topology file and that the changes file modifies line by line.  A graph *)
(* is, for each node, the map from its neighbours to the costs of the      *)
(* links, as Node::costToNeighbors_ and GraphData::weightMap hold it.      *)
(***************************************************************************)
EXTENDS Integers, Sequences, FiniteSets

CONSTANTS
  Nodes,            \* the ids of the nodes, without a gap
  Costs,            \* the costs of links; files have positive costs
  INFINI,           \* the cost of what cannot be reached; 19997997 in distvec
  Topologies,       \* the graphs a topology file may describe
  MaxChanges        \* bound: length of the changes file

NoLink == -999      \* the cost that stands for "no direct link" in a file

IsGraph(links) ==
  /\ links \in [Nodes -> UNION {[S -> Costs] : S \in SUBSET Nodes}]
  /\ \A n \in Nodes : n \notin DOMAIN links[n]
  /\ \A n \in Nodes : \A m \in DOMAIN links[n] :
       n \in DOMAIN links[m] /\ links[m][n] = links[n][m]

ASSUME TopologyAssumption ==
  /\ Nodes \subseteq Nat /\ Nodes # {} /\ IsFiniteSet(Nodes)
  /\ Costs \subseteq Nat \ {0}
  /\ INFINI \in Nat \ {0}
  /\ \A links \in Topologies : IsGraph(links)
  /\ MaxChanges \in Nat

\* One side of a link that is set or, with cost NoLink, deleted.
WithNeighbor(map, m, cost) ==
  [k \in IF cost = NoLink THEN DOMAIN map \ {m} ELSE DOMAIN map \cup {m} |->
     IF k = m THEN cost ELSE map[k]]

WithLink(links, a, b, cost) ==
  [links EXCEPT ![a] = WithNeighbor(@, b, cost), ![b] = WithNeighbor(@, a, cost)]

-----------------------------------------------------------------------------
(* The reference: the cost of the cheapest path, by looking at all paths.  *)

IsPath(links, p) ==
  /\ \A i, j \in 1 .. Len(p) : p[i] = p[j] => i = j
  /\ \A i \in 1 .. Len(p) - 1 : p[i + 1] \in DOMAIN links[p[i]]

Paths(links) ==
  {p \in UNION {[1 .. k -> Nodes] : k \in 1 .. Cardinality(Nodes)} : IsPath(links, p)}

PathCost(links, p) ==
  LET upTo[i \in 1 .. Len(p)] ==
        IF i = 1 THEN 0 ELSE upTo[i - 1] + links[p[i - 1]][p[i]]
  IN  upTo[Len(p)]

ShortestCosts(links) ==
  LET paths == Paths(links)
  IN  [n \in Nodes |-> [d \in Nodes |->
         LET costs == {PathCost(links, p) :
                         p \in {q \in paths : q[1] = n /\ q[Len(q)] = d}}
         IN  CHOOSE c \in costs \cup {INFINI} : \A e \in costs \cup {INFINI} : c <= e]]
=============================================================================
