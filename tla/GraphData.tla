----------------------------- MODULE GraphData ------------------------------
(***************************************************************************)
(* Class GraphData of mp3: an undirected graph kept twice, as the set of   *)
(* neighbours of each node and as the weights of the edges, the latter     *)
(* under the smaller of the two ids only.  The operations are those that   *)
(* parseGraphData and the changes file make.                               *)
(***************************************************************************)
EXTENDS Topology

VARIABLES
  vertices,
  edges,            \* node -> set of neighbours
  edgeWeights       \* <<smaller id, larger id>> -> cost

graphVars == <<vertices, edges, edgeWeights>>

Key(a, b) == IF a < b THEN <<a, b>> ELSE <<b, a>>

GetNeighbors(a) == IF a \in DOMAIN edges THEN edges[a] ELSE {}

GetEdgeWeight(a, b) ==
  IF a = b THEN 0
  ELSE IF Key(a, b) \in DOMAIN edgeWeights THEN edgeWeights[Key(a, b)]
  ELSE -1

GraphInit ==
  /\ vertices = {}
  /\ edges = [n \in {} |-> {}]
  /\ edgeWeights = [k \in {} |-> 0]

\* Both insertions leave an edge alone that is there: it keeps its weight.
InsertEdge(a, b, cost) ==
  /\ vertices' = vertices \cup {a, b}
  /\ edges' = [n \in DOMAIN edges \cup {a, b} |->
                 GetNeighbors(n) \cup {m \in {a, b} : n \in {a, b} \ {m}}]
  /\ edgeWeights' =
       [k \in DOMAIN edgeWeights \cup {Key(a, b)} |->
          IF k \in DOMAIN edgeWeights THEN edgeWeights[k] ELSE cost]

UpdateEdge(a, b, cost) ==
  /\ edgeWeights' = IF GetEdgeWeight(a, b) = -1 THEN edgeWeights
                    ELSE [edgeWeights EXCEPT ![Key(a, b)] = cost]
  /\ UNCHANGED <<vertices, edges>>

\* Mutant: only one of the two neighbours forgets the edge.
WithoutEdge_OneSide(a, b) == [edges EXCEPT ![a] = @ \ {b}]

WithoutEdge(a, b) == [edges EXCEPT ![a] = @ \ {b}, ![b] = @ \ {a}]

DeleteEdge(a, b) ==
  IF GetEdgeWeight(a, b) = -1
  THEN UNCHANGED graphVars
  ELSE /\ edges' = WithoutEdge(a, b)
       /\ edgeWeights' = [k \in DOMAIN edgeWeights \ {Key(a, b)} |-> edgeWeights[k]]
       /\ UNCHANGED vertices

\* A line of the changes file.
ChangeEdge(a, b, cost) ==
  IF cost = NoLink THEN DeleteEdge(a, b)
  ELSE IF GetEdgeWeight(a, b) # -1 THEN UpdateEdge(a, b, cost)
  ELSE InsertEdge(a, b, cost)

GraphNext ==
  \E a, b \in Nodes : a # b /\
    \/ \E cost \in Costs : InsertEdge(a, b, cost) \/ UpdateEdge(a, b, cost)
    \/ DeleteEdge(a, b)

GraphSpec == GraphInit /\ [][GraphNext]_graphVars
-----------------------------------------------------------------------------
GraphTypeOK ==
  /\ vertices \subseteq Nodes
  /\ edges \in [vertices -> SUBSET vertices]
  /\ DOMAIN edgeWeights \subseteq vertices \X vertices
  /\ edgeWeights \in [DOMAIN edgeWeights -> Costs]

\* The two copies agree after any insertions, updates and deletions: two nodes
\* are neighbours of each other exactly when their edge has a weight.
EdgesMatchWeights ==
  \A a, b \in vertices :
    b \in GetNeighbors(a) <=> (a # b /\ GetEdgeWeight(a, b) # -1)
=============================================================================
