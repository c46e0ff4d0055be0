-------------------------- MODULE LinkStateProofs --------------------------
(***************************************************************************)
(* Proofs for the link-state program: the two copies of the graph agree,   *)
(* Dijkstra's algorithm finishes the nodes nearest first, and the          *)
(* distances it leaves solve the equations of routing.                     *)
(***************************************************************************)
EXTENDS LinkState, TopologyProofs

LEMMA KeyProperties ==
  ASSUME NEW a \in Nodes, NEW b \in Nodes, a # b
  PROVE  /\ Key(a, b) = Key(b, a)
         /\ Key(a, b) \in {<<a, b>>, <<b, a>>}
         /\ \A c, d \in Nodes : c # d =>
              (Key(a, b) = Key(c, d) <=> (a = c /\ b = d) \/ (a = d /\ b = c))
<1>1. Nodes \subseteq Nat
  BY TopologyAssumption
<1>2. ASSUME NEW c \in Nodes, NEW d \in Nodes, c # d
      PROVE  Key(a, b) = Key(c, d) <=> (a = c /\ b = d) \/ (a = d /\ b = c)
  BY <1>1, <1>2 DEF Key
<1> QED
  BY <1>1, <1>2 DEF Key

-----------------------------------------------------------------------------
(* Class GraphData                                                         *)

GraphOK == GraphTypeOK /\ EdgesMatchWeights

LEMMA WeightProperties ==
  ASSUME GraphOK, NEW a \in Nodes, NEW b \in Nodes, a # b
  PROVE  /\ GetEdgeWeight(a, b) = GetEdgeWeight(b, a)
         /\ b \in GetNeighbors(a) <=> Key(a, b) \in DOMAIN edgeWeights
         /\ b \in GetNeighbors(a) => /\ GetEdgeWeight(a, b) \in Costs
                                     /\ a \in vertices /\ b \in vertices
         /\ a \notin GetNeighbors(a)
<1>1. Key(a, b) = Key(b, a) /\ Key(a, b) \in {<<a, b>>, <<b, a>>}
  BY KeyProperties
<1>2. -1 \notin Costs
  BY TopologyAssumption
<1>3. Key(a, b) \in DOMAIN edgeWeights => GetEdgeWeight(a, b) \in Costs
  BY DEF GraphOK, GraphTypeOK, GetEdgeWeight
<1>4. Key(a, b) \notin DOMAIN edgeWeights => GetEdgeWeight(a, b) = -1
  BY DEF GetEdgeWeight
<1>5. GetEdgeWeight(a, b) = GetEdgeWeight(b, a)
  BY <1>1 DEF GetEdgeWeight
<1>6. Key(a, b) \in DOMAIN edgeWeights => a \in vertices /\ b \in vertices
  BY <1>1 DEF GraphOK, GraphTypeOK
<1>7. b \in GetNeighbors(a) => a \in vertices /\ b \in vertices
  BY DEF GraphOK, GraphTypeOK, GetNeighbors
<1>8. a \in vertices /\ b \in vertices =>
        (b \in GetNeighbors(a) <=> GetEdgeWeight(a, b) # -1)
  BY DEF GraphOK, EdgesMatchWeights
<1>9. a \notin GetNeighbors(a)
  BY DEF GraphOK, GraphTypeOK, EdgesMatchWeights, GetNeighbors
<1> QED
  BY <1>2, <1>3, <1>4, <1>5, <1>6, <1>7, <1>8, <1>9

\* To show that the copies agree it is enough to compare neighbours and keys.
LEMMA GraphOKPrime ==
  ASSUME GraphTypeOK',
         \A x, y \in vertices' : y \in edges'[x] <=> (x # y /\ Key(x, y) \in DOMAIN edgeWeights')
  PROVE  GraphOK'
<1>1. -1 \notin Costs
  BY TopologyAssumption
<1>2. ASSUME NEW x \in vertices', NEW y \in vertices'
      PROVE  y \in GetNeighbors(x)' <=> (x # y /\ GetEdgeWeight(x, y)' # -1)
  <2>1. GetNeighbors(x)' = edges'[x]
    BY DEF GraphTypeOK, GetNeighbors
  <2>2. x # y /\ Key(x, y) \in DOMAIN edgeWeights' => GetEdgeWeight(x, y)' \in Costs
    BY DEF GraphTypeOK, GetEdgeWeight, Key
  <2>3. x # y /\ Key(x, y) \notin DOMAIN edgeWeights' => GetEdgeWeight(x, y)' = -1
    BY DEF GetEdgeWeight, Key
  <2> QED
    BY <1>1, <2>1, <2>2, <2>3
<1> QED
  BY <1>2 DEF GraphOK, EdgesMatchWeights

LEMMA InsertEdgeOK ==
  ASSUME GraphOK, NEW a \in Nodes, NEW b \in Nodes, a # b, NEW cost \in Costs,
         InsertEdge(a, b, cost)
  PROVE  GraphOK'
<1>1. /\ vertices \subseteq Nodes /\ edges \in [vertices -> SUBSET vertices]
      /\ DOMAIN edgeWeights \subseteq vertices \X vertices
      /\ edgeWeights \in [DOMAIN edgeWeights -> Costs]
  BY DEF GraphOK, GraphTypeOK
<1>2. /\ vertices' = vertices \cup {a, b}
      /\ edges' = [n \in vertices \cup {a, b} |->
                    GetNeighbors(n) \cup {m \in {a, b} : n \in {a, b} \ {m}}]
      /\ edgeWeights' = [k \in DOMAIN edgeWeights \cup {Key(a, b)} |->
                           IF k \in DOMAIN edgeWeights THEN edgeWeights[k] ELSE cost]
  BY <1>1 DEF InsertEdge
<1>3. \A n \in vertices' : GetNeighbors(n) \subseteq vertices
  BY <1>1 DEF GetNeighbors
<1>4. GraphTypeOK'
  <2>1. edges' \in [vertices' -> SUBSET vertices']
    BY <1>2, <1>3
  <2>2. Key(a, b) \in vertices' \X vertices'
    BY <1>2, KeyProperties
  <2>3. DOMAIN edgeWeights' \subseteq vertices' \X vertices'
    BY <1>1, <1>2, <2>2
  <2>4. edgeWeights' \in [DOMAIN edgeWeights' -> Costs]
    BY <1>1, <1>2
  <2> QED
    BY <1>1, <1>2, <2>1, <2>3, <2>4 DEF GraphTypeOK
<1>5. ASSUME NEW x \in vertices', NEW y \in vertices'
      PROVE  y \in edges'[x] <=> (x # y /\ Key(x, y) \in DOMAIN edgeWeights')
  <2>1. x \in Nodes /\ y \in Nodes
    BY <1>1, <1>2
  <2>2. y \in edges'[x] <=> y \in GetNeighbors(x) \/ (x = a /\ y = b) \/ (x = b /\ y = a)
    BY <1>2
  <2>3. CASE x = y
    <3>1. y \notin GetNeighbors(x)
      BY <2>1, <2>3 DEF GraphOK, GraphTypeOK, EdgesMatchWeights, GetNeighbors
    <3> QED
      BY <2>2, <2>3, <3>1
  <2>4. CASE x # y
    <3>1. y \in GetNeighbors(x) <=> Key(x, y) \in DOMAIN edgeWeights
      BY <2>1, <2>4, WeightProperties
    <3>2. Key(a, b) = Key(x, y) <=> (a = x /\ b = y) \/ (a = y /\ b = x)
      BY <2>1, <2>4, KeyProperties
    <3> QED
      BY <1>2, <2>2, <2>4, <3>1, <3>2
  <2> QED
    BY <2>3, <2>4
<1> QED
  BY <1>4, <1>5, GraphOKPrime

LEMMA UpdateEdgeOK ==
  ASSUME GraphOK, NEW a \in Nodes, NEW b \in Nodes, a # b, NEW cost \in Costs,
         UpdateEdge(a, b, cost)
  PROVE  GraphOK'
<1>1. /\ vertices \subseteq Nodes /\ edges \in [vertices -> SUBSET vertices]
      /\ DOMAIN edgeWeights \subseteq vertices \X vertices
      /\ edgeWeights \in [DOMAIN edgeWeights -> Costs]
  BY DEF GraphOK, GraphTypeOK
<1>2. /\ vertices' = vertices /\ edges' = edges
      /\ edgeWeights' = edgeWeights \/ edgeWeights' = [edgeWeights EXCEPT ![Key(a, b)] = cost]
  BY DEF UpdateEdge
<1>3. DOMAIN edgeWeights' = DOMAIN edgeWeights /\ edgeWeights' \in [DOMAIN edgeWeights -> Costs]
  BY <1>1, <1>2
<1>4. GraphTypeOK'
  BY <1>1, <1>2, <1>3 DEF GraphTypeOK
<1>5. ASSUME NEW x \in vertices, NEW y \in vertices
      PROVE  y \in edges[x] <=> (x # y /\ Key(x, y) \in DOMAIN edgeWeights)
  <2>1. edges[x] = GetNeighbors(x) /\ x \in Nodes /\ y \in Nodes
    BY <1>1 DEF GetNeighbors
  <2>2. CASE x = y
    BY <2>1, <2>2 DEF GraphOK, EdgesMatchWeights
  <2>3. CASE x # y
    BY <2>1, <2>3, WeightProperties
  <2> QED
    BY <2>2, <2>3
<1> QED
  BY <1>2, <1>3, <1>4, <1>5, GraphOKPrime

LEMMA DeleteEdgeOK ==
  ASSUME GraphOK, NEW a \in Nodes, NEW b \in Nodes, a # b, DeleteEdge(a, b)
  PROVE  GraphOK'
<1>1. /\ vertices \subseteq Nodes /\ edges \in [vertices -> SUBSET vertices]
      /\ DOMAIN edgeWeights \subseteq vertices \X vertices
      /\ edgeWeights \in [DOMAIN edgeWeights -> Costs]
  BY DEF GraphOK, GraphTypeOK
<1>2. CASE GetEdgeWeight(a, b) = -1
  BY <1>2 DEF DeleteEdge, WithoutEdge, graphVars, GraphOK, GraphTypeOK, EdgesMatchWeights,
              GetNeighbors, GetEdgeWeight
<1>3. CASE GetEdgeWeight(a, b) # -1
  <2>1. /\ edges' = [edges EXCEPT ![a] = @ \ {b}, ![b] = @ \ {a}]
        /\ edgeWeights' = [k \in DOMAIN edgeWeights \ {Key(a, b)} |-> edgeWeights[k]]
        /\ vertices' = vertices
    BY <1>3 DEF DeleteEdge, WithoutEdge
  <2>2. a \in vertices /\ b \in vertices
    <3>1. Key(a, b) \in DOMAIN edgeWeights
      BY <1>3 DEF GetEdgeWeight
    <3> QED
      BY <3>1, WeightProperties
  <2>3. GraphTypeOK'
    <3>1. edges' \in [vertices -> SUBSET vertices]
      BY <1>1, <2>1, <2>2
    <3> QED
      BY <1>1, <2>1, <3>1 DEF GraphTypeOK
  <2>4. ASSUME NEW x \in vertices, NEW y \in vertices
        PROVE  y \in edges'[x] <=> (x # y /\ Key(x, y) \in DOMAIN edgeWeights')
    <3>1. edges[x] = GetNeighbors(x) /\ x \in Nodes /\ y \in Nodes
      BY <1>1 DEF GetNeighbors
    <3>2. y \in edges'[x] <=>
            y \in edges[x] /\ ~ ((x = a /\ y = b) \/ (x = b /\ y = a))
      BY <1>1, <2>1, <2>2
    <3>3. CASE x = y
      BY <3>1, <3>2, <3>3 DEF GraphOK, EdgesMatchWeights
    <3>4. CASE x # y
      <4>1. y \in GetNeighbors(x) <=> Key(x, y) \in DOMAIN edgeWeights
        BY <3>1, <3>4, WeightProperties
      <4>2. Key(a, b) = Key(x, y) <=> (a = x /\ b = y) \/ (a = y /\ b = x)
        BY <3>1, <3>4, KeyProperties
      <4> QED
        BY <2>1, <3>1, <3>2, <3>4, <4>1, <4>2
    <3> QED
      BY <3>3, <3>4
  <2> QED
    BY <2>1, <2>3, <2>4, GraphOKPrime
<1> QED
  BY <1>2, <1>3

\* The set of neighbours and the map of weights agree whatever edges are
\* inserted, updated and deleted.
THEOREM GraphConsistent == GraphSpec => [](GraphTypeOK /\ EdgesMatchWeights)
<1>1. GraphInit => GraphOK
  BY DEF GraphInit, GraphOK, GraphTypeOK, EdgesMatchWeights
<1>2. GraphOK /\ [GraphNext]_graphVars => GraphOK'
  <2> SUFFICES ASSUME GraphOK, [GraphNext]_graphVars PROVE GraphOK'
    OBVIOUS
  <2>1. CASE GraphNext
    BY <2>1, InsertEdgeOK, UpdateEdgeOK, DeleteEdgeOK DEF GraphNext
  <2>2. CASE UNCHANGED graphVars
    BY <2>2 DEF graphVars, GraphOK, GraphTypeOK, EdgesMatchWeights, GetNeighbors,
                GetEdgeWeight
  <2> QED
    BY <2>1, <2>2
<1> QED
  BY <1>1, <1>2, PTL DEF GraphSpec, GraphOK

-----------------------------------------------------------------------------
(* Dijkstra's algorithm, on a graph that does not change                   *)

\* The cost that no link exceeds and of which there may be one per node.
MaxCost == CHOOSE C \in Nat : (\A c \in Costs : c <= C) /\ Cardinality(Nodes) * C <= INFINI

LEMMA MaxCostProperties ==
  /\ MaxCost \in Nat /\ \A c \in Costs : c <= MaxCost
  /\ Cardinality(Nodes) \in Nat /\ Cardinality(Nodes) * MaxCost <= INFINI
<1> DEFINE S == {C \in Nat : \A c \in Costs : c <= C}
<1>1. Costs \subseteq Nat /\ INFINI \in Nat /\ IsFiniteSet(Nodes)
  BY TopologyAssumption
<1>2. Cardinality(Nodes) \in Nat
  BY <1>1, FS_CardinalityType
<1>3. INFINI \in S /\ S \subseteq Nat
  BY <1>1, LinkStateAssumption
<1>4. PICK C \in S : \A m \in S : C <= m
  <2> HIDE DEF S
  <2> QED
    BY <1>3, LeastElement
<1>5. Cardinality(Nodes) * C <= INFINI
  <2>1. CASE C = 0
    <3>1. Cardinality(Nodes) * 0 = 0
      BY <1>2
    <3> QED
      BY <1>1, <2>1, <3>1
  <2>2. CASE C # 0
    <3>1. C - 1 \in Nat /\ C - 1 \notin S
      BY <1>4, <2>2
    <3>2. PICK c \in Costs : ~ (c <= C - 1)
      BY <3>1
    <3>3. c = C
      BY <1>1, <1>4, <3>1, <3>2
    <3> QED
      BY <3>3, LinkStateAssumption
  <2> QED
    BY <2>1, <2>2
<1>6. \E D \in Nat : (\A c \in Costs : c <= D) /\ Cardinality(Nodes) * D <= INFINI
  BY <1>4, <1>5
<1> QED
  BY <1>2, <1>6 DEF MaxCost

\* The next multiple of MaxCost is what one more link can cost at most.
LEMMA OneMoreLink ==
  ASSUME NEW F, F \subseteq Nodes, NEW t \in Nodes \ F
  PROVE  /\ Cardinality(F) \in Nat
         /\ Cardinality(F \cup {t}) * MaxCost = Cardinality(F) * MaxCost + MaxCost
         /\ Cardinality(F \cup {t}) * MaxCost <= INFINI
         /\ Cardinality(F) * MaxCost \in Nat
<1> DEFINE k == Cardinality(F)
           j == Cardinality(F \cup {t})
           n == Cardinality(Nodes)
<1>1. IsFiniteSet(Nodes) /\ INFINI \in Nat
  BY TopologyAssumption
<1>2. IsFiniteSet(F) /\ F \cup {t} \subseteq Nodes
  BY <1>1, FS_Subset
<1>3. k \in Nat /\ j = k + 1
  BY <1>2, FS_CardinalityType, FS_AddElement
<1>4. j <= n
  BY <1>1, <1>2, FS_Subset
<1>5. MaxCost \in Nat /\ n \in Nat /\ n * MaxCost <= INFINI
  BY MaxCostProperties
<1> HIDE DEF k, j, n
<1>6. j * MaxCost = k * MaxCost + MaxCost /\ k * MaxCost \in Nat
  BY <1>3, <1>5
<1>7. j * MaxCost <= n * MaxCost
  <2>1. n - j \in Nat
    BY <1>3, <1>4, <1>5
  <2>2. (n - j) * MaxCost \in Nat /\ n * MaxCost = j * MaxCost + (n - j) * MaxCost
    BY <1>3, <1>5, <2>1
  <2> QED
    BY <1>3, <1>5, <1>6, <2>2
<1>8. j * MaxCost <= INFINI
  BY <1>1, <1>3, <1>5, <1>6, <1>7
<1> QED
  BY <1>3, <1>6, <1>8 DEF k, j

\* A distance is that of a path with at most as many links as there are finished
\* nodes.
PathLong(F, D) == \A v \in Nodes : D[v] = INFINI \/ D[v] <= Cardinality(F) * MaxCost

\* The distances D from s are the cheapest ways through the finished nodes F.
Nearer(g, s, F, D) ==
  /\ F \subseteq Nodes /\ s \in F
  /\ D \in [Nodes -> 0 .. INFINI] /\ D[s] = 0
  /\ \A u \in F, v \in Nodes \ F : D[u] <= D[v]
  /\ \A u \in F : \A v \in DOMAIN g[u] : D[v] <= D[u] + g[u][v]
  /\ \A v \in Nodes \ {s} :
       D[v] = INFINI \/ \E u \in F \cap DOMAIN g[v] : D[v] = D[u] + g[v][u]
  /\ PathLong(F, D)

LEMMA NearerStart ==
  ASSUME NEW g, IsGraph(g), NEW s \in Nodes
  PROVE  Nearer(g, s, {s}, [v \in Nodes |-> IF v = s THEN 0
                                            ELSE IF v \in DOMAIN g[s] THEN g[s][v]
                                            ELSE INFINI])
<1> DEFINE D == [v \in Nodes |-> IF v = s THEN 0 ELSE IF v \in DOMAIN g[s] THEN g[s][v]
                                 ELSE INFINI]
<1>1. INFINI \in Nat
  BY TopologyAssumption
<1>2. \A v \in DOMAIN g[s] :
        /\ v \in Nodes /\ v # s /\ g[s][v] \in Nat /\ g[s][v] <= INFINI
        /\ s \in DOMAIN g[v] /\ g[v][s] = g[s][v]
  <2>1. \A v \in DOMAIN g[s] : g[s][v] \in Costs
    BY NeighborMap
  <2> QED
    BY <1>1, <2>1, GraphProperties, LinkStateAssumption
<1>3. D \in [Nodes -> 0 .. INFINI] /\ D[s] = 0
  BY <1>1, <1>2
<1>4. ASSUME NEW v \in Nodes \ {s}
      PROVE  /\ D[s] <= D[v]
             /\ D[v] = INFINI \/ (s \in DOMAIN g[v] /\ D[v] = D[s] + g[v][s])
  BY <1>1, <1>2
<1>5. \A v \in DOMAIN g[s] : D[v] <= D[s] + g[s][v]
  BY <1>2, <1>3
<1>7. PathLong({s}, D)
  <2>1. \A v \in DOMAIN g[s] : g[s][v] <= MaxCost
    BY NeighborMap, MaxCostProperties
  <2>2. Cardinality({s}) = 1 /\ MaxCost \in Nat
    BY FS_Singleton, MaxCostProperties
  <2>3. Cardinality({s}) * MaxCost = MaxCost
    BY <2>2
  <2>4. ASSUME NEW v \in Nodes PROVE D[v] = INFINI \/ D[v] <= MaxCost
    BY <2>1, <2>2
  <2> HIDE DEF D
  <2> QED
    BY <2>3, <2>4 DEF PathLong
<1> HIDE DEF D
<1>6. Nearer(g, s, {s}, D)
  BY <1>3, <1>4, <1>5, <1>7 DEF Nearer
<1> QED
  BY <1>6 DEF D

\* One pass of the loop: t is an open node that is nearest, and the distances
\* of its neighbours become what it offers if that is less.
LEMMA NearerStep ==
  ASSUME NEW g, IsGraph(g), NEW s \in Nodes, NEW F, NEW D, Nearer(g, s, F, D),
         NEW t \in Nodes \ F, \A u \in Nodes \ F : D[t] <= D[u],
         NEW E \in [Nodes -> 0 .. INFINI],
         \A v \in Nodes : E[v] = IF v \in DOMAIN g[t] /\ D[t] + g[t][v] < D[v]
                                 THEN D[t] + g[t][v] ELSE D[v]
  PROVE  Nearer(g, s, F \cup {t}, E)
<1>1. /\ F \subseteq Nodes /\ s \in F
      /\ D \in [Nodes -> 0 .. INFINI] /\ D[s] = 0
      /\ \A u \in F, v \in Nodes \ F : D[u] <= D[v]
      /\ \A u \in F : \A v \in DOMAIN g[u] : D[v] <= D[u] + g[u][v]
      /\ \A v \in Nodes \ {s} :
           D[v] = INFINI \/ \E u \in F \cap DOMAIN g[v] : D[v] = D[u] + g[v][u]
  BY DEF Nearer
<1>2. \A v \in Nodes : /\ D[v] \in Nat /\ D[v] <= INFINI
                       /\ E[v] \in Nat /\ E[v] <= INFINI
  BY <1>1, TopologyAssumption
<1>3. \A u \in Nodes : \A v \in DOMAIN g[u] :
        /\ v \in Nodes /\ v # u /\ g[u][v] \in Nat /\ g[u][v] >= 1
        /\ u \in DOMAIN g[v] /\ g[v][u] = g[u][v]
  BY GraphProperties
<1>4. \A u \in F : E[u] = D[u]
  <2>1. ASSUME NEW u \in F, u \in DOMAIN g[t] PROVE ~ (D[t] + g[t][u] < D[u])
    <3>1. D[u] <= D[t] /\ g[t][u] \in Nat
      BY <1>1, <1>3, <2>1
    <3> QED
      BY <1>1, <1>2, <3>1
  <2> QED
    BY <1>1, <2>1
<1>5. E[t] = D[t]
  BY <1>3
<1>6. \A v \in Nodes : E[v] <= D[v]
  BY <1>2, <1>3
<1>7. ASSUME NEW u \in F \cup {t}, NEW v \in Nodes \ (F \cup {t}) PROVE E[u] <= E[v]
  <2>1. E[u] = D[u] /\ D[u] <= D[t] /\ D[t] <= D[v]
    BY <1>1, <1>2, <1>4, <1>5
  <2>2. CASE E[v] = D[v]
    BY <1>1, <1>2, <2>1, <2>2
  <2>3. CASE v \in DOMAIN g[t] /\ E[v] = D[t] + g[t][v]
    <3>1. g[t][v] \in Nat
      BY <1>3, <2>3
    <3> QED
      BY <1>1, <1>2, <2>1, <2>3, <3>1
  <2> QED
    BY <2>2, <2>3
<1>8. ASSUME NEW u \in F \cup {t}, NEW v \in DOMAIN g[u] PROVE E[v] <= E[u] + g[u][v]
  <2>1. u \in Nodes /\ v \in Nodes /\ g[u][v] \in Nat
    BY <1>1, <1>3
  <2>2. CASE u \in F
    <3>1. D[v] <= D[u] + g[u][v] /\ E[u] = D[u] /\ E[v] <= D[v]
      BY <1>1, <1>4, <1>6, <2>1, <2>2
    <3> QED
      BY <1>2, <2>1, <3>1
  <2>3. CASE u = t
    BY <1>2, <1>5, <2>1, <2>3
  <2> QED
    BY <2>2, <2>3
<1>9. ASSUME NEW v \in Nodes \ {s}
      PROVE  E[v] = INFINI
             \/ \E u \in (F \cup {t}) \cap DOMAIN g[v] : E[v] = E[u] + g[v][u]
  <2>1. CASE v \in DOMAIN g[t] /\ E[v] = D[t] + g[t][v]
    <3>1. t \in DOMAIN g[v] /\ g[v][t] = g[t][v]
      BY <1>3, <2>1
    <3> QED
      BY <1>5, <2>1, <3>1
  <2>2. CASE E[v] = D[v]
    BY <1>1, <1>4, <2>2
  <2> QED
    BY <2>1, <2>2
<1>10. E[s] = 0
  BY <1>1, <1>4
<1>11. PathLong(F \cup {t}, E)
  <2> DEFINE bound == Cardinality(F) * MaxCost
  <2>1. /\ Cardinality(F \cup {t}) * MaxCost = bound + MaxCost
        /\ bound + MaxCost <= INFINI /\ bound \in Nat /\ MaxCost \in Nat
    BY <1>1, OneMoreLink, MaxCostProperties
  <2>2. \A v \in Nodes : D[v] = INFINI \/ D[v] <= bound
    BY DEF Nearer, PathLong
  <2> HIDE DEF bound
  <2>3. ASSUME NEW v \in Nodes PROVE E[v] = INFINI \/ E[v] <= bound + MaxCost
    <3>1. CASE E[v] = D[v]
      BY <1>2, <2>1, <2>2, <3>1
    <3>2. CASE v \in DOMAIN g[t] /\ E[v] = D[t] + g[t][v]
      <4>1. g[t][v] <= MaxCost /\ g[t][v] \in Nat
        BY <1>3, <3>2, NeighborMap, MaxCostProperties
      <4>2. CASE D[t] <= bound
        BY <1>2, <2>1, <3>2, <4>1, <4>2
      <4>3. CASE D[t] = INFINI
        BY <1>2, <1>3, <3>2, <4>1, <4>3
      <4> QED
        BY <2>2, <4>2, <4>3
    <3> QED
      BY <3>1, <3>2
  <2> QED
    BY <2>1, <2>3 DEF PathLong
<1> QED
  BY <1>1, <1>7, <1>8, <1>9, <1>10, <1>11 DEF Nearer

\* When all nodes are finished the distances to s solve the equations of routing.
ToNode(g, s, D) ==
  /\ D \in [Nodes -> 0 .. INFINI] /\ D[s] = 0
  /\ \A v \in Nodes \ {s} :
       /\ \A u \in DOMAIN g[v] : D[v] <= g[v][u] + D[u]
       /\ D[v] = INFINI \/ \E u \in DOMAIN g[v] : D[v] = g[v][u] + D[u]

LEMMA NearerEnd ==
  ASSUME NEW g, IsGraph(g), NEW s \in Nodes, NEW D, Nearer(g, s, Nodes, D)
  PROVE  ToNode(g, s, D)
<1>1. \A u \in Nodes : \A v \in DOMAIN g[u] :
        /\ v \in Nodes /\ g[u][v] \in Nat
        /\ u \in DOMAIN g[v] /\ g[v][u] = g[u][v]
  BY GraphProperties
<1>2. \A v \in Nodes : D[v] \in Nat
  BY TopologyAssumption DEF Nearer
<1>3. ASSUME NEW v \in Nodes, NEW u \in DOMAIN g[v]
      PROVE  D[v] <= g[v][u] + D[u] /\ g[v][u] + D[u] = D[u] + g[v][u]
  <2>1. D[v] <= D[u] + g[u][v]
    BY <1>1 DEF Nearer
  <2> QED
    BY <1>1, <1>2, <2>1
<1> QED
  BY <1>3 DEF Nearer, ToNode

-----------------------------------------------------------------------------
(* The inductive invariant of the program                                  *)

LEMMA SetMinProperties ==
  ASSUME NEW S, S \subseteq Nat, S # {}
  PROVE  SetMin(S) \in S /\ \A y \in S : SetMin(S) <= y
BY LeastElement DEF SetMin

LEMMA WithProperties ==
  ASSUME NEW f, NEW x, NEW y
  PROVE  /\ DOMAIN With(f, x, y) = DOMAIN f \cup {x}
         /\ With(f, x, y)[x] = y
         /\ \A z \in DOMAIN f \ {x} : With(f, x, y)[z] = f[z]
BY DEF With

LEMMA LinksProperties ==
  ASSUME GraphOK, vertices = Nodes
  PROVE  /\ IsGraph(Links)
         /\ \A n \in Nodes : /\ DOMAIN Links[n] = GetNeighbors(n)
                             /\ \A m \in GetNeighbors(n) : Links[n][m] = GetEdgeWeight(n, m)
<1>1. \A n \in Nodes : GetNeighbors(n) \subseteq Nodes
  BY DEF GraphOK, GraphTypeOK, GetNeighbors
<1>2. ASSUME NEW n \in Nodes, NEW m \in GetNeighbors(n)
      PROVE  /\ m # n /\ n \in GetNeighbors(m) /\ GetEdgeWeight(n, m) \in Costs
             /\ GetEdgeWeight(m, n) = GetEdgeWeight(n, m)
  <2>1. m \in Nodes /\ m # n
    BY <1>1 DEF GraphOK, GraphTypeOK, EdgesMatchWeights
  <2>2. Key(n, m) = Key(m, n)
    BY <2>1, KeyProperties
  <2> QED
    BY <2>1, <2>2, WeightProperties
<1>3. /\ Links = [n \in Nodes |-> Links[n]]
      /\ \A n \in Nodes : Links[n] = [m \in GetNeighbors(n) |-> GetEdgeWeight(n, m)]
  BY DEF Links
<1>4. \A n \in Nodes : Links[n] \in [GetNeighbors(n) -> Costs]
  BY <1>2, <1>3
<1>5. \A n \in Nodes : /\ DOMAIN Links[n] = GetNeighbors(n)
                       /\ \A m \in GetNeighbors(n) : Links[n][m] = GetEdgeWeight(n, m)
  BY <1>3
<1>6. Links \in [Nodes -> UNION {[S -> Costs] : S \in SUBSET Nodes}]
  BY <1>1, <1>3, <1>4
<1>7. IsGraph(Links)
  BY <1>1, <1>2, <1>5, <1>6 DEF IsGraph
<1> QED
  BY <1>5, <1>7

\* preds is defined for the nodes reached, and leads from one to another.
PredsOK ==
  /\ source \in DOMAIN preds
  /\ preds \in [DOMAIN preds -> DOMAIN preds]
  /\ \A v \in Nodes : dists[v] < INFINI => v \in DOMAIN preds

Running ==
  /\ pc \in {"dijkstra", "table"} => Nearer(Links, source, finishedNodes, dists)
  /\ pc = "table" =>
       /\ finishedNodes = Nodes
       /\ walk \in [dest : DOMAIN preds, at : DOMAIN preds]

\* The sources are taken in ascending order.
SourcesInTurn ==
  /\ pc = "dijkstra" => DOMAIN dijkstraMap = {n \in Nodes : n < source}
  /\ pc = "table" => DOMAIN dijkstraMap = {n \in Nodes : n <= source}
  /\ pc \in {"messages", "route", "change", "done"} => DOMAIN dijkstraMap = Nodes
  /\ pc = "restart" => DOMAIN dijkstraMap = {}

ResultsSolve == \A n \in DOMAIN dijkstraMap : ToNode(Links, n, dijkstraMap[n].dists)

Inv == /\ LinkStateTypeOK /\ GraphOK /\ PredsOK
       /\ Running /\ SourcesInTurn /\ ResultsSolve

\* The start of dijkstra() from s, in the initial state and in a step.
LEMMA StartFrom ==
  ASSUME GraphOK, vertices = Nodes, NEW s \in Nodes,
         NEW D, D = [v \in vertices |-> IF v = s THEN 0
                                        ELSE IF v \in GetNeighbors(s) THEN GetEdgeWeight(s, v)
                                        ELSE INFINI],
         NEW P, P = [v \in {s} \cup GetNeighbors(s) |-> s]
  PROVE  /\ Nearer(Links, s, {s}, D)
         /\ s \in DOMAIN P /\ P \in [DOMAIN P -> DOMAIN P] /\ DOMAIN P \subseteq Nodes
         /\ \A v \in Nodes : D[v] < INFINI => v \in DOMAIN P
<1>1. IsGraph(Links) /\ DOMAIN Links[s] = GetNeighbors(s)
      /\ \A m \in GetNeighbors(s) : Links[s][m] = GetEdgeWeight(s, m)
  BY LinksProperties
<1>2. D = [v \in Nodes |-> IF v = s THEN 0 ELSE IF v \in DOMAIN Links[s] THEN Links[s][v]
                           ELSE INFINI]
  BY <1>1
<1>3. Nearer(Links, s, {s}, D)
  BY <1>1, <1>2, NearerStart
<1>4. GetNeighbors(s) \subseteq Nodes
  BY DEF GraphOK, GraphTypeOK, GetNeighbors
<1>5. \A v \in Nodes : D[v] < INFINI => v \in {s} \cup GetNeighbors(s)
  BY TopologyAssumption
<1> QED
  BY <1>3, <1>4, <1>5

LEMMA FirstSource ==
  /\ SetMin(Nodes) \in Nodes
  /\ {n \in Nodes : n < SetMin(Nodes)} = {}
<1>1. Nodes \subseteq Nat /\ Nodes # {}
  BY TopologyAssumption
<1> DEFINE first == SetMin(Nodes)
<1>2. first \in Nodes /\ \A n \in Nodes : first <= n
  BY <1>1, SetMinProperties
<1> HIDE DEF first
<1>3. \A n \in Nodes : ~ (n < first)
  BY <1>1, <1>2
<1> QED
  BY <1>2, <1>3 DEF first

LEMMA InitInv == Init => Inv
<1> SUFFICES ASSUME Init PROVE Inv
  OBVIOUS
<1>1. PICK g \in Topologies :
        /\ vertices = Nodes
        /\ edges = [n \in Nodes |-> DOMAIN g[n]]
        /\ edgeWeights =
             [k \in {e \in Nodes \X Nodes : e[1] < e[2] /\ e[2] \in DOMAIN g[e[1]]} |->
                g[k[1]][k[2]]]
  BY DEF Init
<1>2. IsGraph(g)
  BY TopologyAssumption
<1> DEFINE keys == {e \in Nodes \X Nodes : e[1] < e[2] /\ e[2] \in DOMAIN g[e[1]]}
<1>3. GraphOK
  <2>1. \A n \in Nodes : /\ DOMAIN g[n] \subseteq Nodes
                         /\ \A m \in DOMAIN g[n] : /\ g[n][m] \in Costs /\ m # n
                                                   /\ n \in DOMAIN g[m] /\ g[m][n] = g[n][m]
    BY <1>2, NeighborMap, GraphProperties
  <2>2. edges \in [Nodes -> SUBSET Nodes]
    BY <1>1, <2>1
  <2>3. DOMAIN edgeWeights = keys /\ keys \subseteq Nodes \X Nodes
    BY <1>1
  <2>4. edgeWeights \in [keys -> Costs]
    <3>1. \A k \in keys : g[k[1]][k[2]] \in Costs
      BY <2>1
    <3> QED
      BY <1>1, <3>1
  <2>5. GraphTypeOK
    BY <1>1, <2>2, <2>3, <2>4 DEF GraphTypeOK
  <2>6. ASSUME NEW x \in Nodes, NEW y \in Nodes
        PROVE  y \in edges[x] <=> (x # y /\ Key(x, y) \in keys)
    <3>1. Nodes \subseteq Nat
      BY TopologyAssumption
    <3>2. edges[x] = DOMAIN g[x] /\ x \notin DOMAIN g[x]
          /\ (y \in DOMAIN g[x] <=> x \in DOMAIN g[y])
      BY <1>1, <2>1
    <3>3. CASE x < y
      <4>1. Key(x, y) = <<x, y>>
        BY <3>3 DEF Key
      <4> QED
        BY <3>1, <3>2, <3>3, <4>1
    <3>4. CASE y < x
      <4>1. Key(x, y) = <<y, x>>
        BY <3>1, <3>4 DEF Key
      <4> QED
        BY <3>1, <3>2, <3>4, <4>1
    <3>5. CASE x = y
      BY <3>2, <3>5
    <3> QED
      BY <3>1, <3>3, <3>4, <3>5
  <2>7. -1 \notin Costs
    BY TopologyAssumption
  <2>8. EdgesMatchWeights
    <3> HIDE DEF keys
    <3>1. ASSUME NEW x \in Nodes, NEW y \in Nodes
          PROVE  y \in GetNeighbors(x) <=> (x # y /\ GetEdgeWeight(x, y) # -1)
      <4>1. GetNeighbors(x) = edges[x]
        BY <2>2 DEF GetNeighbors
      <4>2. x # y /\ Key(x, y) \in keys => GetEdgeWeight(x, y) \in Costs
        BY <2>3, <2>4 DEF GetEdgeWeight
      <4>3. x # y /\ Key(x, y) \notin keys => GetEdgeWeight(x, y) = -1
        BY <2>3 DEF GetEdgeWeight
      <4> QED
        BY <2>6, <2>7, <4>1, <4>2, <4>3
    <3> QED
      BY <1>1, <3>1 DEF EdgesMatchWeights
  <2> QED
    BY <2>5, <2>8 DEF GraphOK
<1>4. /\ source \in Nodes /\ {n \in Nodes : n < source} = {}
      /\ Nearer(Links, source, {source}, dists)
      /\ source \in DOMAIN preds /\ preds \in [DOMAIN preds -> DOMAIN preds]
      /\ DOMAIN preds \subseteq Nodes
      /\ \A v \in Nodes : dists[v] < INFINI => v \in DOMAIN preds
  <2>1. source = SetMin(Nodes)
    BY DEF Init
  <2>2. source \in Nodes /\ {n \in Nodes : n < source} = {}
    BY <2>1, FirstSource
  <2>3. /\ dists = [v \in vertices |-> IF v = source THEN 0
                             ELSE IF v \in GetNeighbors(source) THEN GetEdgeWeight(source, v)
                             ELSE INFINI]
        /\ preds = [v \in {source} \cup GetNeighbors(source) |-> source]
    BY <1>1 DEF Init
  <2> QED
    BY <1>1, <1>3, <2>2, <2>3, StartFrom
<1>5. LinkStateTypeOK
  BY <1>1, <1>3, <1>4, TopologyAssumption
     DEF Init, LinkStateTypeOK, GraphOK, Nearer, Distances, NoResults
<1>6. PredsOK /\ Running /\ SourcesInTurn /\ ResultsSolve
  BY <1>4 DEF Init, PredsOK, Running, SourcesInTurn, ResultsSolve, NoResults
<1> QED
  BY <1>3, <1>5, <1>6 DEF Inv

LEMMA NearestProperties ==
  ASSUME vertices = Nodes, finishedNodes # Nodes, finishedNodes \subseteq Nodes,
         dists \in [Nodes -> 0 .. INFINI]
  PROVE  /\ Nearest \in Nodes \ finishedNodes
         /\ \A u \in Nodes \ finishedNodes : dists[Nearest] <= dists[u]
<1> DEFINE open == Nodes \ finishedNodes
           best == {v \in open : \A u \in open : dists[v] <= dists[u]}
           lens == {dists[v] : v \in open}
<1>1. lens \subseteq Nat /\ lens # {}
  BY TopologyAssumption
<1>2. PICK l \in lens : \A k \in lens : l <= k
  BY <1>1, LeastElement
<1>3. PICK v \in open : l = dists[v]
  BY <1>2
<1>4. v \in best
  BY <1>2, <1>3
<1>5. best \subseteq Nat /\ best # {}
  BY <1>4, TopologyAssumption
<1>6. Nearest = SetMin(best)
  BY DEF Nearest
<1> HIDE DEF best
<1>7. Nearest \in best
  BY <1>5, <1>6, SetMinProperties
<1> QED
  BY <1>7 DEF best

\* A pass of dijkstra() finishes a nearest node, and the distances of its
\* neighbours become what it offers if that is less; Closer has those for which
\* it is not more, so that the predecessor may change although the distance
\* does not.
LEMMA FinishNodeStep ==
  ASSUME Inv, FinishNode, NEW g, g = Links, NEW s, s = Nearest
  PROVE  /\ vertices = Nodes /\ GraphOK /\ pc = "dijkstra" /\ finishedNodes \subseteq Nodes
         /\ dists \in [Nodes -> 0 .. INFINI]
         /\ Nearer(g, source, finishedNodes, dists) /\ source \in Nodes
         /\ s \in Nodes \ finishedNodes
         /\ \A u \in Nodes \ finishedNodes : dists[s] <= dists[u]
         /\ IsGraph(g) /\ DOMAIN g[s] = GetNeighbors(s)
         /\ finishedNodes' = finishedNodes \cup {s}
         /\ preds' = [v \in DOMAIN preds \cup Closer(s) |->
                        IF v \in Closer(s) THEN s ELSE preds[v]]
         /\ UNCHANGED <<graphVars, source, dijkstraMap, table, walk, changesLeft, pc>>
         /\ dists' \in [Nodes -> 0 .. INFINI]
         /\ \A v \in Nodes : dists'[v] = IF v \in DOMAIN g[s] /\ dists[s] + g[s][v] < dists[v]
                                         THEN dists[s] + g[s][v] ELSE dists[v]
         /\ \A v \in Nodes : v \in Closer(s) <=>
              /\ v \in DOMAIN g[s]
              /\ dists[s] + g[s][v] <= dists[v] /\ dists[s] + g[s][v] < INFINI
              /\ ~ (v \in DOMAIN preds /\ preds[v] <= s /\ dists[s] + g[s][v] = dists[v])
         /\ Closer(s) \subseteq Nodes
<1>1. /\ vertices = Nodes /\ GraphOK /\ pc = "dijkstra" /\ finishedNodes # Nodes
      /\ finishedNodes \subseteq Nodes /\ dists \in [Nodes -> 0 .. INFINI]
      /\ Nearer(g, source, finishedNodes, dists) /\ source \in Nodes
  BY DEF Inv, LinkStateTypeOK, Distances, FinishNode, Running
<1>2. /\ finishedNodes' = finishedNodes \cup {s}
      /\ dists' = [v \in Nodes |-> IF v \in Closer(s) THEN NewDist(s, v) ELSE dists[v]]
      /\ preds' = [v \in DOMAIN preds \cup Closer(s) |->
                     IF v \in Closer(s) THEN s ELSE preds[v]]
      /\ UNCHANGED <<graphVars, source, dijkstraMap, table, walk, changesLeft, pc>>
  BY <1>1 DEF FinishNode
<1>3. s \in Nodes \ finishedNodes /\ \A u \in Nodes \ finishedNodes : dists[s] <= dists[u]
  BY <1>1, NearestProperties
<1>4. /\ IsGraph(g) /\ DOMAIN g[s] = GetNeighbors(s)
      /\ \A m \in GetNeighbors(s) :
           /\ g[s][m] = GetEdgeWeight(s, m) /\ m \in Nodes
           /\ g[s][m] \in Nat /\ g[s][m] >= 1
  BY <1>1, <1>3, LinksProperties, GraphProperties
<1>5. INFINI \in Nat /\ \A v \in Nodes : dists[v] \in Nat /\ dists[v] <= INFINI
  BY <1>1, TopologyAssumption
<1>11. ASSUME NEW v \in GetNeighbors(s), dists[s] # INFINI
       PROVE  NewDist(s, v) = dists[s] + g[s][v]
  <2> DEFINE bound == Cardinality(finishedNodes) * MaxCost
  <2>1. bound + MaxCost <= INFINI /\ bound \in Nat /\ MaxCost \in Nat
    BY <1>1, <1>3, OneMoreLink, MaxCostProperties
  <2>2. dists[s] <= bound
    BY <1>1, <1>3, <1>11 DEF Nearer, PathLong
  <2>3. g[s][v] <= MaxCost
    BY <1>3, <1>4, NeighborMap, MaxCostProperties
  <2> HIDE DEF bound
  <2>4. dists[s] + g[s][v] <= INFINI
    BY <1>3, <1>4, <1>5, <2>1, <2>2, <2>3
  <2> QED
    BY <1>4, <1>11, <2>4 DEF NewDist, Wrapped
<1>6. ASSUME NEW v \in Closer(s)
      PROVE  /\ v \in GetNeighbors(s) /\ v \in Nodes
             /\ dists[s] < INFINI
             /\ NewDist(s, v) = dists[s] + g[s][v]
             /\ dists[s] + g[s][v] <= dists[v]
  <2>1. /\ v \in GetNeighbors(s) /\ NewDist(s, v) <= dists[v]
        /\ ~ (NewDist(s, v) = INFINI /\ dists[v] = INFINI)
    BY DEF Closer
  <2>2. v \in Nodes
    BY <1>4, <2>1
  <2>3. dists[s] # INFINI
    BY <1>5, <2>1, <2>2 DEF NewDist
  <2>4. NewDist(s, v) = dists[s] + g[s][v]
    BY <1>11, <2>1, <2>3
  <2> QED
    BY <1>3, <1>5, <2>1, <2>2, <2>3, <2>4
<1>7. ASSUME NEW v \in GetNeighbors(s), v \notin Closer(s)
      PROVE  ~ (dists[s] + g[s][v] < dists[v])
  <2> SUFFICES ASSUME dists[s] + g[s][v] < dists[v] PROVE FALSE
    OBVIOUS
  <2>1. v \in Nodes /\ g[s][v] \in Nat /\ dists[s] # INFINI
    BY <1>3, <1>4, <1>5
  <2>2. NewDist(s, v) = dists[s] + g[s][v]
    BY <1>11, <2>1
  <2>3. NewDist(s, v) < dists[v] /\ NewDist(s, v) # INFINI
    BY <1>3, <1>5, <2>1, <2>2
  <2>4. NewDist(s, v) <= dists[v] /\ NewDist(s, v) # dists[v]
    BY <1>3, <1>5, <2>1, <2>2, <2>3
  <2> QED
    BY <1>7, <2>3, <2>4 DEF Closer
<1>8. /\ dists' \in [Nodes -> 0 .. INFINI]
      /\ \A v \in Nodes : dists'[v] = IF v \in DOMAIN g[s] /\ dists[s] + g[s][v] < dists[v]
                                      THEN dists[s] + g[s][v] ELSE dists[v]
  <2>1. ASSUME NEW v \in Nodes
        PROVE  /\ dists'[v] \in 0 .. INFINI
               /\ dists'[v] = IF v \in DOMAIN g[s] /\ dists[s] + g[s][v] < dists[v]
                              THEN dists[s] + g[s][v] ELSE dists[v]
    <3>1. CASE v \in Closer(s)
      <4>1. dists'[v] = dists[s] + g[s][v] /\ g[s][v] \in Nat /\ v \in DOMAIN g[s]
        BY <1>2, <1>4, <1>6, <3>1
      <4>2. dists[s] + g[s][v] <= dists[v]
        BY <1>6, <3>1
      <4> QED
        BY <1>3, <1>5, <4>1, <4>2
    <3>2. CASE v \notin Closer(s)
      BY <1>2, <1>4, <1>5, <1>7, <3>2
    <3> QED
      BY <3>1, <3>2
  <2> QED
    BY <1>2, <2>1
<1>9. ASSUME NEW v \in Nodes
      PROVE  v \in Closer(s) <=>
               /\ v \in DOMAIN g[s]
               /\ dists[s] + g[s][v] <= dists[v] /\ dists[s] + g[s][v] < INFINI
               /\ ~ (v \in DOMAIN preds /\ preds[v] <= s /\ dists[s] + g[s][v] = dists[v])
  <2>1. CASE v \in GetNeighbors(s) /\ dists[s] # INFINI
    <3>1. NewDist(s, v) = dists[s] + g[s][v] /\ g[s][v] \in Nat
      BY <1>4, <1>11, <2>1
    <3> QED
      BY <1>3, <1>4, <1>5, <2>1, <3>1 DEF Closer
  <2>2. CASE v \in GetNeighbors(s) /\ dists[s] = INFINI
    BY <1>3, <1>4, <1>5, <1>6, <2>2
  <2>3. CASE v \notin GetNeighbors(s)
    BY <1>4, <1>6, <2>3
  <2> QED
    BY <2>1, <2>2, <2>3
<1>10. Closer(s) \subseteq Nodes
  BY <1>6
<1> QED
  BY <1>1, <1>2, <1>3, <1>4, <1>8, <1>9, <1>10

LEMMA FinishNodeInv == Inv /\ FinishNode => Inv'
<1> SUFFICES ASSUME Inv, FinishNode PROVE Inv'
  OBVIOUS
<1> DEFINE g == Links
           s == Nearest
<1>1. /\ vertices = Nodes /\ GraphOK /\ pc = "dijkstra" /\ finishedNodes \subseteq Nodes
      /\ dists \in [Nodes -> 0 .. INFINI]
      /\ Nearer(g, source, finishedNodes, dists) /\ source \in Nodes
      /\ s \in Nodes \ finishedNodes
      /\ \A u \in Nodes \ finishedNodes : dists[s] <= dists[u]
      /\ IsGraph(g)
  BY FinishNodeStep
<1>2. /\ finishedNodes' = finishedNodes \cup {s}
      /\ preds' = [v \in DOMAIN preds \cup Closer(s) |->
                     IF v \in Closer(s) THEN s ELSE preds[v]]
      /\ UNCHANGED <<graphVars, source, dijkstraMap, table, walk, changesLeft, pc>>
  BY FinishNodeStep
<1>3. /\ dists' \in [Nodes -> 0 .. INFINI]
      /\ \A v \in Nodes : dists'[v] = IF v \in DOMAIN g[s] /\ dists[s] + g[s][v] < dists[v]
                                      THEN dists[s] + g[s][v] ELSE dists[v]
  BY FinishNodeStep
<1>4. /\ \A v \in Nodes : v \in Closer(s) =>
           /\ v \in DOMAIN g[s] /\ dists[s] + g[s][v] < INFINI
      /\ \A v \in Nodes : dists[s] + g[s][v] < dists[v] /\ v \in DOMAIN g[s] => v \in Closer(s)
      /\ Closer(s) \subseteq Nodes
  <2>1. \A v \in DOMAIN g[s] : g[s][v] \in Nat
    BY <1>1, GraphProperties
  <2>2. INFINI \in Nat /\ \A v \in Nodes : dists[v] \in Nat /\ dists[v] <= INFINI
    BY <1>1, TopologyAssumption
  <2>3. /\ \A v \in Nodes : v \in Closer(s) <=>
             /\ v \in DOMAIN g[s]
             /\ dists[s] + g[s][v] <= dists[v] /\ dists[s] + g[s][v] < INFINI
             /\ ~ (v \in DOMAIN preds /\ preds[v] <= s /\ dists[s] + g[s][v] = dists[v])
        /\ Closer(s) \subseteq Nodes
    BY FinishNodeStep
  <2> HIDE DEF s, g
  <2> QED
    BY <1>1, <2>1, <2>2, <2>3
<1> HIDE DEF s, g
<1>5. INFINI \in Nat /\ \A v \in Nodes : dists[v] \in Nat /\ dists[v] <= INFINI
  BY <1>1, TopologyAssumption
<1>9. Nearer(g, source, finishedNodes \cup {s}, dists')
  BY <1>1, <1>3, NearerStep
<1>10. Links' = g
  BY <1>2 DEF g, Links, graphVars, GetNeighbors, GetEdgeWeight
<1>11. GraphOK' /\ GraphTypeOK'
  BY <1>1, <1>2 DEF GraphOK, graphVars, GraphTypeOK, EdgesMatchWeights, GetNeighbors,
                    GetEdgeWeight
<1>12. /\ DOMAIN preds' \subseteq Nodes
       /\ source \in DOMAIN preds'
       /\ preds' \in [DOMAIN preds' -> DOMAIN preds']
       /\ \A v \in Nodes : dists'[v] < INFINI => v \in DOMAIN preds'
  <2>1. /\ DOMAIN preds \subseteq Nodes /\ source \in DOMAIN preds
        /\ preds \in [DOMAIN preds -> DOMAIN preds]
        /\ \A v \in Nodes : dists[v] < INFINI => v \in DOMAIN preds
    BY DEF Inv, LinkStateTypeOK, PredsOK
  <2>2. DOMAIN preds' = DOMAIN preds \cup Closer(s)
    BY <1>2
  <2>3. Closer(s) # {} => s \in DOMAIN preds
    <3>1. ASSUME NEW v \in Closer(s) PROVE dists[s] < INFINI
      <4>1. v \in DOMAIN g[s] /\ dists[s] + g[s][v] < INFINI /\ g[s][v] \in Nat
        BY <1>1, <1>4, GraphProperties
      <4> QED
        BY <1>1, <1>5, <4>1
    <3> QED
      BY <1>1, <2>1, <3>1
  <2>4. Closer(s) \subseteq Nodes
    BY <1>4
  <2>5. preds' \in [DOMAIN preds' -> DOMAIN preds']
    BY <1>2, <2>1, <2>2, <2>3
  <2>6. ASSUME NEW v \in Nodes, dists'[v] < INFINI PROVE v \in DOMAIN preds'
    BY <1>3, <1>4, <2>1, <2>2, <2>6
  <2> QED
    BY <2>1, <2>2, <2>4, <2>5, <2>6
<1>13. LinkStateTypeOK'
  <2>1. /\ vertices' = Nodes /\ source' \in Nodes /\ finishedNodes' \subseteq Nodes
        /\ dists' \in [Nodes -> Distances] /\ DOMAIN preds' \subseteq Nodes
        /\ preds' \in [DOMAIN preds' -> Nodes]
    BY <1>1, <1>2, <1>3, <1>12 DEF graphVars, Distances
  <2> QED
    BY <1>2, <1>11, <2>1 DEF Inv, LinkStateTypeOK
<1>14. PredsOK'
  BY <1>2, <1>12 DEF PredsOK
<1>15. Running'
  BY <1>1, <1>2, <1>9, <1>10 DEF Running
<1>16. SourcesInTurn' /\ ResultsSolve'
  BY <1>1, <1>2, <1>10 DEF Inv, SourcesInTurn, ResultsSolve, g
<1> QED
  BY <1>11, <1>13, <1>14, <1>15, <1>16 DEF Inv

LEMMA StartTableInv == Inv /\ StartTable => Inv'
<1> SUFFICES ASSUME Inv, StartTable PROVE Inv'
  OBVIOUS
<1> DEFINE result == [dists |-> dists, preds |-> preds]
<1>1. /\ vertices = Nodes /\ GraphOK /\ pc = "dijkstra" /\ finishedNodes = Nodes
      /\ Nearer(Links, source, Nodes, dists) /\ source \in Nodes
      /\ source \in DOMAIN preds /\ DOMAIN preds \subseteq Nodes
      /\ DOMAIN dijkstraMap = {n \in Nodes : n < source}
  BY DEF Inv, LinkStateTypeOK, StartTable, Running, PredsOK, SourcesInTurn
<1>2. /\ dijkstraMap' = With(dijkstraMap, source, result)
      /\ walk' = WalkFrom(SetMin(DOMAIN preds))
      /\ pc' = "table"
      /\ UNCHANGED <<graphVars, dijkstraVars, table, changesLeft>>
  BY DEF StartTable
<1>3. ToNode(Links, source, dists)
  BY <1>1, LinksProperties, NearerEnd
<1>4. SetMin(DOMAIN preds) \in DOMAIN preds
  BY <1>1, TopologyAssumption, SetMinProperties
<1>5. Links' = Links
  BY <1>2 DEF Links, graphVars, GetNeighbors, GetEdgeWeight
<1>6. GraphOK' /\ GraphTypeOK'
  BY <1>1, <1>2 DEF GraphOK, graphVars, GraphTypeOK, EdgesMatchWeights, GetNeighbors,
                    GetEdgeWeight
<1> HIDE DEF result
<1>7. /\ DOMAIN dijkstraMap' = DOMAIN dijkstraMap \cup {source}
      /\ dijkstraMap'[source] = result
      /\ \A n \in DOMAIN dijkstraMap \ {source} : dijkstraMap'[n] = dijkstraMap[n]
  <2> DEFINE new == With(dijkstraMap, source, result)
  <2>1. /\ DOMAIN new = DOMAIN dijkstraMap \cup {source}
        /\ new[source] = result
        /\ \A n \in DOMAIN dijkstraMap \ {source} : new[n] = dijkstraMap[n]
    BY DEF With
  <2>2. dijkstraMap' = new
    BY <1>2
  <2> HIDE DEF new
  <2> QED
    BY <2>1, <2>2
<1>8. DOMAIN dijkstraMap' = {n \in Nodes : n <= source}
  BY <1>1, <1>7, TopologyAssumption
<1>9. ResultsSolve'
  <2>1. ASSUME NEW n \in DOMAIN dijkstraMap' PROVE ToNode(Links, n, dijkstraMap'[n].dists)
    <3>1. CASE n = source
      BY <1>3, <1>7, <3>1 DEF result
    <3>2. CASE n # source
      BY <1>7, <2>1, <3>2 DEF Inv, ResultsSolve
    <3> QED
      BY <3>1, <3>2
  <2> QED
    BY <1>5, <2>1 DEF ResultsSolve
<1>10. Running'
  BY <1>1, <1>2, <1>4, <1>5 DEF Running, dijkstraVars, WalkFrom
<1>11. PredsOK' /\ SourcesInTurn'
  BY <1>2, <1>8 DEF Inv, PredsOK, SourcesInTurn, dijkstraVars
<1>12. LinkStateTypeOK'
  BY <1>1, <1>2, <1>6, <1>8 DEF Inv, LinkStateTypeOK, dijkstraVars, graphVars
<1> QED
  BY <1>6, <1>9, <1>10, <1>11, <1>12 DEF Inv

\* What a step keeps that leaves the graph alone.
LEMMA SameGraph ==
  ASSUME Inv, UNCHANGED graphVars
  PROVE  /\ GraphOK' /\ GraphTypeOK' /\ vertices' = Nodes /\ Links' = Links
         /\ \A n : GetNeighbors(n)' = GetNeighbors(n)
<1>1. GraphOK' /\ GraphTypeOK'
  BY DEF Inv, GraphOK, graphVars, GraphTypeOK, EdgesMatchWeights, GetNeighbors,
         GetEdgeWeight
<1> QED
  BY <1>1 DEF Inv, LinkStateTypeOK, Links, graphVars, GetNeighbors, GetEdgeWeight

\* dijkstra() starts again in a step, for the graph after it.
LEMMA RestartFrom ==
  ASSUME Inv, UNCHANGED graphVars, NEW s \in Nodes, DijkstraFrom(s)
  PROVE  /\ source' = s
         /\ finishedNodes' \subseteq Nodes /\ dists' \in [Nodes -> Distances]
         /\ DOMAIN preds' \subseteq Nodes /\ preds' \in [DOMAIN preds' -> Nodes]
         /\ PredsOK' /\ Nearer(Links', source', finishedNodes', dists')
<1>1. vertices = Nodes /\ GraphOK /\ Links' = Links
  BY SameGraph DEF Inv, LinkStateTypeOK
<1>2. /\ Nearer(Links, s, {s}, dists')
      /\ s \in DOMAIN preds' /\ preds' \in [DOMAIN preds' -> DOMAIN preds']
      /\ DOMAIN preds' \subseteq Nodes
      /\ \A v \in Nodes : dists'[v] < INFINI => v \in DOMAIN preds'
  BY <1>1, StartFrom DEF DijkstraFrom, FirstFinished
<1>3. source' = s /\ finishedNodes' = {s}
  BY DEF DijkstraFrom, FirstFinished
<1> QED
  BY <1>1, <1>2, <1>3 DEF PredsOK, Nearer, Distances

LEMMA WriteEntryInv == Inv /\ WriteEntry => Inv'
<1> SUFFICES ASSUME Inv, WriteEntry PROVE Inv'
  OBVIOUS
<1> DEFINE dests == {d \in DOMAIN preds : d > walk.dest}
           sources == {s \in vertices : s > source}
<1>1. /\ vertices = Nodes /\ pc = "table" /\ source \in Nodes
      /\ walk \in [dest : DOMAIN preds, at : DOMAIN preds]
      /\ DOMAIN preds \subseteq Nodes /\ DOMAIN table \subseteq Nodes \X Nodes
      /\ DOMAIN dijkstraMap = {n \in Nodes : n <= source}
      /\ Nodes \subseteq Nat
  BY TopologyAssumption DEF Inv, LinkStateTypeOK, WriteEntry, Running, SourcesInTurn
<1>2. /\ table' = With(table, <<source, walk.dest>>, walk.at)
      /\ UNCHANGED <<graphVars, dijkstraMap, changesLeft>>
      /\ \/ /\ dests # {}
            /\ walk' = WalkFrom(SetMin(dests))
            /\ UNCHANGED <<dijkstraVars, pc>>
         \/ /\ dests = {} /\ sources # {}
            /\ walk' = <<>>
            /\ DijkstraFrom(SetMin(sources))
            /\ pc' = "dijkstra"
         \/ /\ dests = {} /\ sources = {}
            /\ walk' = <<>>
            /\ pc' = "messages"
            /\ UNCHANGED dijkstraVars
  BY DEF WriteEntry
<1>3. /\ GraphOK' /\ GraphTypeOK' /\ vertices' = Nodes /\ Links' = Links
  BY <1>2, SameGraph
<1>4. DOMAIN table' \subseteq Nodes \X Nodes
  <2>1. DOMAIN table' = DOMAIN table \cup {<<source, walk.dest>>}
    BY <1>2, WithProperties
  <2> QED
    BY <1>1, <2>1
<1>5. ResultsSolve'
  BY <1>2, <1>3 DEF Inv, ResultsSolve
<1>6. CASE dests # {} /\ walk' = WalkFrom(SetMin(dests)) /\ UNCHANGED <<dijkstraVars, pc>>
  <2>1. SetMin(dests) \in DOMAIN preds
    BY <1>1, <1>6, SetMinProperties
  <2>2. walk' \in [dest : DOMAIN preds, at : DOMAIN preds]
    BY <1>6, <2>1 DEF WalkFrom
  <2>3. LinkStateTypeOK'
    BY <1>1, <1>2, <1>3, <1>4, <1>6 DEF Inv, LinkStateTypeOK, dijkstraVars
  <2>4. PredsOK' /\ Running' /\ SourcesInTurn'
    BY <1>1, <1>2, <1>3, <1>6, <2>2 DEF Inv, PredsOK, Running, SourcesInTurn, dijkstraVars
  <2> QED
    BY <1>3, <1>5, <2>3, <2>4 DEF Inv
<1>7. CASE /\ dests = {} /\ sources # {} /\ walk' = <<>>
           /\ DijkstraFrom(SetMin(sources)) /\ pc' = "dijkstra"
  <2> DEFINE s == SetMin(sources)
  <2>1. s \in sources /\ \A n \in sources : s <= n
    BY <1>1, <1>7, SetMinProperties
  <2>2. s \in Nodes /\ s > source /\ \A n \in Nodes : n > source => s <= n
    BY <1>1, <2>1
  <2> HIDE DEF s, sources
  <2>3. /\ source' = s
        /\ finishedNodes' \subseteq Nodes /\ dists' \in [Nodes -> Distances]
        /\ DOMAIN preds' \subseteq Nodes /\ preds' \in [DOMAIN preds' -> Nodes]
        /\ PredsOK' /\ Nearer(Links', source', finishedNodes', dists')
    BY <1>2, <1>7, <2>2, RestartFrom DEF s
  <2>4. {n \in Nodes : n <= source} = {n \in Nodes : n < s}
    <3>1. \A n \in Nodes : n <= source <=> n < s
      BY <1>1, <2>2
    <3> QED
      BY <3>1
  <2>5. LinkStateTypeOK'
    BY <1>1, <1>2, <1>3, <1>4, <1>7, <2>2, <2>3 DEF Inv, LinkStateTypeOK
  <2>6. Running' /\ SourcesInTurn'
    BY <1>1, <1>2, <1>7, <2>3, <2>4 DEF Running, SourcesInTurn
  <2> QED
    BY <1>3, <1>5, <2>3, <2>5, <2>6 DEF Inv
<1>8. CASE /\ dests = {} /\ sources = {} /\ walk' = <<>>
           /\ pc' = "messages" /\ UNCHANGED dijkstraVars
  <2>1. {n \in Nodes : n <= source} = Nodes
    <3>1. \A n \in Nodes : ~ (n > source) /\ n \in Nat /\ source \in Nat
      BY <1>1, <1>8
    <3>2. \A n \in Nodes : n <= source
      BY <3>1
    <3> QED
      BY <3>2
  <2>2. LinkStateTypeOK'
    BY <1>1, <1>2, <1>3, <1>4, <1>8 DEF Inv, LinkStateTypeOK, dijkstraVars
  <2>3. PredsOK' /\ Running' /\ SourcesInTurn'
    BY <1>1, <1>2, <1>8, <2>1 DEF Inv, PredsOK, Running, SourcesInTurn, dijkstraVars
  <2> QED
    BY <1>3, <1>5, <2>2, <2>3 DEF Inv
<1> QED
  BY <1>2, <1>6, <1>7, <1>8

LEMMA RestartInv == Inv /\ Restart => Inv'
<1> SUFFICES ASSUME Inv, Restart PROVE Inv'
  OBVIOUS
<1>1. /\ vertices = Nodes /\ pc = "restart" /\ DOMAIN dijkstraMap = {}
      /\ DijkstraFrom(SetMin(Nodes)) /\ pc' = "dijkstra"
      /\ UNCHANGED <<graphVars, dijkstraMap, table, walk, changesLeft>>
  BY DEF Inv, LinkStateTypeOK, Restart, SourcesInTurn
<1>2. SetMin(Nodes) \in Nodes /\ {n \in Nodes : n < SetMin(Nodes)} = {}
  BY FirstSource
<1>3. GraphOK' /\ GraphTypeOK' /\ vertices' = Nodes /\ Links' = Links
  BY <1>1, SameGraph
<1>4. /\ source' = SetMin(Nodes)
      /\ finishedNodes' \subseteq Nodes /\ dists' \in [Nodes -> Distances]
      /\ DOMAIN preds' \subseteq Nodes /\ preds' \in [DOMAIN preds' -> Nodes]
      /\ PredsOK' /\ Nearer(Links', source', finishedNodes', dists')
  BY <1>1, <1>2, RestartFrom
<1>5. LinkStateTypeOK'
  BY <1>1, <1>2, <1>3, <1>4 DEF Inv, LinkStateTypeOK
<1>6. Running' /\ SourcesInTurn' /\ ResultsSolve'
  BY <1>1, <1>2, <1>4 DEF Running, SourcesInTurn, ResultsSolve
<1> QED
  BY <1>3, <1>4, <1>5, <1>6 DEF Inv

LEMMA ApplyChangeInv ==
  ASSUME Inv, NEW a \in Nodes, NEW b \in Nodes, NEW cost \in Costs \cup {NoLink}, a # b,
         ApplyChange(a, b, cost)
  PROVE  Inv'
<1>1. /\ vertices = Nodes /\ GraphOK /\ pc = "change" /\ changesLeft > 0
      /\ ChangeEdge(a, b, cost) /\ dijkstraMap' = NoResults /\ table' = NoResults
      /\ changesLeft' = changesLeft - 1 /\ pc' = "restart"
      /\ UNCHANGED <<dijkstraVars, walk>>
  BY DEF Inv, LinkStateTypeOK, ApplyChange
<1>2. GraphOK' /\ vertices' = Nodes
  <2>1. CASE cost = NoLink
    BY <1>1, <2>1, DeleteEdgeOK DEF ChangeEdge, DeleteEdge, WithoutEdge, graphVars
  <2>2. CASE cost # NoLink
    <3>1. CASE UpdateEdge(a, b, cost)
      BY <1>1, <2>2, <3>1, UpdateEdgeOK DEF UpdateEdge
    <3>2. CASE InsertEdge(a, b, cost)
      BY <1>1, <2>2, <3>2, InsertEdgeOK DEF InsertEdge
    <3> QED
      BY <1>1, <2>2, <3>1, <3>2 DEF ChangeEdge
  <2> QED
    BY <2>1, <2>2
<1>3. changesLeft' \in 0 .. MaxChanges
  BY <1>1, TopologyAssumption DEF Inv, LinkStateTypeOK
<1>4. DOMAIN NoResults = {}
  BY DEF NoResults
<1>5. LinkStateTypeOK'
  BY <1>1, <1>2, <1>3, <1>4 DEF Inv, LinkStateTypeOK, GraphOK, dijkstraVars
<1>6. PredsOK' /\ Running' /\ SourcesInTurn' /\ ResultsSolve'
  BY <1>1, <1>4 DEF Inv, PredsOK, Running, SourcesInTurn, ResultsSolve, dijkstraVars
<1> QED
  BY <1>2, <1>5, <1>6 DEF Inv

\* The other steps leave the graph and the results alone.
LEMMA QuietInv ==
  ASSUME Inv, StepBack \/ RouteMessage \/ RouteBack \/ Routed \/ Finish \/ UNCHANGED vars
  PROVE  Inv'
<1>1. UNCHANGED <<graphVars, source, finishedNodes, dists, preds, dijkstraMap, table,
                  changesLeft>>
  BY DEF StepBack, RouteMessage, RouteBack, Routed, Finish, vars, dijkstraVars
<1>2. GraphOK' /\ GraphTypeOK' /\ vertices' = Nodes /\ Links' = Links
  BY <1>1, SameGraph
<1>3. \/ pc' = pc /\ (pc = "table" => walk' = walk \/ StepBack)
      \/ /\ pc \in {"messages", "route", "change"}
         /\ pc' \in {"route", "change", "done"}
  BY DEF StepBack, RouteMessage, RouteBack, Routed, Finish, vars
<1>4. LinkStateTypeOK'
  BY <1>1, <1>2, <1>3 DEF Inv, LinkStateTypeOK
<1>5. PredsOK' /\ ResultsSolve'
  BY <1>1, <1>2 DEF Inv, PredsOK, ResultsSolve
<1>6. SourcesInTurn'
  BY <1>1, <1>3 DEF Inv, SourcesInTurn
<1>7. Running'
  <2>1. ASSUME pc' = "table" PROVE walk' \in [dest : DOMAIN preds, at : DOMAIN preds]
    <3>1. walk \in [dest : DOMAIN preds, at : DOMAIN preds] /\ pc = "table"
      BY <1>3, <2>1 DEF Inv, Running
    <3>2. CASE StepBack
      <4>1. walk' = [walk EXCEPT !.at = preds[walk.at]] /\ preds[walk.at] \in DOMAIN preds
        BY <3>1, <3>2 DEF StepBack, Inv, PredsOK
      <4> QED
        BY <3>1, <4>1
    <3> QED
      BY <1>3, <2>1, <3>1, <3>2
  <2>2. pc' \in {"dijkstra", "table"} => pc' = pc
    BY <1>3
  <2> QED
    BY <1>1, <1>2, <2>1, <2>2 DEF Inv, Running
<1> QED
  BY <1>2, <1>4, <1>5, <1>6, <1>7 DEF Inv

LEMMA InvHolds == Spec => []Inv
<1>1. Inv /\ [Next]_vars => Inv'
  <2> SUFFICES ASSUME Inv, [Next]_vars PROVE Inv'
    OBVIOUS
  <2>1. CASE FinishNode
    BY <2>1, FinishNodeInv
  <2>2. CASE StartTable
    BY <2>2, StartTableInv
  <2>3. CASE WriteEntry
    BY <2>3, WriteEntryInv
  <2>4. CASE Restart
    BY <2>4, RestartInv
  <2>5. CASE \E a, b \in Nodes, cost \in Costs \cup {NoLink} : a # b /\ ApplyChange(a, b, cost)
    BY <2>5, ApplyChangeInv
  <2>6. CASE StepBack \/ RouteMessage \/ RouteBack \/ Routed \/ Finish \/ UNCHANGED vars
    BY <2>6, QuietInv
  <2> QED
    BY <2>1, <2>2, <2>3, <2>4, <2>5, <2>6 DEF Next, Done
<1> QED
  BY <1>1, InitInv, PTL DEF Spec

\* The variables are of their types, also after changes of the topology.
THEOREM TypeCorrect == Spec => []LinkStateTypeOK
BY InvHolds, PTL DEF Inv

\* dijkstra() finishes the nodes nearest first, and the distances are at all
\* times the cheapest ways through the finished nodes.
THEOREM NearestFirstHolds == Spec => []NearestFirst
<1>1. Inv => NearestFirst
  <2> SUFFICES ASSUME Inv, pc \in {"dijkstra", "table"} PROVE NearestFirst
    BY DEF NearestFirst
  <2> DEFINE g == Links
             F == finishedNodes
  <2>1. vertices = Nodes /\ GraphOK /\ Nearer(g, source, F, dists) /\ F \subseteq Nodes
    BY DEF Inv, LinkStateTypeOK, Running
  <2>2. \A u \in F, v \in vertices \ F : dists[u] <= dists[v]
    BY <2>1 DEF Nearer
  <2>3. ASSUME NEW v \in vertices \ {source}
        PROVE  dists[v] = SetMin({INFINI} \cup ViaFinished(v))
    <3> DEFINE S == {INFINI} \cup ViaFinished(v)
    <3>1. INFINI \in Nat /\ \A u \in Nodes : dists[u] \in Nat /\ dists[u] <= INFINI
      BY <2>1, TopologyAssumption DEF Nearer
    <3>2. IsGraph(g) /\ DOMAIN g[v] = GetNeighbors(v)
      BY <2>1, LinksProperties
    <3>3. ASSUME NEW u \in GetNeighbors(v)
          PROVE  /\ u \in Nodes /\ v \in DOMAIN g[u]
                 /\ g[u][v] \in Nat /\ g[u][v] >= 1 /\ g[v][u] = g[u][v]
                 /\ GetEdgeWeight(u, v) = g[u][v]
      <4>1. /\ u \in Nodes /\ v \in DOMAIN g[u]
            /\ g[v][u] \in Nat /\ g[v][u] >= 1 /\ g[v][u] = g[u][v]
        BY <2>1, <3>2, GraphProperties
      <4>2. v \in GetNeighbors(u)
        BY <2>1, <4>1, LinksProperties
      <4>3. GetEdgeWeight(u, v) = g[u][v]
        BY <2>1, <4>1, <4>2, LinksProperties
      <4> QED
        BY <4>1, <4>3
    <3>4. \A y : y \in S <=> \/ y = INFINI
                             \/ \E u \in F \cap GetNeighbors(v) :
                                  dists[u] < INFINI /\ y = dists[u] + g[u][v]
      BY <3>3 DEF ViaFinished
    <3> HIDE DEF S, F, g
    <3>5. S \subseteq Nat
      BY <3>1, <3>3, <3>4
    <3>6. \A y \in S : dists[v] <= y
      <4>1. ASSUME NEW u \in F \cap GetNeighbors(v) PROVE dists[v] <= dists[u] + g[u][v]
        BY <2>1, <3>3 DEF Nearer
      <4> QED
        BY <2>1, <3>1, <3>4, <4>1
    <3>7. dists[v] \in S
      <4>1. CASE dists[v] = INFINI
        BY <3>4, <4>1
      <4>2. CASE dists[v] # INFINI
        <5>1. PICK u \in F \cap DOMAIN g[v] : dists[v] = dists[u] + g[v][u]
          BY <2>1, <4>2 DEF Nearer
        <5>2. u \in F \cap GetNeighbors(v) /\ dists[v] = dists[u] + g[u][v]
          BY <3>2, <3>3, <5>1
        <5>3. dists[u] < INFINI
          BY <2>1, <3>1, <3>3, <5>2
        <5> QED
          BY <3>4, <5>2, <5>3
      <4> QED
        BY <4>1, <4>2
    <3> DEFINE least == SetMin(S)
    <3>8. least \in S /\ \A y \in S : least <= y
      BY <3>5, <3>7, SetMinProperties
    <3> HIDE DEF least
    <3>9. /\ least \in Nat /\ dists[v] \in Nat
          /\ dists[v] <= least /\ least <= dists[v]
      BY <3>5, <3>6, <3>7, <3>8
    <3>10. dists[v] = least
      BY <3>9
    <3> QED
      BY <3>10 DEF least, S
  <2> QED
    BY <2>2, <2>3 DEF NearestFirst
<1> QED
  BY <1>1, InvHolds, PTL

\* The distances reported after every change solve the equations of routing for
\* the graph as it is then, like the costs of the distance-vector program; by
\* OneSolution both programs report the same.
DistancesSolve ==
  pc \in {"messages", "route", "change", "done"} =>
    Solves(Links, [n \in Nodes |-> [d \in Nodes |-> dijkstraMap[n].dists[d]]])

LEMMA InvDistances == Inv => DistancesSolve
<1> SUFFICES ASSUME Inv, pc \in {"messages", "route", "change", "done"}
             PROVE  DistancesSolve
  BY DEF DistancesSolve
<1> DEFINE D == [n \in Nodes |-> [d \in Nodes |-> dijkstraMap[n].dists[d]]]
           E == Transposed(D)
<1>1. IsGraph(Links)
  BY LinksProperties DEF Inv, LinkStateTypeOK
<1>2. \A n \in Nodes : ToNode(Links, n, dijkstraMap[n].dists)
  BY DEF Inv, SourcesInTurn, ResultsSolve
<1>3. D \in [Nodes -> [Nodes -> 0 .. INFINI]]
  BY <1>2 DEF ToNode
<1>4. E \in [Nodes -> [Nodes -> 0 .. INFINI]]
      /\ \A n, d \in Nodes : E[n][d] = dijkstraMap[d].dists[n]
  BY <1>3 DEF Transposed
<1> HIDE DEF E
<1>5. \A n, d \in Nodes :
        IF n = d THEN E[n][d] = 0
        ELSE /\ \A m \in DOMAIN Links[n] : E[n][d] <= Links[n][m] + E[m][d]
             /\ \/ E[n][d] = INFINI
                \/ \E m \in DOMAIN Links[n] : E[n][d] = Links[n][m] + E[m][d]
  <2>1. \A n \in Nodes : DOMAIN Links[n] \subseteq Nodes
    BY <1>1, NeighborMap
  <2> QED
    BY <1>2, <1>4, <2>1 DEF ToNode
<1>6. Solves(Links, E)
  BY <1>4, <1>5 DEF Solves
<1>7. E = Transposed(E)
  BY <1>1, <1>6, SymmetricSolution
<1>8. D = Transposed(E)
  BY <1>3 DEF E, Transposed
<1> QED
  BY <1>6, <1>7, <1>8 DEF DistancesSolve

THEOREM DistancesCorrect == Spec => []DistancesSolve
BY InvDistances, InvHolds, PTL

-----------------------------------------------------------------------------
(* The program implements Routing                                          *)

CostsReported ==
  pc \in {"messages", "route", "change", "done"} =>
    Reported = ShortestCosts(Links) /\ Reported # <<>>

LEMMA InvReported == Inv => CostsReported
<1> SUFFICES ASSUME Inv, pc \in {"messages", "route", "change", "done"} PROVE CostsReported
  BY DEF CostsReported
<1> DEFINE D == [n \in Nodes |-> [d \in Nodes |-> dijkstraMap[n].dists[d]]]
<1>1. Solves(Links, D)
  BY InvDistances DEF DistancesSolve
<1>2. IsGraph(Links)
  BY LinksProperties DEF Inv, LinkStateTypeOK
<1>3. D = ShortestCosts(Links)
  BY <1>1, <1>2, ShortestSolves, OneSolution
<1>4. D # <<>>
  <2>1. DOMAIN D = Nodes /\ Nodes # {} /\ DOMAIN <<>> = {}
    BY TopologyAssumption
  <2> HIDE DEF D
  <2> QED
    BY <2>1
<1>5. Reported = D
  <2>1. \A n \in Nodes : dijkstraMap[n].dists = [d \in Nodes |-> dijkstraMap[n].dists[d]]
    BY DEF Inv, SourcesInTurn, ResultsSolve, ToNode
  <2>2. Reported = [n \in Nodes |-> dijkstraMap[n].dists]
    BY DEF Reported
  <2> QED
    BY <2>1, <2>2
<1> QED
  BY <1>3, <1>4, <1>5 DEF CostsReported

\* The graph that is read is one of the topologies.
LEMMA FirstLinks == Init => Links \in Topologies
<1> SUFFICES ASSUME Init PROVE Links \in Topologies
  OBVIOUS
<1>1. PICK g \in Topologies :
        /\ vertices = Nodes
        /\ edges = [n \in Nodes |-> DOMAIN g[n]]
        /\ edgeWeights =
             [k \in {e \in Nodes \X Nodes : e[1] < e[2] /\ e[2] \in DOMAIN g[e[1]]} |->
                g[k[1]][k[2]]]
  BY DEF Init
<1>2. IsGraph(g) /\ Nodes \subseteq Nat
  BY TopologyAssumption
<1>3. ASSUME NEW n \in Nodes PROVE GetNeighbors(n) = DOMAIN g[n]
  BY <1>1 DEF GetNeighbors
<1>4. ASSUME NEW n \in Nodes, NEW m \in DOMAIN g[n] PROVE GetEdgeWeight(n, m) = g[n][m]
  <2>1. m \in Nodes /\ m # n /\ n \in DOMAIN g[m] /\ g[m][n] = g[n][m]
    BY <1>2, GraphProperties
  <2>2. CASE n < m
    <3>1. Key(n, m) = <<n, m>>
      BY <2>2 DEF Key
    <3>2. <<n, m>> \in DOMAIN edgeWeights /\ edgeWeights[<<n, m>>] = g[n][m]
      BY <1>1, <2>1, <2>2
    <3> QED
      BY <2>1, <3>1, <3>2 DEF GetEdgeWeight
  <2>3. CASE m < n
    <3>1. Key(n, m) = <<m, n>>
      BY <1>2, <2>1, <2>3 DEF Key
    <3>2. <<m, n>> \in DOMAIN edgeWeights /\ edgeWeights[<<m, n>>] = g[m][n]
      BY <1>1, <2>1, <2>3
    <3> QED
      BY <2>1, <3>1, <3>2 DEF GetEdgeWeight
  <2> QED
    BY <1>2, <2>1, <2>2, <2>3
<1>5. ASSUME NEW n \in Nodes PROVE g[n] = [m \in GetNeighbors(n) |-> GetEdgeWeight(n, m)]
  <2>1. g[n] = [m \in DOMAIN g[n] |-> g[n][m]]
    BY <1>2, NeighborMap
  <2> QED
    BY <1>3, <1>4, <2>1
<1>6. g = [n \in Nodes |-> g[n]]
  BY <1>2 DEF IsGraph
<1>7. g = Links
  BY <1>5, <1>6 DEF Links
<1> QED
  BY <1>1, <1>7

\* Two nodes are neighbours when their key has a weight.
NeighborsByKey ==
  \A x, y \in Nodes :
    /\ y \in GetNeighbors(x) <=> x # y /\ Key(x, y) \in DOMAIN edgeWeights
    /\ GetNeighbors(x) \subseteq Nodes

LEMMA GraphByKey == GraphOK => NeighborsByKey
<1> SUFFICES ASSUME GraphOK, NEW x \in Nodes, NEW y \in Nodes
             PROVE  /\ y \in GetNeighbors(x) <=> x # y /\ Key(x, y) \in DOMAIN edgeWeights
                    /\ GetNeighbors(x) \subseteq Nodes
  BY DEF NeighborsByKey
<1>1. GetNeighbors(x) \subseteq Nodes
  BY DEF GraphOK, GraphTypeOK, GetNeighbors
<1>2. x # y => (y \in GetNeighbors(x) <=> Key(x, y) \in DOMAIN edgeWeights)
  BY WeightProperties
<1>3. x \notin GetNeighbors(x)
  BY DEF GraphOK, GraphTypeOK, EdgesMatchWeights, GetNeighbors
<1> QED
  BY <1>1, <1>2, <1>3

LEMMA GraphByKeyPrime == GraphOK' => NeighborsByKey'
BY GraphByKey, PTL

\* What the operations of GraphData do to the weights is what WithLink does to
\* the links: an edge that is there is updated, one that is not is inserted.
LEMMA ChangedLinks ==
  ASSUME GraphOK, vertices = Nodes, GraphOK', vertices' = Nodes,
         NEW a \in Nodes, NEW b \in Nodes, a # b,
         NEW cost \in Costs \cup {NoLink}, ChangeEdge(a, b, cost)
  PROVE  Links' = WithLink(Links, a, b, cost)
<1> DEFINE Changed(x, y) == (x = a /\ y = b) \/ (x = b /\ y = a)
           W == WithLink(Links, a, b, cost)
<1>1. NeighborsByKey /\ NeighborsByKey'
  BY GraphByKey, GraphByKeyPrime
<1>2. /\ GetEdgeWeight(a, b) # -1 <=> Key(a, b) \in DOMAIN edgeWeights
      /\ cost # NoLink => cost \in Costs
      /\ NoLink \notin Costs
  <2>1. -1 \notin Costs /\ NoLink \notin Costs
    BY TopologyAssumption DEF NoLink
  <2>2. edgeWeights \in [DOMAIN edgeWeights -> Costs]
    BY DEF GraphOK, GraphTypeOK
  <2> QED
    BY <2>1, <2>2 DEF GetEdgeWeight
<1>3. ASSUME NEW k
      PROVE  /\ k \in DOMAIN edgeWeights' <=>
                  IF k = Key(a, b) THEN cost # NoLink ELSE k \in DOMAIN edgeWeights
             /\ k \in DOMAIN edgeWeights' =>
                  edgeWeights'[k] = IF k = Key(a, b) THEN cost ELSE edgeWeights[k]
  <2>1. CASE cost = NoLink
    BY <1>2, <2>1 DEF ChangeEdge, DeleteEdge, WithoutEdge, graphVars
  <2>2. CASE cost # NoLink /\ Key(a, b) \in DOMAIN edgeWeights
    <3>1. edgeWeights' = [edgeWeights EXCEPT ![Key(a, b)] = cost]
      BY <1>2, <2>2 DEF ChangeEdge, UpdateEdge
    <3> QED
      BY <2>2, <3>1
  <2>3. CASE cost # NoLink /\ Key(a, b) \notin DOMAIN edgeWeights
    <3>1. edgeWeights' = [l \in DOMAIN edgeWeights \cup {Key(a, b)} |->
                            IF l \in DOMAIN edgeWeights THEN edgeWeights[l] ELSE cost]
      BY <1>2, <2>3 DEF ChangeEdge, InsertEdge
    <3> QED
      BY <2>3, <3>1
  <2> QED
    BY <2>1, <2>2, <2>3
<1>4. ASSUME NEW x \in Nodes, NEW y \in Nodes
      PROVE  /\ y \in GetNeighbors(x)' <=>
                  IF Changed(x, y) THEN cost # NoLink ELSE y \in GetNeighbors(x)
             /\ y \in GetNeighbors(x)' =>
                  GetEdgeWeight(x, y)' = IF Changed(x, y) THEN cost ELSE GetEdgeWeight(x, y)
  <2>1. /\ y \in GetNeighbors(x) <=> x # y /\ Key(x, y) \in DOMAIN edgeWeights
        /\ y \in GetNeighbors(x)' <=> x # y /\ Key(x, y) \in DOMAIN edgeWeights'
    BY <1>1 DEF NeighborsByKey, Key
  <2>2. CASE x = y
    BY <2>1, <2>2
  <2>3. CASE x # y
    <3>1. Key(x, y) = Key(a, b) <=> Changed(x, y)
      BY <2>3, KeyProperties
    <3> QED
      BY <1>3, <2>1, <2>3, <3>1 DEF GetEdgeWeight, Key
  <2> QED
    BY <2>2, <2>3
<1>5. /\ IsGraph(Links)
      /\ \A x \in Nodes : /\ DOMAIN Links[x] = GetNeighbors(x)
                          /\ \A y \in GetNeighbors(x) : Links[x][y] = GetEdgeWeight(x, y)
  BY LinksProperties
<1>6. \A x \in Nodes : GetNeighbors(x)' \subseteq Nodes /\ GetNeighbors(x) \subseteq Nodes
  BY <1>1 DEF NeighborsByKey
<1>7. Links \in [Nodes -> UNION {[S -> Costs] : S \in SUBSET Nodes}]
  BY <1>5 DEF IsGraph
<1>8. /\ W = [x \in Nodes |-> W[x]]
      /\ \A x \in Nodes : W[x] = IF x = a THEN WithNeighbor(Links[a], b, cost)
                                 ELSE IF x = b THEN WithNeighbor(Links[b], a, cost)
                                 ELSE Links[x]
  BY <1>7 DEF WithLink
<1> HIDE DEF W
<1>9. ASSUME NEW n \in Nodes, NEW m \in Nodes
      PROVE  LET w == WithNeighbor(Links[n], m, cost)
             IN  /\ \A k : k \in DOMAIN w <=>
                          \/ k \in DOMAIN Links[n] /\ k # m
                          \/ k = m /\ cost # NoLink
                 /\ \A k \in DOMAIN w : w[k] = IF k = m THEN cost ELSE Links[n][k]
                 /\ DOMAIN w \subseteq Nodes
                 /\ w \in [DOMAIN w -> Costs]
  <2>1. n \in Nodes /\ m \in Nodes /\ IsGraph(Links) /\ cost \in Costs \cup {NoLink}
    BY <1>5
  <2> QED
    BY <2>1, WithNeighborMap, Zenon
<1>10. ASSUME NEW x \in Nodes
       PROVE  /\ W[x] = [y \in DOMAIN W[x] |-> W[x][y]] /\ DOMAIN W[x] \subseteq Nodes
              /\ \A y \in Nodes : y \in DOMAIN W[x] <=>
                   IF Changed(x, y) THEN cost # NoLink ELSE y \in DOMAIN Links[x]
              /\ \A y \in DOMAIN W[x] :
                   W[x][y] = IF Changed(x, y) THEN cost ELSE Links[x][y]
  <2>1. CASE x = a
    <3>1. W[x] = WithNeighbor(Links[a], b, cost)
      BY <1>8, <2>1
    <3>2. /\ \A k : k \in DOMAIN W[x] <=>
            (k \in DOMAIN Links[x] /\ k # b) \/ (k = b /\ cost # NoLink)
          /\ \A k \in DOMAIN W[x] : W[x][k] = IF k = b THEN cost ELSE Links[x][k]
          /\ DOMAIN W[x] \subseteq Nodes /\ W[x] \in [DOMAIN W[x] -> Costs]
      <4> DEFINE w == WithNeighbor(Links[a], b, cost)
      <4>1. /\ \A k : k \in DOMAIN w <=>
                     \/ k \in DOMAIN Links[a] /\ k # b
                     \/ k = b /\ cost # NoLink
            /\ \A k \in DOMAIN w : w[k] = IF k = b THEN cost ELSE Links[a][k]
            /\ DOMAIN w \subseteq Nodes
            /\ w \in [DOMAIN w -> Costs]
        BY <1>9
      <4> HIDE DEF w
      <4>2. W[x] = w /\ x = a
        BY <2>1, <3>1 DEF w
      <4> QED
        BY <4>1, <4>2
    <3>3. W[x] = [y \in DOMAIN W[x] |-> W[x][y]]
      BY <3>2
    <3>4. \A y \in Nodes : Changed(x, y) <=> y = b
      BY <2>1
    <3> HIDE DEF Changed
    <3> QED
      BY <3>2, <3>3, <3>4
  <2>2. CASE x = b
    <3>1. W[x] = WithNeighbor(Links[b], a, cost)
      BY <1>8, <2>2
    <3>2. /\ \A k : k \in DOMAIN W[x] <=>
            (k \in DOMAIN Links[x] /\ k # a) \/ (k = a /\ cost # NoLink)
          /\ \A k \in DOMAIN W[x] : W[x][k] = IF k = a THEN cost ELSE Links[x][k]
          /\ DOMAIN W[x] \subseteq Nodes /\ W[x] \in [DOMAIN W[x] -> Costs]
      <4> DEFINE w == WithNeighbor(Links[b], a, cost)
      <4>1. /\ \A k : k \in DOMAIN w <=>
                     \/ k \in DOMAIN Links[b] /\ k # a
                     \/ k = a /\ cost # NoLink
            /\ \A k \in DOMAIN w : w[k] = IF k = a THEN cost ELSE Links[b][k]
            /\ DOMAIN w \subseteq Nodes
            /\ w \in [DOMAIN w -> Costs]
        BY <1>9
      <4> HIDE DEF w
      <4>2. W[x] = w /\ x = b
        BY <2>2, <3>1 DEF w
      <4> QED
        BY <4>1, <4>2
    <3>3. W[x] = [y \in DOMAIN W[x] |-> W[x][y]]
      BY <3>2
    <3>4. \A y \in Nodes : Changed(x, y) <=> y = a
      BY <2>2
    <3> HIDE DEF Changed
    <3> QED
      BY <3>2, <3>3, <3>4
  <2>3. CASE x # a /\ x # b
    <3>1. W[x] = Links[x] /\ DOMAIN Links[x] \subseteq Nodes
          /\ Links[x] = [y \in DOMAIN Links[x] |-> Links[x][y]]
      BY <1>5, <1>8, <2>3, NeighborMap
    <3> QED
      BY <2>3, <3>1
  <2> QED
    BY <2>1, <2>2, <2>3
<1>11. ASSUME NEW x \in Nodes
       PROVE  W[x] = [y \in GetNeighbors(x)' |-> GetEdgeWeight(x, y)']
  <2> DEFINE N == GetNeighbors(x)'
             V(y) == GetEdgeWeight(x, y)'
  <2>1. N \subseteq Nodes /\ \A y \in Nodes :
          /\ y \in N <=> IF Changed(x, y) THEN cost # NoLink ELSE y \in GetNeighbors(x)
          /\ y \in N => V(y) = IF Changed(x, y) THEN cost ELSE GetEdgeWeight(x, y)
    BY <1>4, <1>6
  <2> HIDE DEF N, V, Changed
  <2>2. DOMAIN W[x] = N
    BY <1>5, <1>10, <2>1
  <2>3. ASSUME NEW y \in N PROVE W[x][y] = V(y)
    <3>1. y \in Nodes /\ W[x][y] = IF Changed(x, y) THEN cost ELSE Links[x][y]
      BY <1>10, <2>1, <2>2
    <3>2. V(y) = IF Changed(x, y) THEN cost ELSE GetEdgeWeight(x, y)
      BY <2>1, <3>1
    <3>3. ~ Changed(x, y) => y \in GetNeighbors(x)
      BY <2>1, <3>1
    <3>4. ~ Changed(x, y) => Links[x][y] = GetEdgeWeight(x, y)
      BY <1>5, <3>3
    <3> QED
      BY <3>1, <3>2, <3>4
  <2>4. W[x] = [y \in N |-> V(y)]
    BY <1>10, <2>2, <2>3
  <2> QED
    BY <2>4 DEF N, V
<1> QED
  BY <1>8, <1>11 DEF Links, W

\* Routing has definitions of its own for what Topology defines.
LEMMA RoutingDefinitions ==
  /\ \A links : R!ShortestCosts(links) = ShortestCosts(links)
  /\ R!NoLink = NoLink
  /\ \A links, a, b, cost : R!WithLink(links, a, b, cost) = WithLink(links, a, b, cost)
<1>1. ASSUME NEW links PROVE R!Paths(links) = Paths(links)
  <2>1. R!Cardinality(Nodes) = Cardinality(Nodes)
    BY DEF R!Cardinality, Cardinality
  <2> QED
    BY <2>1 DEF R!Paths, Paths, R!IsPath, IsPath
<1>2. ASSUME NEW links, NEW p PROVE R!PathCost(links, p) = PathCost(links, p)
  BY DEF R!PathCost, PathCost
<1>3. ASSUME NEW links PROVE R!ShortestCosts(links) = ShortestCosts(links)
  BY <1>1, <1>2 DEF R!ShortestCosts, ShortestCosts
<1>4. R!NoLink = NoLink
  BY DEF R!NoLink, NoLink
<1>5. ASSUME NEW map, NEW m, NEW cost
      PROVE  R!WithNeighbor(map, m, cost) = WithNeighbor(map, m, cost)
  BY <1>4 DEF R!WithNeighbor, WithNeighbor
<1>6. ASSUME NEW links, NEW a, NEW b, NEW cost
      PROVE  R!WithLink(links, a, b, cost) = WithLink(links, a, b, cost)
  BY <1>5 DEF R!WithLink, WithLink
<1> QED
  BY <1>3, <1>4, <1>6

\* The program implements Routing: after the topology was read and after each
\* change it reports the costs of the cheapest paths, when dijkstra() has run for
\* the last source.
THEOREM LinkStateImplementsRouting == Spec => ImplementsRouting
<1>1. Init => R!Init
  BY FirstLinks DEF Init, R!Init, Reported
<1>2. ASSUME Inv, Inv', CostsReported, CostsReported', [Next]_vars
      PROVE  [R!Next]_<<Links, changesLeft, Reported>>
  <2>1. CASE FinishNode \/ StartTable \/ StepBack \/ Restart
    <3>1. /\ UNCHANGED graphVars /\ UNCHANGED changesLeft
          /\ pc \in {"dijkstra", "table", "restart"}
          /\ pc' \in {"dijkstra", "table", "restart"}
      BY <2>1 DEF FinishNode, StartTable, StepBack, Restart
    <3>2. UNCHANGED Links
      BY <3>1 DEF Links, graphVars, GetNeighbors, GetEdgeWeight
    <3> QED
      BY <3>1, <3>2 DEF Reported
  <2>2. CASE WriteEntry
    <3>1. /\ UNCHANGED graphVars /\ UNCHANGED changesLeft
          /\ pc = "table" /\ pc' \in {"table", "dijkstra", "messages"}
      BY <2>2 DEF WriteEntry
    <3>2. UNCHANGED Links /\ Reported = <<>>
      BY <3>1 DEF Reported, Links, graphVars, GetNeighbors, GetEdgeWeight
    <3>3. CASE pc' = "messages"
      <4>1. Reported' = ShortestCosts(Links') /\ Reported' # <<>>
        BY <1>2, <3>3 DEF CostsReported
      <4>2. Reported' = R!ShortestCosts(Links)
        BY <3>2, <4>1, RoutingDefinitions
      <4>3. R!Report
        BY <3>1, <3>2, <4>1, <4>2 DEF R!Report
      <4> QED
        BY <4>3 DEF R!Next
    <3>4. CASE pc' # "messages"
      BY <3>1, <3>2, <3>4 DEF Reported
    <3> QED
      BY <3>3, <3>4
  <2>3. CASE RouteMessage \/ RouteBack \/ Routed \/ Finish \/ UNCHANGED vars
    <3>1. /\ UNCHANGED graphVars /\ UNCHANGED <<changesLeft, dijkstraMap>>
          /\ pc \in {"dijkstra", "table", "restart"}
                <=> pc' \in {"dijkstra", "table", "restart"}
      BY <2>3 DEF RouteMessage, RouteBack, Routed, Finish, vars
    <3>2. UNCHANGED Links
      BY <3>1 DEF Links, graphVars, GetNeighbors, GetEdgeWeight
    <3> QED
      BY <3>1, <3>2 DEF Reported
  <2>4. CASE \E a, b \in Nodes, cost \in Costs \cup {NoLink} : a # b /\ ApplyChange(a, b, cost)
    <3>1. PICK a \in Nodes, b \in Nodes, cost \in Costs \cup {NoLink} :
            a # b /\ ApplyChange(a, b, cost)
      BY <2>4
    <3>2. /\ pc = "change" /\ pc' = "restart" /\ changesLeft > 0
          /\ changesLeft' = changesLeft - 1 /\ ChangeEdge(a, b, cost)
      BY <3>1 DEF ApplyChange
    <3>3. Links' = WithLink(Links, a, b, cost)
      BY <1>2, <3>1, <3>2, ChangedLinks DEF Inv, LinkStateTypeOK
    <3>4. Reported # <<>> /\ Reported' = <<>>
      <4>1. Reported # <<>>
        BY <1>2, <3>2 DEF CostsReported
      <4> QED
        BY <3>2, <4>1 DEF Reported
    <3>5. cost \in Costs \cup {R!NoLink} /\ Links' = R!WithLink(Links, a, b, cost)
      BY <3>3, RoutingDefinitions
    <3>6. R!Change
      BY <3>1, <3>2, <3>4, <3>5 DEF R!Change
    <3> QED
      BY <3>6 DEF R!Next
  <2> QED
    BY <1>2, <2>1, <2>2, <2>3, <2>4 DEF Next, Done
<1> QED
  BY <1>1, <1>2, InvHolds, InvReported, PTL DEF Spec, ImplementsRouting, R!Spec
-----------------------------------------------------------------------------
(* The predecessors and the tables                                         *)

\* The predecessor of a node is the smallest of the finished nodes that offer
\* its distance.
SmallestSoFar(g, s, F, D, P) ==
  \A v \in DOMAIN P \ {s} :
    /\ D[v] < INFINI
    /\ P[v] \in F \cap DOMAIN g[v] /\ D[P[v]] + g[v][P[v]] = D[v]
    /\ \A u \in F \cap DOMAIN g[v] : D[u] + g[v][u] = D[v] => P[v] <= u

PredsSmallest ==
  pc \in {"dijkstra", "table"} =>
    SmallestSoFar(Links, source, finishedNodes, dists, preds)

LEMMA SmallestAtStart ==
  ASSUME GraphOK, vertices = Nodes, NEW s \in Nodes,
         NEW D, D = [v \in vertices |-> IF v = s THEN 0
                                        ELSE IF v \in GetNeighbors(s) THEN GetEdgeWeight(s, v)
                                        ELSE INFINI],
         NEW P, P = [v \in {s} \cup GetNeighbors(s) |-> s]
  PROVE  SmallestSoFar(Links, s, {s}, D, P)
<1>1. /\ IsGraph(Links) /\ DOMAIN Links[s] = GetNeighbors(s)
      /\ \A m \in GetNeighbors(s) : Links[s][m] = GetEdgeWeight(s, m)
  BY LinksProperties
<1>2. ASSUME NEW v \in GetNeighbors(s)
      PROVE  /\ v \in Nodes /\ v # s /\ s \in DOMAIN Links[v] /\ Links[v][s] = Links[s][v]
             /\ Links[s][v] \in Nat /\ Links[s][v] < INFINI
  <2>1. Links[s][v] \in Costs
    BY <1>1, NeighborMap
  <2> QED
    BY <1>1, <2>1, GraphProperties, LinkStateAssumption
<1>3. ASSUME NEW v \in GetNeighbors(s)
      PROVE  P[v] = s /\ D[s] = 0 /\ D[v] = Links[s][v]
  BY <1>1, <1>2
<1>4. \A v \in DOMAIN P \ {s} : v \in GetNeighbors(s)
  OBVIOUS
<1>5. ASSUME NEW v \in GetNeighbors(s)
      PROVE  /\ D[v] < INFINI
             /\ P[v] \in {s} \cap DOMAIN Links[v] /\ D[P[v]] + Links[v][P[v]] = D[v]
             /\ \A u \in {s} \cap DOMAIN Links[v] : P[v] <= u
  BY <1>2, <1>3, TopologyAssumption
<1> QED
  BY <1>4, <1>5 DEF SmallestSoFar

\* A pass of the loop: the node finished joins those that offer the distance of
\* a neighbour, or is the only one that offers the new, smaller distance.
LEMMA SmallestStep ==
  ASSUME Inv, PredsSmallest, FinishNode
  PROVE  PredsSmallest'
<1> DEFINE g == Links
           s == Nearest
           F == finishedNodes
           D == dists
           E == dists'
           P == preds
<1>1. /\ F \subseteq Nodes /\ D \in [Nodes -> 0 .. INFINI]
      /\ Nearer(g, source, F, D) /\ source \in Nodes
      /\ s \in Nodes \ F /\ \A u \in Nodes \ F : D[s] <= D[u]
      /\ IsGraph(g) /\ pc = "dijkstra"
  BY FinishNodeStep
<1>2. /\ finishedNodes' = F \cup {s}
      /\ preds' = [v \in DOMAIN P \cup Closer(s) |-> IF v \in Closer(s) THEN s ELSE P[v]]
      /\ UNCHANGED <<graphVars, source, pc>>
  BY FinishNodeStep
<1>3. \A v \in Nodes : E[v] = IF v \in DOMAIN g[s] /\ D[s] + g[s][v] < D[v]
                              THEN D[s] + g[s][v] ELSE D[v]
  BY FinishNodeStep
<1>4. /\ \A v \in Nodes : v \in Closer(s) <=>
           /\ v \in DOMAIN g[s]
           /\ D[s] + g[s][v] <= D[v] /\ D[s] + g[s][v] < INFINI
           /\ ~ (v \in DOMAIN P /\ P[v] <= s /\ D[s] + g[s][v] = D[v])
      /\ Closer(s) \subseteq Nodes
  BY FinishNodeStep
<1>5. /\ SmallestSoFar(g, source, F, D, P)
      /\ DOMAIN P \subseteq Nodes /\ P \in [DOMAIN P -> Nodes]
      /\ \A v \in Nodes : D[v] < INFINI => v \in DOMAIN P
  BY <1>1 DEF Inv, LinkStateTypeOK, PredsOK, PredsSmallest
<1>6. Links' = g
  BY <1>2 DEF Links, graphVars, GetNeighbors, GetEdgeWeight
<1> HIDE DEF g, s, D, E, F, P
<1>7. \A u \in Nodes : \A v \in DOMAIN g[u] :
        /\ v \in Nodes /\ v # u /\ g[u][v] \in Nat /\ g[u][v] >= 1
        /\ u \in DOMAIN g[v] /\ g[v][u] = g[u][v]
  BY <1>1, GraphProperties
<1>8. /\ \A v \in Nodes : D[v] \in Nat /\ D[v] <= INFINI
      /\ INFINI \in Nat /\ Nodes \subseteq Nat
  BY <1>1, TopologyAssumption
<1>9. /\ \A u \in F : \A v \in Nodes \ F : D[u] <= D[v]
      /\ \A u \in F : \A v \in DOMAIN g[u] : D[v] <= D[u] + g[u][v]
  BY <1>1 DEF Nearer
<1>10. \A u \in F \cup {s} : E[u] = D[u]
  <2>1. ASSUME NEW u \in F, u \in DOMAIN g[s] PROVE ~ (D[s] + g[s][u] < D[u])
    <3>1. D[u] <= D[s] /\ g[s][u] \in Nat
      BY <1>1, <1>7, <1>9, <2>1
    <3> QED
      BY <1>1, <1>8, <3>1
  <2>2. s \notin DOMAIN g[s]
    BY <1>1, <1>7
  <2> QED
    BY <1>1, <1>3, <2>1, <2>2
<1>11. ASSUME NEW v \in (DOMAIN P \cup Closer(s)) \ {source}
       PROVE  /\ E[v] < INFINI
              /\ preds'[v] \in (F \cup {s}) \cap DOMAIN g[v]
              /\ E[preds'[v]] + g[v][preds'[v]] = E[v]
              /\ \A u \in (F \cup {s}) \cap DOMAIN g[v] :
                   E[u] + g[v][u] = E[v] => preds'[v] <= u
  <2>0. v \in Nodes /\ s \in Nodes /\ D[v] \in Nat /\ D[s] \in Nat /\ INFINI \in Nat
    BY <1>1, <1>4, <1>5, <1>8
  <2>1. CASE v \in Closer(s)
    <3>1. /\ v \in DOMAIN g[s] /\ g[s][v] \in Nat /\ g[v][s] = g[s][v] /\ s \in DOMAIN g[v]
          /\ D[s] + g[s][v] <= D[v] /\ D[s] + g[s][v] < INFINI
          /\ ~ (v \in DOMAIN P /\ P[v] <= s /\ D[s] + g[s][v] = D[v])
      BY <1>1, <1>4, <1>7, <2>0, <2>1
    <3>2. E[v] = D[s] + g[v][s] /\ preds'[v] = s
      <4>1. E[v] = IF D[s] + g[v][s] < D[v] THEN D[s] + g[v][s] ELSE D[v]
        BY <1>3, <2>0, <3>1
      <4>2. E[v] = D[s] + g[v][s]
        BY <2>0, <3>1, <4>1
      <4> QED
        BY <1>2, <2>1, <4>2
    <3>3. ASSUME NEW u \in F \cap DOMAIN g[v], D[u] + g[v][u] = E[v] PROVE s <= u
      <4>1. u \in Nodes /\ v \in DOMAIN g[u] /\ g[u][v] = g[v][u]
        BY <1>1, <1>7, <2>0
      <4>2. D[v] <= D[u] + g[u][v]
        BY <1>9, <4>1
      <4>3. E[v] = D[v] /\ D[v] < INFINI
        <5>1. D[v] <= E[v] /\ E[v] <= D[v] /\ E[v] \in Nat /\ E[v] < INFINI
          BY <2>0, <3>1, <3>2, <3>3, <4>1, <4>2
        <5> QED
          BY <2>0, <5>1
      <4>4. v \in DOMAIN P /\ ~ (P[v] <= s)
        BY <1>5, <2>0, <3>1, <3>2, <4>3
      <4>5. P[v] <= u /\ P[v] \in Nodes
        BY <1>5, <3>3, <4>3, <4>4 DEF SmallestSoFar
      <4> QED
        BY <1>1, <1>8, <4>1, <4>4, <4>5
    <3>4. E[v] < INFINI
      BY <3>1, <3>2
    <3>5. E[s] = D[s] /\ \A u \in F : E[u] = D[u]
      BY <1>10
    <3>6. \A u \in (F \cup {s}) \cap DOMAIN g[v] : E[u] + g[v][u] = E[v] => s <= u
      BY <1>8, <2>0, <3>3, <3>5
    <3> QED
      BY <3>1, <3>2, <3>4, <3>5, <3>6
  <2>2. CASE v \notin Closer(s)
    <3>1. /\ v \in DOMAIN P /\ preds'[v] = P[v] /\ P[v] \in Nodes /\ D[v] < INFINI
          /\ P[v] \in F \cap DOMAIN g[v] /\ D[P[v]] + g[v][P[v]] = D[v]
          /\ \A u \in F \cap DOMAIN g[v] : D[u] + g[v][u] = D[v] => P[v] <= u
      BY <1>2, <1>5, <2>2 DEF SmallestSoFar
    <3>2. ASSUME s \in DOMAIN g[v], D[s] + g[v][s] <= D[v]
          PROVE  P[v] <= s /\ D[s] + g[v][s] = D[v]
      <4>1. v \in DOMAIN g[s] /\ g[v][s] = g[s][v] /\ g[s][v] \in Nat
        BY <1>7, <2>0, <3>2
      <4>2. D[s] + g[s][v] < INFINI
        <5>1. D[s] + g[s][v] <= D[v] /\ D[v] < INFINI /\ g[s][v] \in Nat
          BY <3>1, <3>2, <4>1
        <5> QED
          BY <2>0, <5>1
      <4> QED
        BY <1>4, <2>0, <2>2, <3>2, <4>1, <4>2
    <3>3. E[v] = D[v]
      <4>1. v \in DOMAIN g[s] => s \in DOMAIN g[v] /\ g[v][s] = g[s][v] /\ g[s][v] \in Nat
        BY <1>1, <1>7
      <4> QED
        BY <1>1, <1>3, <1>8, <2>0, <3>2, <4>1
    <3>4. ASSUME s \in DOMAIN g[v], D[s] + g[v][s] = D[v] PROVE P[v] <= s
      BY <1>8, <2>0, <3>2, <3>4
    <3> QED
      BY <1>10, <3>1, <3>3, <3>4
  <2> QED
    BY <2>1, <2>2
<1>12. SmallestSoFar(g, source, F \cup {s}, E, preds')
  <2>1. DOMAIN preds' = DOMAIN P \cup Closer(s)
    BY <1>2
  <2> QED
    BY <1>11, <2>1 DEF SmallestSoFar
<1> QED
  BY <1>2, <1>6, <1>12 DEF PredsSmallest, E

LEMMA InitPreds == Init => PredsSmallest
<1> SUFFICES ASSUME Init PROVE PredsSmallest
  OBVIOUS
<1>1. GraphOK /\ vertices = Nodes /\ source \in Nodes
  BY InitInv DEF Inv, LinkStateTypeOK
<1>2. /\ dists = [v \in vertices |-> IF v = source THEN 0
                           ELSE IF v \in GetNeighbors(source) THEN GetEdgeWeight(source, v)
                           ELSE INFINI]
      /\ preds = [v \in {source} \cup GetNeighbors(source) |-> source]
      /\ finishedNodes = {source}
  BY <1>1 DEF Init
<1> QED
  BY <1>1, <1>2, SmallestAtStart DEF PredsSmallest

\* The same for a start of dijkstra() in a step.
LEMMA RestartPreds ==
  ASSUME Inv, UNCHANGED graphVars, NEW s \in Nodes, DijkstraFrom(s)
  PROVE  PredsSmallest'
<1>1. vertices = Nodes /\ GraphOK /\ Links' = Links
  BY SameGraph DEF Inv, LinkStateTypeOK
<1>2. SmallestSoFar(Links, s, {s}, dists', preds')
  BY <1>1, SmallestAtStart DEF DijkstraFrom
<1> QED
  BY <1>1, <1>2 DEF PredsSmallest, DijkstraFrom, FirstFinished

LEMMA PredsStep ==
  ASSUME Inv, PredsSmallest, [Next]_vars
  PROVE  PredsSmallest'
<1>1. CASE FinishNode
  BY <1>1, SmallestStep
<1>2. CASE \/ StartTable \/ StepBack \/ RouteMessage \/ RouteBack \/ Routed \/ Finish
           \/ UNCHANGED vars
  <2>1. UNCHANGED <<graphVars, dijkstraVars>>
        /\ (pc' \in {"dijkstra", "table"} => pc \in {"dijkstra", "table"})
    BY <1>2 DEF StartTable, StepBack, RouteMessage, RouteBack, Routed, Finish, vars
  <2>2. Links' = Links
    BY <2>1, SameGraph
  <2> QED
    BY <2>1, <2>2 DEF PredsSmallest, dijkstraVars
<1>3. CASE WriteEntry
  <2> DEFINE sources == {s \in vertices : s > source}
             s == SetMin(sources)
  <2>1. vertices = Nodes /\ pc = "table" /\ UNCHANGED graphVars
    BY <1>3 DEF Inv, LinkStateTypeOK, WriteEntry
  <2>2. CASE UNCHANGED dijkstraVars
    BY <2>1, <2>2, SameGraph DEF PredsSmallest, dijkstraVars
  <2>3. CASE sources # {} /\ DijkstraFrom(s)
    <3>1. s \in Nodes
      BY <2>1, <2>3, SetMinProperties, TopologyAssumption
    <3> HIDE DEF s
    <3> QED
      BY <2>1, <2>3, <3>1, RestartPreds
  <2> QED
    BY <1>3, <2>2, <2>3 DEF WriteEntry
<1>4. CASE Restart
  BY <1>4, RestartPreds, FirstSource DEF Restart, Inv, LinkStateTypeOK
<1>5. CASE \E a, b \in Nodes, cost \in Costs \cup {NoLink} : a # b /\ ApplyChange(a, b, cost)
  BY <1>5 DEF ApplyChange, PredsSmallest
<1> QED
  BY <1>1, <1>2, <1>3, <1>4, <1>5 DEF Next, Done

LEMMA PredsHold == Spec => []PredsSmallest
<1>1. Inv /\ PredsSmallest /\ [Next]_vars => PredsSmallest'
  BY PredsStep
<1> QED
  BY <1>1, InitPreds, InvHolds, PTL DEF Spec

\* Ties are broken by the smaller predecessor, whatever the order in which the
\* nodes were finished: a predecessor is the smallest of all neighbours on
\* shortest paths, not of those the loop happened to compare.
THEOREM TieBreak == Spec => []SmallestPredecessor
<1>1. Inv /\ PredsSmallest => SmallestPredecessor
  <2> SUFFICES ASSUME Inv, PredsSmallest, pc = "table", NEW v \in DOMAIN preds \ {source}
               PROVE  preds[v] = SetMin({u \in GetNeighbors(v) :
                         dists[u] < INFINI /\ dists[u] + GetEdgeWeight(u, v) = dists[v]})
    BY DEF SmallestPredecessor
  <2> DEFINE S == {u \in GetNeighbors(v) :
                     dists[u] < INFINI /\ dists[u] + GetEdgeWeight(u, v) = dists[v]}
             p == preds[v]
             least == SetMin(S)
  <2>1. /\ vertices = Nodes /\ GraphOK /\ finishedNodes = Nodes /\ v \in Nodes
        /\ dists \in [Nodes -> 0 .. INFINI]
        /\ SmallestSoFar(Links, source, Nodes, dists, preds)
    BY DEF Inv, LinkStateTypeOK, Distances, Running, PredsSmallest
  <2>2. /\ IsGraph(Links) /\ DOMAIN Links[v] = GetNeighbors(v)
        /\ \A u \in GetNeighbors(v) : /\ u \in Nodes /\ Links[v][u] \in Nat
                                      /\ Links[v][u] >= 1
                                      /\ GetEdgeWeight(u, v) = Links[v][u]
    <3>1. IsGraph(Links) /\ DOMAIN Links[v] = GetNeighbors(v)
      BY <2>1, LinksProperties
    <3>2. ASSUME NEW u \in GetNeighbors(v)
          PROVE  /\ u \in Nodes /\ Links[v][u] \in Nat /\ Links[v][u] >= 1
                 /\ GetEdgeWeight(u, v) = Links[v][u]
      <4>1. /\ u \in Nodes /\ v \in DOMAIN Links[u] /\ Links[v][u] \in Nat
            /\ Links[v][u] >= 1 /\ Links[u][v] = Links[v][u]
        BY <2>1, <3>1, GraphProperties
      <4> QED
        BY <2>1, <4>1, LinksProperties
    <3> QED
      BY <3>1, <3>2
  <2>3. /\ dists[v] < INFINI /\ p \in GetNeighbors(v)
        /\ dists[p] + Links[v][p] = dists[v]
        /\ \A u \in Nodes \cap GetNeighbors(v) : dists[u] + Links[v][u] = dists[v] => p <= u
    BY <2>1, <2>2 DEF SmallestSoFar
  <2>4. INFINI \in Nat /\ Nodes \subseteq Nat /\ \A u \in Nodes : dists[u] \in Nat
    BY <2>1, TopologyAssumption
  <2>5. p \in S
    <3>1. p \in Nodes /\ dists[p] \in Nat /\ dists[v] \in Nat /\ Links[v][p] \in Nat
      BY <2>1, <2>2, <2>3, <2>4
    <3>2. dists[p] < INFINI
      BY <2>3, <2>4, <3>1
    <3> QED
      BY <2>2, <2>3, <3>2
  <2>6. \A u \in S : u \in Nodes /\ p <= u
    BY <2>2, <2>3
  <2> HIDE DEF S, p
  <2>7. S \subseteq Nat /\ S # {}
    BY <2>4, <2>5, <2>6
  <2>8. least \in S /\ \A u \in S : least <= u
    BY <2>7, SetMinProperties
  <2> HIDE DEF least
  <2>9. p <= least /\ least <= p /\ p \in Nat /\ least \in Nat
    BY <2>5, <2>6, <2>7, <2>8
  <2>10. p = least
    BY <2>9
  <2> QED
    BY <2>10 DEF p, least, S
<1> QED
  BY <1>1, InvHolds, PredsHold, PTL

\* The distances found for one source are the costs of the cheapest paths, from
\* the source and to it.
LEMMA OneColumn ==
  ASSUME NEW g, IsGraph(g), NEW s \in Nodes, NEW D, ToNode(g, s, D)
  PROVE  \A v \in Nodes : /\ ShortestCosts(g)[v][s] = D[v]
                          /\ ShortestCosts(g)[s][v] = D[v]
<1> DEFINE C == ShortestCosts(g)
           E == [n \in Nodes |-> [d \in Nodes |-> IF d = s THEN D[n] ELSE C[n][d]]]
<1>1. Solves(g, C)
  BY ShortestSolves
<1> HIDE DEF C
<1>2. C \in [Nodes -> [Nodes -> 0 .. INFINI]] /\ D \in [Nodes -> 0 .. INFINI]
  BY <1>1 DEF Solves, ToNode
<1>3. E \in [Nodes -> [Nodes -> 0 .. INFINI]]
      /\ \A n, d \in Nodes : E[n][d] = IF d = s THEN D[n] ELSE C[n][d]
  BY <1>2
<1> HIDE DEF E
<1>4. ASSUME NEW n \in Nodes, NEW d \in Nodes
      PROVE  IF n = d THEN E[n][d] = 0
             ELSE /\ \A m \in DOMAIN g[n] : E[n][d] <= g[n][m] + E[m][d]
                  /\ \/ E[n][d] = INFINI
                     \/ \E m \in DOMAIN g[n] : E[n][d] = g[n][m] + E[m][d]
  <2>1. DOMAIN g[n] \subseteq Nodes
    BY NeighborMap
  <2>2. CASE d = s
    BY <1>3, <2>1, <2>2 DEF ToNode
  <2>3. CASE d # s
    BY <1>1, <1>3, <2>1, <2>3 DEF Solves
  <2> QED
    BY <2>2, <2>3
<1>5. Solves(g, E)
  BY <1>3, <1>4 DEF Solves
<1>6. E = C
  BY <1>1, <1>5, OneSolution
<1>7. C = Transposed(C)
  BY <1>1, SymmetricSolution
<1>8. \A v \in Nodes : C[s][v] = C[v][s]
  <2>1. \A v \in Nodes : Transposed(C)[s][v] = C[v][s]
    BY DEF Transposed
  <2> QED
    BY <1>7, <2>1
<1> QED
  BY <1>3, <1>6, <1>8 DEF C

\* Forwarding to the neighbour hop is on a shortest path from s to d.
OnPath(g, s, hop, d) ==
  /\ hop \in DOMAIN g[s]
  /\ ShortestCosts(g)[s][d] = g[s][hop] + ShortestCosts(g)[hop][d]

\* What is written in the tables is, and outputTable walks on a shortest path.
TablesOnPath ==
  \A s, d \in Nodes :
    <<s, d>> \in DOMAIN table /\ s # d => OnPath(Links, s, table[<<s, d>>], d)

WalkOnPath ==
  LET C == ShortestCosts(Links)
  IN  pc = "table" /\ walk.dest # source =>
        /\ walk.at # source
        /\ C[source][walk.dest] = C[source][walk.at] + C[walk.at][walk.dest]

\* The facts about a walk of outputTable: where it is lies behind its
\* predecessor on a shortest path from the source.
LEMMA WalkFacts ==
  ASSUME Inv, PredsSmallest, pc = "table",
         NEW v \in DOMAIN preds, v # source, NEW C, C = ShortestCosts(Links)
  PROVE  /\ IsGraph(Links) /\ Solves(Links, C)
         /\ v \in Nodes /\ preds[v] \in Nodes
         /\ v \in DOMAIN Links[preds[v]]
         /\ C[source][v] = C[source][preds[v]] + Links[preds[v]][v]
         /\ C[source][source] = 0
<1>1. /\ vertices = Nodes /\ GraphOK /\ finishedNodes = Nodes /\ source \in Nodes
      /\ v \in Nodes /\ Nearer(Links, source, Nodes, dists)
      /\ SmallestSoFar(Links, source, Nodes, dists, preds)
  BY DEF Inv, LinkStateTypeOK, Running, PredsSmallest
<1>2. IsGraph(Links)
  BY <1>1, LinksProperties
<1>3. ToNode(Links, source, dists)
  BY <1>1, <1>2, NearerEnd
<1>4. \A u \in Nodes : C[source][u] = dists[u]
  BY <1>1, <1>2, <1>3, OneColumn
<1>5. preds[v] \in Nodes \cap DOMAIN Links[v] /\ dists[preds[v]] + Links[v][preds[v]] = dists[v]
  BY <1>1 DEF SmallestSoFar
<1>6. v \in DOMAIN Links[preds[v]] /\ Links[preds[v]][v] = Links[v][preds[v]]
  BY <1>1, <1>2, <1>5, GraphProperties
<1>7. Solves(Links, C)
  BY <1>2, ShortestSolves
<1> QED
  BY <1>1, <1>2, <1>3, <1>4, <1>5, <1>6, <1>7 DEF ToNode

LEMMA WalkStep ==
  ASSUME Inv, PredsSmallest, WalkOnPath, StepBack
  PROVE  WalkOnPath'
<1> DEFINE C == ShortestCosts(Links)
           s == source
           d == walk.dest
           v == walk.at
           p == preds[v]
<1>1. /\ pc = "table" /\ pc' = "table" /\ p # s /\ walk' = [walk EXCEPT !.at = p]
      /\ UNCHANGED <<graphVars, source>>
      /\ walk \in [dest : DOMAIN preds, at : DOMAIN preds]
      /\ DOMAIN preds \subseteq Nodes /\ s \in Nodes
  BY DEF StepBack, dijkstraVars, Inv, LinkStateTypeOK, Running
<1>2. walk'.dest = d /\ walk'.at = p /\ source' = s /\ Links' = Links
      /\ v \in DOMAIN preds /\ d \in Nodes
  BY <1>1, SameGraph
<1>3. CASE d = s
  BY <1>2, <1>3 DEF WalkOnPath
<1>4. CASE d # s
  <2>1. v # s /\ C[s][d] = C[s][v] + C[v][d]
    BY <1>1, <1>4 DEF WalkOnPath
  <2>2. /\ IsGraph(Links) /\ Solves(Links, C) /\ v \in Nodes /\ p \in Nodes
        /\ v \in DOMAIN Links[p] /\ C[s][v] = C[s][p] + Links[p][v]
    BY <1>1, <1>2, <2>1, WalkFacts
  <2>3. Links[p][v] \in Nat
    BY <2>2, GraphProperties
  <2> HIDE DEF C, d, v, p, s
  <2>4. C[s][d] <= C[s][p] + C[p][d]
    BY <1>1, <1>2, <2>2, Triangle
  <2>5. /\ C[s][d] \in Nat /\ C[s][p] \in Nat /\ C[p][d] \in Nat /\ C[v][d] \in Nat
        /\ C[s][v] \in Nat
    BY <1>1, <1>2, <2>2, TopologyAssumption DEF Solves
  <2>6. C[p][d] <= Links[p][v] + C[v][d]
    <3>1. p = d => C[p][d] = 0
      BY <1>2, <2>2 DEF Solves
    <3>2. p # d => C[p][d] <= Links[p][v] + C[v][d]
      BY <1>2, <2>2 DEF Solves
    <3> QED
      BY <2>3, <2>5, <3>1, <3>2
  <2>7. C[s][d] = C[s][p] + C[p][d]
    BY <2>1, <2>2, <2>3, <2>4, <2>5, <2>6
  <2>8. p # s
    BY <1>1
  <2> QED
    BY <1>2, <2>7, <2>8 DEF WalkOnPath, C
<1> QED
  BY <1>3, <1>4

\* A walk that begins at its destination.
LEMMA WalkBegins ==
  ASSUME NEW g, IsGraph(g), NEW s \in Nodes, NEW d \in Nodes
  PROVE  ShortestCosts(g)[s][d] = ShortestCosts(g)[s][d] + ShortestCosts(g)[d][d]
<1> DEFINE C == ShortestCosts(g)
<1>1. Solves(g, C)
  BY ShortestSolves
<1> HIDE DEF C
<1>2. C[d][d] = 0 /\ C[s][d] \in Nat
  BY <1>1, TopologyAssumption DEF Solves
<1>3. C[s][d] = C[s][d] + C[d][d]
  BY <1>2
<1> QED
  BY <1>3 DEF C

LEMMA WriteOnPath ==
  ASSUME Inv, PredsSmallest, WalkOnPath, TablesOnPath, WriteEntry
  PROVE  WalkOnPath' /\ TablesOnPath'
<1>1. /\ pc = "table" /\ preds[walk.at] = source /\ source \in Nodes
      /\ UNCHANGED graphVars
      /\ walk \in [dest : DOMAIN preds, at : DOMAIN preds]
      /\ DOMAIN preds \subseteq Nodes
      /\ table' = With(table, <<source, walk.dest>>, walk.at)
  BY DEF WriteEntry, Inv, LinkStateTypeOK, Running
<1>2. Links' = Links /\ vertices = Nodes /\ GraphOK
  BY <1>1, SameGraph DEF Inv, LinkStateTypeOK
<1>3. IsGraph(Links)
  BY <1>2, LinksProperties
<1>4. walk.dest # source => OnPath(Links, source, walk.at, walk.dest)
  <2> DEFINE C == ShortestCosts(Links)
  <2> SUFFICES ASSUME walk.dest # source PROVE OnPath(Links, source, walk.at, walk.dest)
    OBVIOUS
  <2>1. walk.at # source /\ C[source][walk.dest] = C[source][walk.at] + C[walk.at][walk.dest]
    BY <1>1 DEF WalkOnPath
  <2>2. walk.at \in DOMAIN preds
    BY <1>1
  <2>3. /\ walk.at \in DOMAIN Links[source] /\ C[source][source] = 0
        /\ C[source][walk.at] = C[source][source] + Links[source][walk.at]
    BY <1>1, <2>1, <2>2, WalkFacts
  <2>4. Links[source][walk.at] \in Nat
    BY <1>1, <1>3, <2>3, GraphProperties
  <2>5. C[source][walk.at] = Links[source][walk.at]
    BY <2>3, <2>4
  <2> QED
    BY <2>1, <2>3, <2>5 DEF OnPath
<1>5. TablesOnPath'
  <2>1. ASSUME NEW s \in Nodes, NEW d \in Nodes, <<s, d>> \in DOMAIN table', s # d
        PROVE  OnPath(Links, s, table'[<<s, d>>], d)
    <3>1. CASE <<s, d>> = <<source, walk.dest>>
      <4>1. With(table, <<source, walk.dest>>, walk.at)[<<source, walk.dest>>] = walk.at
        BY DEF With
      <4>2. s = source /\ d = walk.dest
        BY <3>1
      <4>3. table'[<<s, d>>] = walk.at
        BY <1>1, <3>1, <4>1
      <4> QED
        BY <1>4, <2>1, <4>2, <4>3
    <3>2. CASE <<s, d>> # <<source, walk.dest>>
      <4>1. <<s, d>> \in DOMAIN table /\ table'[<<s, d>>] = table[<<s, d>>]
        BY <1>1, <2>1, <3>2 DEF With
      <4> QED
        BY <2>1, <4>1 DEF TablesOnPath
    <3> QED
      BY <3>1, <3>2
  <2> QED
    BY <1>2, <2>1 DEF TablesOnPath
<1>6. WalkOnPath'
  <2> SUFFICES ASSUME pc' = "table", walk'.dest # source'
               PROVE  LET C == ShortestCosts(Links)
                      IN  /\ walk'.at # source'
                          /\ C[source'][walk'.dest]
                               = C[source'][walk'.at] + C[walk'.at][walk'.dest]
    BY <1>2 DEF WalkOnPath
  <2> DEFINE dests == {d \in DOMAIN preds : d > walk.dest}
             next == SetMin(dests)
  <2>1. dests # {} /\ walk' = WalkFrom(next) /\ UNCHANGED dijkstraVars
    BY DEF WriteEntry
  <2>2. next \in Nodes
    BY <1>1, <2>1, SetMinProperties, TopologyAssumption
  <2> HIDE DEF next
  <2>3. walk'.dest = next /\ walk'.at = next /\ source' = source
    BY <2>1 DEF WalkFrom, dijkstraVars
  <2> QED
    BY <1>1, <1>3, <2>2, <2>3, WalkBegins
<1> QED
  BY <1>5, <1>6

LEMMA TablesStep ==
  ASSUME Inv, PredsSmallest, WalkOnPath, TablesOnPath, [Next]_vars
  PROVE  WalkOnPath' /\ TablesOnPath'
<1>1. CASE WriteEntry
  BY <1>1, WriteOnPath
<1>2. CASE StepBack
  <2>1. UNCHANGED <<graphVars, table>>
    BY <1>2 DEF StepBack
  <2> QED
    BY <1>2, <2>1, WalkStep, SameGraph DEF TablesOnPath
<1>3. CASE StartTable
  <2>1. /\ UNCHANGED <<graphVars, table, source>> /\ walk' = WalkFrom(SetMin(DOMAIN preds))
        /\ DOMAIN preds \subseteq Nodes /\ source \in DOMAIN preds
    BY <1>3 DEF StartTable, dijkstraVars, Inv, LinkStateTypeOK, PredsOK
  <2>2. Links' = Links /\ IsGraph(Links)
    BY <2>1, SameGraph, LinksProperties DEF Inv, LinkStateTypeOK
  <2> DEFINE d == SetMin(DOMAIN preds)
  <2>3. d \in Nodes /\ source \in Nodes
    BY <2>1, SetMinProperties, TopologyAssumption
  <2> HIDE DEF d
  <2>4. walk'.dest = d /\ walk'.at = d
    BY <2>1 DEF WalkFrom, d
  <2>5. WalkOnPath'
    BY <2>1, <2>2, <2>3, <2>4, WalkBegins DEF WalkOnPath
  <2> QED
    BY <2>1, <2>2, <2>5 DEF TablesOnPath
<1>4. CASE FinishNode \/ Restart \/ RouteMessage \/ RouteBack \/ Routed \/ Finish
  <2>1. UNCHANGED <<graphVars, table>> /\ pc' # "table"
    BY <1>4 DEF FinishNode, Restart, RouteMessage, RouteBack, Routed, Finish
  <2> QED
    BY <2>1, SameGraph DEF TablesOnPath, WalkOnPath
<1>5. CASE \E a, b \in Nodes, cost \in Costs \cup {NoLink} : a # b /\ ApplyChange(a, b, cost)
  <2>1. table' = NoResults /\ pc' # "table"
    BY <1>5 DEF ApplyChange
  <2>2. DOMAIN NoResults = {}
    BY DEF NoResults
  <2> QED
    BY <2>1, <2>2 DEF TablesOnPath, WalkOnPath
<1>6. CASE UNCHANGED vars
  <2>1. UNCHANGED <<graphVars, table, walk, source, pc>>
    BY <1>6 DEF vars, dijkstraVars
  <2> QED
    BY <2>1, SameGraph DEF TablesOnPath, WalkOnPath
<1> QED
  BY <1>1, <1>2, <1>3, <1>4, <1>5, <1>6 DEF Next, Done

\* The tables of nodes whose runs of dijkstra() know nothing of each other fit
\* together: every entry leads to a neighbour that is nearer by the cost of the
\* link, so that forwarding hop by hop follows a shortest path.
THEOREM TablesFitTogether == Spec => []TablesLeadToDestination
<1>1. Init => WalkOnPath /\ TablesOnPath
  <2>1. DOMAIN NoResults = {}
    BY DEF NoResults
  <2> QED
    BY <2>1 DEF Init, WalkOnPath, TablesOnPath
<1>2. Inv /\ PredsSmallest /\ WalkOnPath /\ TablesOnPath /\ [Next]_vars
        => WalkOnPath' /\ TablesOnPath'
  BY TablesStep
<1>3. Inv /\ TablesOnPath => TablesLeadToDestination
  <2> SUFFICES ASSUME Inv, TablesOnPath, pc = "messages", NEW s \in Nodes, NEW d \in Nodes,
                      <<s, d>> \in DOMAIN table, s # d
               PROVE  LET hop == table[<<s, d>>]
                      IN  /\ hop \in GetNeighbors(s)
                          /\ dijkstraMap[s].dists[d]
                               = GetEdgeWeight(s, hop) + dijkstraMap[hop].dists[d]
    BY DEF TablesLeadToDestination
  <2> DEFINE hop == table[<<s, d>>]
             C == ShortestCosts(Links)
  <2>1. /\ IsGraph(Links) /\ DOMAIN Links[s] = GetNeighbors(s)
        /\ \A m \in GetNeighbors(s) : Links[s][m] = GetEdgeWeight(s, m)
    BY LinksProperties DEF Inv, LinkStateTypeOK
  <2>2. hop \in DOMAIN Links[s] /\ C[s][d] = Links[s][hop] + C[hop][d]
    BY DEF TablesOnPath, OnPath
  <2>3. hop \in Nodes
    BY <2>1, <2>2, GraphProperties
  <2>4. \A n \in Nodes : C[n] = dijkstraMap[n].dists
    <3>1. Reported = C
      BY InvReported DEF CostsReported
    <3>2. \A n \in Nodes : Reported[n] = dijkstraMap[n].dists
      BY DEF Reported
    <3> QED
      BY <3>1, <3>2
  <2> HIDE DEF hop, C
  <2>5. /\ hop \in GetNeighbors(s)
        /\ dijkstraMap[s].dists[d] = GetEdgeWeight(s, hop) + dijkstraMap[hop].dists[d]
    BY <2>1, <2>2, <2>3, <2>4
  <2> QED
    BY <2>5 DEF hop
<1> QED
  BY <1>1, <1>2, <1>3, InvHolds, PredsHold, PTL DEF Spec
=============================================================================
