--------------------------- MODULE TopologyProofs ---------------------------
(***************************************************************************)
(* Facts about the graphs of mp3 and about the costs of routes in them     *)
(* that do not depend on how a program computes these.                     *)
(***************************************************************************)
EXTENDS Topology, NatSets, FiniteSetTheorems

LEMMA GraphProperties ==
  ASSUME NEW links, IsGraph(links), NEW n \in Nodes, NEW m \in DOMAIN links[n]
  PROVE  /\ m \in Nodes /\ m # n /\ n \in DOMAIN links[m]
         /\ links[n][m] \in Nat /\ links[n][m] >= 1
         /\ links[m][n] = links[n][m]
<1>1. PICK S \in SUBSET Nodes : links[n] \in [S -> Costs]
  BY DEF IsGraph
<1>2. m \in Nodes /\ links[n][m] \in Costs
  BY <1>1
<1>3. \A c \in Costs : c \in Nat /\ c >= 1
  BY TopologyAssumption
<1>4. links[n][m] \in Nat /\ links[n][m] >= 1
  BY <1>2, <1>3
<1>5. m # n /\ n \in DOMAIN links[m] /\ links[m][n] = links[n][m]
  BY DEF IsGraph
<1> QED
  BY <1>2, <1>4, <1>5

LEMMA NeighborMap ==
  ASSUME NEW links, IsGraph(links), NEW n \in Nodes
  PROVE  /\ DOMAIN links[n] \subseteq Nodes
         /\ links[n] \in [DOMAIN links[n] -> Costs]
<1>1. PICK S \in SUBSET Nodes : links[n] \in [S -> Costs]
  BY DEF IsGraph
<1> QED
  BY <1>1

\* setNeighbor on one side changes nothing but the entry of that neighbour.
LEMMA WithNeighborMap ==
  ASSUME NEW links, IsGraph(links), NEW n \in Nodes, NEW m \in Nodes,
         NEW cost \in Costs \cup {NoLink}
  PROVE  /\ \A k : k \in DOMAIN WithNeighbor(links[n], m, cost) <=>
                  \/ k \in DOMAIN links[n] /\ k # m
                  \/ k = m /\ cost # NoLink
         /\ \A k \in DOMAIN WithNeighbor(links[n], m, cost) :
              WithNeighbor(links[n], m, cost)[k] = IF k = m THEN cost ELSE links[n][k]
         /\ DOMAIN WithNeighbor(links[n], m, cost) \subseteq Nodes
         /\ WithNeighbor(links[n], m, cost)
              \in [DOMAIN WithNeighbor(links[n], m, cost) -> Costs]
<1> DEFINE S == IF cost = NoLink THEN DOMAIN links[n] \ {m} ELSE DOMAIN links[n] \cup {m}
           val(k) == IF k = m THEN cost ELSE links[n][k]
           new == [k \in S |-> val(k)]
<1>1. WithNeighbor(links[n], m, cost) = new
  BY DEF WithNeighbor
<1>2. \A k : k \in S <=> (k \in DOMAIN links[n] /\ k # m) \/ (k = m /\ cost # NoLink)
  OBVIOUS
<1>3. DOMAIN links[n] \subseteq Nodes /\ \A k \in DOMAIN links[n] : links[n][k] \in Costs
  BY NeighborMap
<1>4. \A k \in S : k \in Nodes /\ val(k) \in Costs
  BY <1>3
<1> HIDE DEF S
<1>5. DOMAIN new = S /\ \A k \in S : new[k] = val(k)
  OBVIOUS
<1>6. new \in [S -> Costs]
  BY <1>4
<1> HIDE DEF new
<1> QED
  BY <1>1, <1>2, <1>4, <1>5, <1>6

\* setNeighbor on both sides leaves a graph.
LEMMA WithLinkGraph ==
  ASSUME NEW links, IsGraph(links), NEW a \in Nodes, NEW b \in Nodes, a # b,
         NEW cost \in Costs \cup {NoLink}
  PROVE  /\ IsGraph(WithLink(links, a, b, cost))
         /\ \A n \in Nodes :
              DOMAIN WithLink(links, a, b, cost)[n] \ {a, b} = DOMAIN links[n] \ {a, b}
<1> DEFINE new == WithLink(links, a, b, cost)
<1>1. links \in [Nodes -> UNION {[S -> Costs] : S \in SUBSET Nodes}]
  BY DEF IsGraph
<1>2. new = [n \in Nodes |-> IF n = b THEN WithNeighbor(links[b], a, cost)
                             ELSE IF n = a THEN WithNeighbor(links[a], b, cost)
                             ELSE links[n]]
  BY <1>1 DEF WithLink
<1>3. \A n \in Nodes : n \notin DOMAIN links[n]
  BY DEF IsGraph
<1>4. \A n \in Nodes : \A m \in DOMAIN links[n] :
        m \in Nodes /\ n \in DOMAIN links[m] /\ links[m][n] = links[n][m]
  BY GraphProperties
<1>5. /\ new[a] = WithNeighbor(links[a], b, cost)
      /\ new[b] = WithNeighbor(links[b], a, cost)
      /\ \A n \in Nodes \ {a, b} : new[n] = links[n]
  BY <1>2
<1>6. new = [n \in Nodes |-> new[n]]
  BY <1>2
<1> HIDE DEF new
<1>7. ASSUME NEW n \in {a, b}, NEW m \in {a, b}, n # m
       PROVE  /\ \A k : k \in DOMAIN new[n] <=>
                       \/ k \in DOMAIN links[n] /\ k # m
                       \/ k = m /\ cost # NoLink
              /\ \A k \in DOMAIN new[n] : new[n][k] = IF k = m THEN cost ELSE links[n][k]
              /\ DOMAIN new[n] \subseteq Nodes
              /\ new[n] \in [DOMAIN new[n] -> Costs]
  <2> DEFINE w == WithNeighbor(links[n], m, cost)
  <2>1. new[n] = w
    BY <1>5, <1>7
  <2>2. /\ \A k : k \in DOMAIN w <=>
               \/ k \in DOMAIN links[n] /\ k # m
               \/ k = m /\ cost # NoLink
        /\ \A k \in DOMAIN w : w[k] = IF k = m THEN cost ELSE links[n][k]
        /\ DOMAIN w \subseteq Nodes
        /\ w \in [DOMAIN w -> Costs]
    <3>1. n \in Nodes /\ m \in Nodes
      OBVIOUS
    <3> QED
      BY <3>1, WithNeighborMap, Zenon
  <2> HIDE DEF w
  <2> QED
    BY <2>1, <2>2, Zenon
<1>8. /\ \A k : k \in DOMAIN new[a] <=>
             \/ k \in DOMAIN links[a] /\ k # b
             \/ k = b /\ cost # NoLink
      /\ \A k : k \in DOMAIN new[b] <=>
             \/ k \in DOMAIN links[b] /\ k # a
             \/ k = a /\ cost # NoLink
  BY <1>7
<1>9. /\ \A k \in DOMAIN new[a] : new[a][k] = IF k = b THEN cost ELSE links[a][k]
      /\ \A k \in DOMAIN new[b] : new[b][k] = IF k = a THEN cost ELSE links[b][k]
  BY <1>7
<1>10. new \in [Nodes -> UNION {[S -> Costs] : S \in SUBSET Nodes}]
  <2>1. ASSUME NEW n \in Nodes
        PROVE  DOMAIN new[n] \subseteq Nodes /\ new[n] \in [DOMAIN new[n] -> Costs]
    <3>1. CASE n = a  BY <1>7, <3>1
    <3>2. CASE n = b  BY <1>7, <3>2
    <3>3. CASE n \notin {a, b}  BY <1>5, <3>3, NeighborMap
    <3> QED  BY <3>1, <3>2, <3>3
  <2>2. \A n \in Nodes : new[n] \in UNION {[S -> Costs] : S \in SUBSET Nodes}
    BY <2>1
  <2> QED
    BY <1>6, <2>2
<1>11. ASSUME NEW n \in Nodes PROVE n \notin DOMAIN new[n]
  BY <1>3, <1>5, <1>8
<1>12. ASSUME NEW n \in Nodes, NEW m \in DOMAIN new[n]
       PROVE  n \in DOMAIN new[m] /\ new[m][n] = new[n][m]
  <2>1. CASE n \in Nodes \ {a, b}
    <3>1. m \in DOMAIN links[n] /\ new[n][m] = links[n][m]
      BY <1>5, <2>1
    <3>2. m \in Nodes /\ n \in DOMAIN links[m] /\ links[m][n] = links[n][m]
      BY <1>4, <3>1
    <3>3. CASE m = a  BY <1>8, <1>9, <2>1, <3>1, <3>2, <3>3
    <3>4. CASE m = b  BY <1>8, <1>9, <2>1, <3>1, <3>2, <3>4
    <3>5. CASE m \notin {a, b}  BY <1>5, <3>1, <3>2, <3>5
    <3> QED  BY <3>3, <3>4, <3>5
  <2>2. CASE n = a
    <3>1. CASE m = b  BY <1>8, <1>9, <2>2, <3>1
    <3>2. CASE m # b
      <4>1. m \in DOMAIN links[a] /\ new[a][m] = links[a][m]
        BY <1>8, <1>9, <2>2, <3>2
      <4>2. m \in Nodes \ {a, b} /\ a \in DOMAIN links[m] /\ links[m][a] = links[a][m]
        BY <1>3, <1>4, <3>2, <4>1
      <4> QED  BY <1>5, <2>2, <4>1, <4>2
    <3> QED  BY <3>1, <3>2
  <2>3. CASE n = b
    <3>1. CASE m = a  BY <1>8, <1>9, <2>3, <3>1
    <3>2. CASE m # a
      <4>1. m \in DOMAIN links[b] /\ new[b][m] = links[b][m]
        BY <1>8, <1>9, <2>3, <3>2
      <4>2. m \in Nodes \ {a, b} /\ b \in DOMAIN links[m] /\ links[m][b] = links[b][m]
        BY <1>3, <1>4, <3>2, <4>1
      <4> QED  BY <1>5, <2>3, <4>1, <4>2
    <3> QED  BY <3>1, <3>2
  <2> QED
    BY <2>1, <2>2, <2>3
<1>13. IsGraph(new)
  BY <1>10, <1>11, <1>12 DEF IsGraph
<1>14. ASSUME NEW n \in Nodes PROVE DOMAIN new[n] \ {a, b} = DOMAIN links[n] \ {a, b}
  BY <1>5, <1>8
<1> QED
  BY <1>13, <1>14 DEF new

-----------------------------------------------------------------------------
(* The equations of routing: the cost of a destination is 0 at itself, and *)
(* elsewhere the least of what the neighbours offer, up to INFINI.         *)

Solves(links, D) ==
  /\ D \in [Nodes -> [Nodes -> 0 .. INFINI]]
  /\ \A n, d \in Nodes :
       IF n = d THEN D[n][d] = 0
       ELSE /\ \A m \in DOMAIN links[n] : D[n][d] <= links[n][m] + D[m][d]
            /\ \/ D[n][d] = INFINI
               \/ \E m \in DOMAIN links[n] : D[n][d] = links[n][m] + D[m][d]

\* The equations have one solution.  Of the nodes where two solutions differ
\* take one where the smaller of the two values is least: that value comes from
\* a neighbour, where it is smaller still, so that there the two agree; but
\* then the larger value is not the least offer.
THEOREM OneSolution ==
  ASSUME NEW links, IsGraph(links), NEW D, Solves(links, D), NEW E, Solves(links, E)
  PROVE  D = E
<1> DEFINE Low(n, d) == IF D[n][d] <= E[n][d] THEN D[n][d] ELSE E[n][d]
<1>1. \A n, d \in Nodes : D[n][d] \in Nat /\ E[n][d] \in Nat
                          /\ D[n][d] <= INFINI /\ E[n][d] <= INFINI
  BY TopologyAssumption DEF Solves
<1>2. ASSUME NEW d \in Nodes, \E n \in Nodes : D[n][d] # E[n][d] PROVE FALSE
  <2> DEFINE Differ == {n \in Nodes : D[n][d] # E[n][d]}
             Lows == {Low(n, d) : n \in Differ}
  <2>1. Lows \subseteq Nat /\ Lows # {}
    BY <1>1, <1>2
  <2>2. PICK low \in Lows : \A x \in Lows : low <= x
    BY <2>1, LeastElement
  <2>3. PICK n \in Differ : low = Low(n, d)
    BY <2>2
  <2>4. \A k \in Differ : Low(n, d) <= Low(k, d)
    BY <2>2, <2>3
  <2>5. n # d
    BY <2>3 DEF Solves
  <2> HIDE DEF Lows
  <2>6. CASE D[n][d] < E[n][d]
    <3>1. PICK m \in DOMAIN links[n] : D[n][d] = links[n][m] + D[m][d]
      BY <1>1, <2>3, <2>5, <2>6 DEF Solves
    <3>2. m \in Nodes /\ links[n][m] \in Nat /\ links[n][m] >= 1
      BY <2>3, GraphProperties
    <3>3. m \notin Differ
      BY <1>1, <2>3, <2>4, <2>6, <3>1, <3>2
    <3>4. E[n][d] <= links[n][m] + E[m][d]
      BY <2>3, <2>5, <3>1 DEF Solves
    <3> QED
      BY <1>1, <2>3, <2>6, <3>1, <3>2, <3>3, <3>4
  <2>7. CASE E[n][d] < D[n][d]
    <3>1. PICK m \in DOMAIN links[n] : E[n][d] = links[n][m] + E[m][d]
      BY <1>1, <2>3, <2>5, <2>7 DEF Solves
    <3>2. m \in Nodes /\ links[n][m] \in Nat /\ links[n][m] >= 1
      BY <2>3, GraphProperties
    <3>3. m \notin Differ
      BY <1>1, <2>3, <2>4, <2>7, <3>1, <3>2
    <3>4. D[n][d] <= links[n][m] + D[m][d]
      BY <2>3, <2>5, <3>1 DEF Solves
    <3> QED
      BY <1>1, <2>3, <2>7, <3>1, <3>2, <3>3, <3>4
  <2> QED
    BY <1>1, <2>3, <2>6, <2>7
<1>3. \A n, d \in Nodes : D[n][d] = E[n][d]
  BY <1>2
<1>4. \A n \in Nodes : D[n] = E[n]
  BY <1>3 DEF Solves
<1> QED
  BY <1>4 DEF Solves

\* The solution is symmetric, as the graphs are: going from n to d over the last
\* link costs as much as over the first one.  Were D[n][d] more than D[n][m] and
\* the link from m to d, then with the smallest D[n][m] for which this is so the
\* next node on the way from n to m would show it for a smaller one.
LEMMA LastLink ==
  ASSUME NEW links, IsGraph(links), NEW D, Solves(links, D),
         NEW d \in Nodes, NEW m \in DOMAIN links[d]
  PROVE  \A n \in Nodes : D[n][d] <= D[n][m] + links[m][d]
<1>1. \A n, k \in Nodes : D[n][k] \in Nat /\ D[n][k] <= INFINI
  BY TopologyAssumption DEF Solves
<1>2. /\ m \in Nodes /\ m # d /\ d \in DOMAIN links[m]
      /\ links[m][d] \in Nat /\ links[m][d] >= 1
  BY GraphProperties
<1> DEFINE Bad == {n \in Nodes : D[n][d] > D[n][m] + links[m][d]}
           lows == {D[n][m] : n \in Bad}
<1>3. ASSUME Bad # {} PROVE FALSE
  <2>1. lows \subseteq Nat /\ lows # {}
    BY <1>1, <1>2, <1>3
  <2>2. PICK low \in lows : \A x \in lows : low <= x
    BY <2>1, LeastElement
  <2>3. PICK n \in Bad : low = D[n][m]
    BY <2>2
  <2>4. n \in Nodes /\ D[n][d] > D[n][m] + links[m][d]
    BY <2>3
  <2>5. ASSUME NEW k \in Nodes, D[k][m] < D[n][m]
        PROVE  D[k][d] <= D[k][m] + links[m][d]
    <3>1. k \notin Bad
      <4>1. k \in Bad => D[n][m] <= D[k][m]
        BY <2>2, <2>3
      <4> QED
        BY <1>1, <1>2, <2>4, <2>5, <4>1
    <3>2. ~ (D[k][d] > D[k][m] + links[m][d])
      BY <3>1
    <3> QED
      BY <1>1, <1>2, <3>2
  <2> HIDE DEF Bad, lows
  <2>6. n # m
    <3>1. D[m][m] = 0 /\ D[m][d] <= links[m][d] + D[d][d] /\ D[d][d] = 0
      BY <1>2 DEF Solves
    <3> QED
      BY <1>1, <1>2, <2>4, <3>1
  <2>7. n # d
    BY <1>1, <1>2, <2>4 DEF Solves
  <2>8. D[n][m] # INFINI
    BY <1>1, <1>2, <2>4
  <2>9. PICK k \in DOMAIN links[n] : D[n][m] = links[n][k] + D[k][m]
    BY <1>2, <2>4, <2>6, <2>8 DEF Solves
  <2>10. k \in Nodes /\ links[n][k] \in Nat /\ links[n][k] >= 1
    BY <2>4, GraphProperties
  <2>11. D[k][d] <= D[k][m] + links[m][d]
    BY <1>1, <1>2, <2>4, <2>5, <2>9, <2>10
  <2>12. D[n][d] <= links[n][k] + D[k][d]
    BY <2>4, <2>7, <2>9 DEF Solves
  <2> QED
    BY <1>1, <1>2, <2>4, <2>9, <2>10, <2>11, <2>12
<1> QED
  BY <1>1, <1>2, <1>3

\* A way over b is no cheaper than the cheapest.  Of the nodes for which it would
\* be, one with the smallest D[a][b] has a neighbour for which it is too.
LEMMA Triangle ==
  ASSUME NEW links, IsGraph(links), NEW D, Solves(links, D), NEW b \in Nodes, NEW d \in Nodes
  PROVE  \A a \in Nodes : D[a][d] <= D[a][b] + D[b][d]
<1>1. \A n, k \in Nodes : D[n][k] \in Nat /\ D[n][k] <= INFINI
  BY TopologyAssumption DEF Solves
<1> DEFINE Bad == {a \in Nodes : D[a][d] > D[a][b] + D[b][d]}
           lows == {D[a][b] : a \in Bad}
<1>2. ASSUME Bad # {} PROVE FALSE
  <2>1. lows \subseteq Nat /\ lows # {}
    BY <1>1, <1>2
  <2>2. PICK low \in lows : \A x \in lows : low <= x
    BY <2>1, LeastElement
  <2>3. PICK a \in Bad : low = D[a][b]
    BY <2>2
  <2>4. \A x \in Bad : D[a][b] <= D[x][b]
    BY <2>2, <2>3
  <2>5. a \in Nodes /\ D[a][d] > D[a][b] + D[b][d]
    BY <2>3
  <2> HIDE DEF lows, Bad
  <2>6. a # b /\ a # d /\ D[a][b] # INFINI
    BY <1>1, <2>5, TopologyAssumption DEF Solves
  <2>7. PICK m \in DOMAIN links[a] : D[a][b] = links[a][m] + D[m][b]
    BY <2>5, <2>6 DEF Solves
  <2>8. m \in Nodes /\ links[a][m] \in Nat /\ links[a][m] >= 1
    BY <2>5, GraphProperties
  <2>9. D[a][d] <= links[a][m] + D[m][d]
    BY <2>5, <2>6 DEF Solves
  <2>10. m \notin Bad
    BY <1>1, <2>4, <2>5, <2>7, <2>8
  <2>11. ~ (D[m][d] > D[m][b] + D[b][d])
    BY <2>8, <2>10 DEF Bad
  <2> QED
    BY <1>1, <2>5, <2>7, <2>8, <2>9, <2>11
<1>3. \A a \in Nodes : ~ (D[a][d] > D[a][b] + D[b][d])
  BY <1>2
<1> QED
  BY <1>1, <1>3

Transposed(D) == [n \in Nodes |-> [d \in Nodes |-> D[d][n]]]

THEOREM SymmetricSolution ==
  ASSUME NEW links, IsGraph(links), NEW D, Solves(links, D)
  PROVE  D = Transposed(D)
<1> DEFINE E == Transposed(D)
<1>1. \A n, d \in Nodes : D[n][d] \in Nat /\ D[n][d] <= INFINI /\ D[n][d] \in 0 .. INFINI
  BY TopologyAssumption DEF Solves
<1>2. E \in [Nodes -> [Nodes -> 0 .. INFINI]] /\ \A n, d \in Nodes : E[n][d] = D[d][n]
  BY <1>1 DEF Transposed
<1> HIDE DEF E
<1>3. ASSUME NEW n \in Nodes PROVE E[n][n] = 0
  BY <1>2 DEF Solves
<1>4. ASSUME NEW n \in Nodes, NEW d \in Nodes, NEW m \in DOMAIN links[n]
      PROVE  E[n][d] <= links[n][m] + E[m][d]
  <2>1. D[d][n] <= D[d][m] + links[m][n]
    BY LastLink
  <2>2. m \in Nodes /\ links[m][n] = links[n][m] /\ links[n][m] \in Nat
    BY GraphProperties
  <2> QED
    BY <1>1, <1>2, <2>1, <2>2
\* A finite cost is one over some last link: over the one that the next node has,
\* which has a smaller cost.
<1>5. ASSUME NEW d \in Nodes
      PROVE  \A n \in Nodes : n = d \/ D[n][d] = INFINI
                \/ \E m \in DOMAIN links[d] : D[n][d] = D[n][m] + links[m][d]
  <2> DEFINE Bad == {n \in Nodes : /\ n # d /\ D[n][d] # INFINI
                                   /\ \A m \in DOMAIN links[d] :
                                        D[n][d] # D[n][m] + links[m][d]}
             lows == {D[n][d] : n \in Bad}
  <2>1. ASSUME Bad # {} PROVE FALSE
    <3>1. lows \subseteq Nat /\ lows # {}
      BY <1>1, <2>1
    <3>2. PICK low \in lows : \A x \in lows : low <= x
      BY <3>1, LeastElement
    <3>3. PICK n \in Bad : low = D[n][d]
      BY <3>2
    <3>4. /\ n \in Nodes /\ n # d /\ D[n][d] # INFINI
          /\ \A m \in DOMAIN links[d] : D[n][d] # D[n][m] + links[m][d]
      BY <3>3
    <3>5. ASSUME NEW k \in Nodes, D[k][d] < D[n][d] PROVE k \notin Bad
      <4>1. k \in Bad => D[n][d] <= D[k][d]
        BY <3>2, <3>3
      <4> QED
        BY <1>1, <3>4, <3>5, <4>1
    <3>6. PICK k \in DOMAIN links[n] : D[n][d] = links[n][k] + D[k][d]
      BY <3>4 DEF Solves
    <3>7. k \in Nodes /\ links[n][k] \in Nat /\ links[n][k] >= 1 /\ n \in DOMAIN links[k]
      BY <3>4, GraphProperties
    <3>8. CASE k = d
      <4>1. D[n][n] = 0 /\ D[d][d] = 0
        BY <3>4 DEF Solves
      <4>2. D[n][d] = D[n][n] + links[n][d]
        BY <1>1, <3>4, <3>6, <3>7, <3>8, <4>1
      <4> QED
        BY <3>4, <3>7, <3>8, <4>2
    <3>9. CASE k # d
      <4>1. D[k][d] < D[n][d] /\ D[k][d] # INFINI
        BY <1>1, <3>4, <3>6, <3>7
      <4>2. PICK m \in DOMAIN links[d] : D[k][d] = D[k][m] + links[m][d]
        BY <3>5, <3>7, <3>9, <4>1
      <4>3. m \in Nodes /\ links[m][d] \in Nat /\ links[d][m] = links[m][d]
        BY GraphProperties
      <4>4. D[n][m] <= links[n][k] + D[k][m]
        <5>1. CASE n = m
          BY <1>1, <3>4, <3>7, <4>3, <5>1 DEF Solves
        <5>2. CASE n # m
          BY <3>4, <3>6, <4>3, <5>2 DEF Solves
        <5> QED
          BY <5>1, <5>2
      <4>5. D[n][d] <= D[n][m] + links[m][d]
        BY <3>4, LastLink
      <4>6. D[n][d] = D[n][m] + links[m][d]
        BY <1>1, <3>4, <3>6, <3>7, <4>2, <4>3, <4>4, <4>5
      <4> QED
        BY <3>4, <4>6
    <3> QED
      BY <3>8, <3>9
  <2> QED
    BY <2>1
<1>6. ASSUME NEW n \in Nodes, NEW d \in Nodes, n # d
      PROVE  E[n][d] = INFINI \/ \E m \in DOMAIN links[n] : E[n][d] = links[n][m] + E[m][d]
  <2>1. CASE D[d][n] = INFINI
    BY <1>2, <2>1
  <2>2. CASE D[d][n] # INFINI
    <3>1. PICK m \in DOMAIN links[n] : D[d][n] = D[d][m] + links[m][n]
      BY <1>5, <1>6, <2>2
    <3>2. m \in Nodes /\ links[m][n] = links[n][m] /\ links[n][m] \in Nat
      BY GraphProperties
    <3>3. E[n][d] = links[n][m] + E[m][d]
      BY <1>1, <1>2, <3>1, <3>2
    <3> QED
      BY <3>3
  <2> QED
    BY <2>1, <2>2
<1>7. Solves(links, E)
  BY <1>2, <1>3, <1>4, <1>6 DEF Solves
<1> QED
  BY <1>7, OneSolution DEF E
-----------------------------------------------------------------------------
(* The cheapest paths.  PathCost adds up along a path; CostTable is its     *)
(* local function, on the first n nodes of the path.                       *)

CostTable(links, p, n, g) ==
  g = [i \in 1 .. n |-> IF i = 1 THEN 0 ELSE g[i - 1] + links[p[i - 1]][p[i]]]

Front(p, n) == [i \in 1 .. n |-> p[i]]

LEMMA FrontPath ==
  ASSUME NEW links, NEW n \in Nat \ {0}, NEW p \in [1 .. n + 1 -> Nodes], IsPath(links, p)
  PROVE  /\ Front(p, n) \in [1 .. n -> Nodes] /\ IsPath(links, Front(p, n))
         /\ p[n + 1] \in DOMAIN links[p[n]] /\ p[n] \in Nodes
<1> DEFINE q == Front(p, n)
<1>1. q \in [1 .. n -> Nodes] /\ \A i \in 1 .. n : q[i] = p[i]
  BY DEF Front
<1>2. Len(q) = n /\ Len(p) = n + 1
  BY <1>1
<1> HIDE DEF q
<1>3. \A i \in 1 .. n : i \in 1 .. n + 1 /\ (i < n => i + 1 \in 1 .. n)
  OBVIOUS
<1>4. \A i, j \in 1 .. n : q[i] = q[j] => i = j
  BY <1>1, <1>2, <1>3 DEF IsPath
<1>5. \A i \in 1 .. n - 1 : q[i + 1] \in DOMAIN links[q[i]]
  BY <1>1, <1>2 DEF IsPath
<1>6. n \in 1 .. (n + 1) - 1
  OBVIOUS
<1>7. p[n + 1] \in DOMAIN links[p[n]]
  BY <1>2, <1>6 DEF IsPath
<1> QED
  BY <1>1, <1>2, <1>4, <1>5, <1>7 DEF IsPath, q

LEMMA CostTableExists ==
  ASSUME NEW links, IsGraph(links), NEW n \in Nat \ {0},
         NEW p \in [1 .. n -> Nodes], IsPath(links, p)
  PROVE  \E g \in [1 .. n -> Nat] : CostTable(links, p, n, g)
<1> DEFINE Good(k) == \A q \in [1 .. k + 1 -> Nodes] :
                        IsPath(links, q) =>
                          \E g \in [1 .. k + 1 -> Nat] : CostTable(links, q, k + 1, g)
           S == {k \in Nat : Good(k)}
<1>1. 0 \in S
  <2> SUFFICES ASSUME NEW q \in [1 .. 1 -> Nodes]
               PROVE  \E g \in [1 .. 1 -> Nat] : CostTable(links, q, 1, g)
    OBVIOUS
  <2> DEFINE g == [i \in 1 .. 1 |-> 0]
  <2>1. g \in [1 .. 1 -> Nat] /\ CostTable(links, q, 1, g)
    BY DEF CostTable
  <2> QED
    BY <2>1
<1>2. ASSUME NEW k \in Nat, k \in S PROVE k + 1 \in S
  <2> SUFFICES ASSUME NEW q \in [1 .. (k + 1) + 1 -> Nodes], IsPath(links, q)
               PROVE  \E g \in [1 .. (k + 1) + 1 -> Nat] : CostTable(links, q, (k + 1) + 1, g)
    OBVIOUS
  <2> DEFINE m == k + 1
             r == Front(q, m)
  <2>0. m \in Nat \ {0}
    OBVIOUS
  <2>1. /\ r \in [1 .. m -> Nodes] /\ IsPath(links, r)
        /\ q[m + 1] \in DOMAIN links[q[m]] /\ q[m] \in Nodes
    BY <2>0, FrontPath
  <2>2. PICK g \in [1 .. m -> Nat] : CostTable(links, r, m, g)
    BY <1>2, <2>1
  <2>3. links[q[m]][q[m + 1]] \in Nat
    BY <2>1, GraphProperties
  <2>4. \A i \in 1 .. m : r[i] = q[i]
    BY DEF Front
  <2> DEFINE last == g[m] + links[q[m]][q[m + 1]]
             h == [i \in 1 .. m + 1 |-> IF i <= m THEN g[i] ELSE last]
  <2>5. last \in Nat /\ h \in [1 .. m + 1 -> Nat] /\ h = [i \in 1 .. m + 1 |-> h[i]]
    BY <2>0, <2>2, <2>3
  <2>6. ASSUME NEW i \in 1 .. m + 1
        PROVE  h[i] = IF i = 1 THEN 0 ELSE h[i - 1] + links[q[i - 1]][q[i]]
    <3>1. CASE i = 1
      BY <2>0, <2>2, <3>1 DEF CostTable
    <3>2. CASE i # 1 /\ i <= m
      <4>1. i \in 1 .. m /\ i - 1 \in 1 .. m /\ h[i] = g[i] /\ h[i - 1] = g[i - 1]
        BY <2>0, <3>2
      <4>2. g[i] = g[i - 1] + links[r[i - 1]][r[i]]
        BY <2>2, <3>2, <4>1 DEF CostTable
      <4> QED
        BY <2>4, <3>2, <4>1, <4>2
    <3>3. CASE i = m + 1
      <4>1. h[i] = last /\ h[i - 1] = g[m] /\ i - 1 = m /\ i # 1
        BY <2>0, <3>3
      <4> QED
        BY <3>3, <4>1
    <3> QED
      BY <2>0, <3>1, <3>2, <3>3
  <2> HIDE DEF h, m
  <2>7. CostTable(links, q, m + 1, h)
    BY <2>5, <2>6 DEF CostTable
  <2> QED
    BY <2>5, <2>7 DEF m
<1> HIDE DEF S
<1>3. n - 1 \in S
  BY <1>1, <1>2, SetInduction
<1> QED
  BY <1>3 DEF S

LEMMA CostTableUnique ==
  ASSUME NEW links, NEW p, NEW n \in Nat \ {0},
         NEW g, CostTable(links, p, n, g), NEW h, CostTable(links, p, n, h)
  PROVE  g[n] = h[n]
<1> DEFINE S == {i \in Nat : i + 1 \in 1 .. n => g[i + 1] = h[i + 1]}
<1>1. 0 \in S
  BY DEF CostTable
<1>2. ASSUME NEW i \in Nat, i \in S PROVE i + 1 \in S
  <2>1. SUFFICES ASSUME (i + 1) + 1 \in 1 .. n PROVE g[(i + 1) + 1] = h[(i + 1) + 1]
    OBVIOUS
  <2> DEFINE j == i + 1
  <2>2. j \in 1 .. n /\ j + 1 \in 1 .. n /\ j + 1 # 1 /\ (j + 1) - 1 = j /\ g[j] = h[j]
    BY <1>2, <2>1
  <2> HIDE DEF j
  <2>3. /\ g[j + 1] = g[j] + links[p[j]][p[j + 1]]
        /\ h[j + 1] = h[j] + links[p[j]][p[j + 1]]
    BY <2>2 DEF CostTable
  <2> QED
    BY <2>2, <2>3 DEF j
<1> HIDE DEF S
<1>3. n - 1 \in S
  BY <1>1, <1>2, SetInduction
<1> QED
  BY <1>3 DEF S

LEMMA PathCostTable ==
  ASSUME NEW links, IsGraph(links), NEW n \in Nat \ {0},
         NEW p \in [1 .. n -> Nodes], IsPath(links, p),
         NEW g, CostTable(links, p, n, g)
  PROVE  PathCost(links, p) = g[n] /\ PathCost(links, p) \in Nat
<1> DEFINE G == CHOOSE f : CostTable(links, p, n, f)
<1>1. PICK h \in [1 .. n -> Nat] : CostTable(links, p, n, h)
  BY CostTableExists
<1>2. CostTable(links, p, n, G)
  BY <1>1
<1>3. Len(p) = n
  OBVIOUS
<1>4. PathCost(links, p) = G[n]
  BY <1>3 DEF PathCost, CostTable
<1> HIDE DEF G
<1>5. G[n] = g[n] /\ g[n] = h[n]
  BY <1>1, <1>2, CostTableUnique
<1> QED
  BY <1>1, <1>4, <1>5

LEMMA PathOfOne ==
  ASSUME NEW links, IsGraph(links), NEW p \in [1 .. 1 -> Nodes]
  PROVE  IsPath(links, p) /\ PathCost(links, p) = 0
<1>1. Len(p) = 1
  OBVIOUS
<1>2. IsPath(links, p)
  BY <1>1 DEF IsPath
<1> DEFINE g == [i \in 1 .. 1 |-> 0]
<1>3. CostTable(links, p, 1, g)
  BY DEF CostTable
<1>4. 1 \in Nat \ {0} /\ g[1] = 0
  OBVIOUS
<1> HIDE DEF g
<1>5. PathCost(links, p) = g[1]
  BY <1>2, <1>3, <1>4, PathCostTable
<1> QED
  BY <1>2, <1>4, <1>5

\* The last link of a path adds its cost.
LEMMA PathOfMore ==
  ASSUME NEW links, IsGraph(links), NEW n \in Nat \ {0},
         NEW p \in [1 .. n + 1 -> Nodes], IsPath(links, p)
  PROVE  /\ PathCost(links, Front(p, n)) \in Nat
         /\ PathCost(links, p) = PathCost(links, Front(p, n)) + links[p[n]][p[n + 1]]
<1> DEFINE q == Front(p, n)
<1>1. q \in [1 .. n -> Nodes] /\ IsPath(links, q) /\ \A i \in 1 .. n : q[i] = p[i]
  BY FrontPath DEF Front
<1>2. n + 1 \in Nat \ {0}
  OBVIOUS
<1>3. PICK g \in [1 .. n + 1 -> Nat] : CostTable(links, p, n + 1, g)
  BY <1>2, CostTableExists
<1> DEFINE h == [i \in 1 .. n |-> g[i]]
<1> HIDE DEF q
<1>4. \A i \in 1 .. n : g[i] = IF i = 1 THEN 0 ELSE g[i - 1] + links[p[i - 1]][p[i]]
  BY <1>3 DEF CostTable
<1>5. \A i \in 1 .. n : h[i] = IF i = 1 THEN 0 ELSE h[i - 1] + links[q[i - 1]][q[i]]
  <2> SUFFICES ASSUME NEW i \in 1 .. n
               PROVE  h[i] = IF i = 1 THEN 0 ELSE h[i - 1] + links[q[i - 1]][q[i]]
    OBVIOUS
  <2>1. CASE i = 1
    BY <1>4, <2>1
  <2>2. CASE i # 1
    <3>1. i - 1 \in 1 .. n
      BY <2>2
    <3> QED
      BY <1>1, <1>4, <2>2, <3>1
  <2> QED
    BY <2>1, <2>2
<1>6. h = [i \in 1 .. n |-> h[i]] /\ h[n] = g[n]
  OBVIOUS
<1> HIDE DEF h
<1>7. CostTable(links, q, n, h)
  BY <1>5, <1>6 DEF CostTable
<1>8. PathCost(links, q) = g[n] /\ PathCost(links, q) \in Nat
  BY <1>1, <1>6, <1>7, PathCostTable
<1>9. PathCost(links, p) = g[n + 1]
  BY <1>2, <1>3, PathCostTable
<1>10. g[n + 1] = g[n] + links[p[n]][p[n + 1]]
  BY <1>3 DEF CostTable
<1> QED
  BY <1>8, <1>9, <1>10 DEF q

\* A path with k nodes from n to d.
Route(links, n, d, k, p) ==
  /\ k \in Nat \ {0} /\ p \in [1 .. k -> Nodes] /\ IsPath(links, p)
  /\ p[1] = n /\ p[k] = d

\* No node comes twice on a path, so that it has no more nodes than there are.
LEMMA RouteIsShort ==
  ASSUME NEW links, NEW n, NEW d, NEW k, NEW p, Route(links, n, d, k, p)
  PROVE  k \in 1 .. Cardinality(Nodes) /\ Len(p) = k
<1>1. k \in Nat \ {0} /\ p \in [1 .. k -> Nodes] /\ IsPath(links, p) /\ Len(p) = k
  BY DEF Route
<1>2. IsFiniteSet(Nodes) /\ Cardinality(Nodes) \in Nat
  BY TopologyAssumption, FS_CardinalityType
<1>3. IsFiniteSet(1 .. k) /\ Cardinality(1 .. k) = k
  BY <1>1, FS_Interval
<1>4. ASSUME Cardinality(Nodes) < k PROVE FALSE
  <2>1. \E i, j \in 1 .. k : i # j /\ p[i] = p[j]
    BY <1>1, <1>2, <1>3, <1>4, FS_PigeonHole
  <2> QED
    BY <1>1, <2>1 DEF IsPath
<1> QED
  BY <1>1, <1>2, <1>4

LEMMA RouteCost ==
  ASSUME NEW links, IsGraph(links), NEW n, NEW d, NEW k, NEW p, Route(links, n, d, k, p)
  PROVE  PathCost(links, p) \in Nat
<1>1. k \in Nat \ {0} /\ p \in [1 .. k -> Nodes] /\ IsPath(links, p)
  BY DEF Route
<1>2. PICK g \in [1 .. k -> Nat] : CostTable(links, p, k, g)
  BY <1>1, CostTableExists
<1> QED
  BY <1>1, <1>2, PathCostTable

\* ShortestCosts is the least of INFINI and the costs of the routes.
LEMMA ShortestIsLeast ==
  ASSUME NEW links, IsGraph(links), NEW n \in Nodes, NEW d \in Nodes
  PROVE  LET c == ShortestCosts(links)[n][d]
         IN  /\ c \in 0 .. INFINI
             /\ \A k, p : Route(links, n, d, k, p) => c <= PathCost(links, p)
             /\ \/ c = INFINI
                \/ \E k, p : Route(links, n, d, k, p) /\ c = PathCost(links, p)
<1> DEFINE costs == {PathCost(links, p) :
                       p \in {q \in Paths(links) : q[1] = n /\ q[Len(q)] = d}}
           C == costs \cup {INFINI}
           c == CHOOSE x \in C : \A e \in C : x <= e
<1>1. ShortestCosts(links)[n][d] = c
  BY DEF ShortestCosts
<1>2. \A x : x \in costs <=> \E k, p : Route(links, n, d, k, p) /\ x = PathCost(links, p)
  <2>1. ASSUME NEW x \in costs
        PROVE  \E k, p : Route(links, n, d, k, p) /\ x = PathCost(links, p)
    <3>1. PICK p \in Paths(links) : p[1] = n /\ p[Len(p)] = d /\ x = PathCost(links, p)
      OBVIOUS
    <3>2. PICK k \in 1 .. Cardinality(Nodes) : p \in [1 .. k -> Nodes] /\ IsPath(links, p)
      BY DEF Paths
    <3>3. k \in Nat \ {0} /\ Len(p) = k
      BY <3>2, TopologyAssumption, FS_CardinalityType
    <3>4. Route(links, n, d, k, p)
      BY <3>1, <3>2, <3>3 DEF Route
    <3> QED
      BY <3>1, <3>4
  <2>2. ASSUME NEW k, NEW p, Route(links, n, d, k, p) PROVE PathCost(links, p) \in costs
    <3>1. k \in 1 .. Cardinality(Nodes) /\ Len(p) = k
      BY <2>2, RouteIsShort
    <3>2. /\ p \in [1 .. k -> Nodes] /\ IsPath(links, p) /\ p[1] = n /\ p[Len(p)] = d
      BY <2>2, <3>1 DEF Route
    <3>3. p \in Paths(links)
      BY <3>1, <3>2 DEF Paths
    <3> QED
      BY <3>2, <3>3
  <2> HIDE DEF costs
  <2> QED
    BY <2>1, <2>2
<1> HIDE DEF costs
<1>3. costs \subseteq Nat
  BY <1>2, RouteCost
<1>4. INFINI \in C /\ INFINI \in Nat /\ C \subseteq Nat
  BY <1>3, TopologyAssumption
<1>5. \E x \in C : \A e \in C : x <= e
  BY <1>4, LeastElement
<1>6. c \in C /\ \A e \in C : c <= e
  BY <1>5
<1> HIDE DEF c
<1>7. c \in 0 .. INFINI
  BY <1>4, <1>6
<1> QED
  BY <1>1, <1>2, <1>6, <1>7

\* A route is no cheaper than the part of it that leads to one of its nodes.
LEMMA RouteToNodeOf ==
  ASSUME NEW links, IsGraph(links), NEW n, NEW d, NEW k, NEW p, Route(links, n, d, k, p),
         NEW i \in 1 .. k
  PROVE  \E j, q : Route(links, n, p[i], j, q) /\ PathCost(links, q) <= PathCost(links, p)
<1> DEFINE Good(j, x, q) ==
             \A e \in 1 .. j :
               \E l, r : Route(links, n, q[e], l, r) /\ PathCost(links, r) <= PathCost(links, q)
           S == {j \in Nat : \A x, q : Route(links, n, x, j + 1, q) => Good(j + 1, x, q)}
<1>0. ASSUME NEW j, NEW x, NEW q, Route(links, n, x, j, q)
      PROVE  \E l, r : Route(links, n, q[j], l, r) /\ PathCost(links, r) <= PathCost(links, q)
  <2>1. PathCost(links, q) \in Nat
    BY <1>0, RouteCost
  <2>2. Route(links, n, q[j], j, q)
    BY <1>0 DEF Route
  <2> QED
    BY <2>1, <2>2
<1>1. 0 \in S
  BY <1>0
<1>2. ASSUME NEW j \in Nat, j \in S PROVE j + 1 \in S
  <2> DEFINE m == j + 1
  <2> SUFFICES ASSUME NEW x, NEW q, Route(links, n, x, m + 1, q), NEW e \in 1 .. m + 1
               PROVE  \E l, r : Route(links, n, q[e], l, r)
                                /\ PathCost(links, r) <= PathCost(links, q)
    OBVIOUS
  <2>1. CASE e = m + 1
    BY <1>0, <2>1
  <2>2. CASE e \in 1 .. m
    <3> DEFINE f == Front(q, m)
    <3>1. m \in Nat \ {0} /\ q \in [1 .. m + 1 -> Nodes] /\ IsPath(links, q) /\ q[1] = n
      BY DEF Route
    <3>2. /\ f \in [1 .. m -> Nodes] /\ IsPath(links, f)
          /\ q[m + 1] \in DOMAIN links[q[m]] /\ q[m] \in Nodes
      BY <3>1, FrontPath
    <3>3. /\ PathCost(links, f) \in Nat
          /\ PathCost(links, q) = PathCost(links, f) + links[q[m]][q[m + 1]]
      BY <3>1, PathOfMore
    <3>4. links[q[m]][q[m + 1]] \in Nat
      BY <3>2, GraphProperties
    <3>5. \A y \in 1 .. m : f[y] = q[y]
      BY DEF Front
    <3> HIDE DEF f
    <3>6. Route(links, n, f[m], m, f)
      BY <3>1, <3>2, <3>5 DEF Route
    <3>7. PICK l, r : Route(links, n, f[e], l, r) /\ PathCost(links, r) <= PathCost(links, f)
      BY <1>2, <2>2, <3>6
    <3>8. PathCost(links, r) \in Nat
      BY <3>7, RouteCost
    <3>9. PathCost(links, r) <= PathCost(links, q)
      BY <3>3, <3>4, <3>7, <3>8
    <3> QED
      BY <2>2, <3>5, <3>7, <3>9
  <2>3. m \in Nat
    OBVIOUS
  <2> QED
    BY <2>1, <2>2, <2>3
<1> HIDE DEF S
<1>3. k - 1 \in S /\ (k - 1) + 1 = k
  BY <1>1, <1>2, SetInduction DEF Route
<1> QED
  BY <1>3 DEF S

\* A route to m goes on over a link to a node it has not come to before.
LEMMA RouteGoesOn ==
  ASSUME NEW links, IsGraph(links), NEW n, NEW m, NEW k, NEW q, Route(links, n, m, k, q),
         NEW d \in DOMAIN links[m], \A i \in 1 .. k : q[i] # d
  PROVE  \E j, p : /\ Route(links, n, d, j, p)
                   /\ PathCost(links, p) = PathCost(links, q) + links[m][d]
<1> DEFINE p == [i \in 1 .. k + 1 |-> IF i <= k THEN q[i] ELSE d]
<1>1. /\ k \in Nat \ {0} /\ q \in [1 .. k -> Nodes] /\ IsPath(links, q)
      /\ q[1] = n /\ q[k] = m /\ Len(q) = k /\ m \in Nodes
  BY DEF Route
<1>2. d \in Nodes
  BY <1>1, GraphProperties
<1>3. /\ p \in [1 .. k + 1 -> Nodes] /\ p[k + 1] = d /\ p[k] = m /\ p[1] = n
      /\ \A i \in 1 .. k : p[i] = q[i]
  BY <1>1, <1>2
<1>4. Len(p) = k + 1
  BY <1>1, <1>3
<1>5. Front(p, k) = q
  BY <1>1, <1>3 DEF Front
<1> HIDE DEF p
<1>6. \A i \in 1 .. k + 1 : i \in 1 .. k \/ i = k + 1
  BY <1>1
<1>7. \A i, j \in 1 .. k + 1 : p[i] = p[j] => i = j
  <2>1. \A i, j \in 1 .. k : q[i] = q[j] => i = j
    BY <1>1 DEF IsPath
  <2> QED
    BY <1>3, <1>6, <2>1
<1>8. \A i \in 1 .. k : p[i + 1] \in DOMAIN links[p[i]]
  <2> SUFFICES ASSUME NEW i \in 1 .. k PROVE p[i + 1] \in DOMAIN links[p[i]]
    OBVIOUS
  <2>1. CASE i = k
    BY <1>3, <2>1
  <2>2. CASE i # k
    <3>1. i \in 1 .. k - 1 /\ i + 1 \in 1 .. k
      BY <1>1, <2>2
    <3> QED
      BY <1>1, <1>3, <3>1 DEF IsPath
  <2> QED
    BY <2>1, <2>2
<1>9. (k + 1) - 1 = k /\ k + 1 \in Nat \ {0}
  BY <1>1
<1>10. IsPath(links, p)
  BY <1>4, <1>7, <1>8, <1>9 DEF IsPath
<1>11. Route(links, n, d, k + 1, p)
  BY <1>3, <1>9, <1>10 DEF Route
<1>12. PathCost(links, p) = PathCost(links, q) + links[m][d]
  BY <1>1, <1>3, <1>5, <1>10, PathOfMore
<1> QED
  BY <1>11, <1>12

\* The costs of the cheapest paths solve the equations, so that they are what
\* any program finds that solves them.
THEOREM ShortestSolves ==
  ASSUME NEW links, IsGraph(links)
  PROVE  Solves(links, ShortestCosts(links))
<1> DEFINE D == ShortestCosts(links)
           E == Transposed(D)
<1>1. \A n, d \in Nodes : D[n][d] \in 0 .. INFINI
  BY ShortestIsLeast
<1>2. D = [n \in Nodes |-> D[n]] /\ \A n \in Nodes : D[n] = [d \in Nodes |-> D[n][d]]
  BY DEF ShortestCosts
<1>3. ASSUME NEW n \in Nodes PROVE D[n][n] = 0
  <2> DEFINE p == [i \in 1 .. 1 |-> n]
  <2>1. p \in [1 .. 1 -> Nodes] /\ p[1] = n
    OBVIOUS
  <2> HIDE DEF p
  <2>2. IsPath(links, p) /\ PathCost(links, p) = 0
    BY <2>1, PathOfOne
  <2>3. Route(links, n, n, 1, p)
    BY <2>1, <2>2 DEF Route
  <2>4. D[n][n] <= 0
    BY <2>2, <2>3, ShortestIsLeast
  <2> QED
    BY <1>1, <2>4, TopologyAssumption
<1>4. ASSUME NEW n \in Nodes, NEW d \in Nodes, NEW m \in DOMAIN links[d]
      PROVE  D[n][d] <= links[d][m] + D[n][m]
  <2>1. /\ m \in Nodes /\ d \in DOMAIN links[m] /\ links[m][d] = links[d][m]
        /\ links[d][m] \in Nat
    BY GraphProperties
  <2>2. D[n][d] \in Nat /\ D[n][m] \in Nat /\ D[n][d] <= INFINI /\ INFINI \in Nat
    BY <1>1, <2>1, TopologyAssumption
  <2>3. CASE D[n][m] = INFINI
    BY <2>1, <2>2, <2>3
  <2>4. CASE D[n][m] # INFINI
    <3>1. PICK k, q : Route(links, n, m, k, q) /\ D[n][m] = PathCost(links, q)
      BY <2>1, <2>4, ShortestIsLeast
    <3>2. \E j, p : Route(links, n, d, j, p)
                    /\ PathCost(links, p) <= PathCost(links, q) + links[m][d]
      <4>1. CASE \E i \in 1 .. k : q[i] = d
        <5>1. PICK j, p : Route(links, n, d, j, p) /\ PathCost(links, p) <= PathCost(links, q)
          BY <3>1, <4>1, RouteToNodeOf
        <5>2. PathCost(links, p) \in Nat /\ PathCost(links, q) \in Nat
          BY <3>1, <5>1, RouteCost
        <5>3. PathCost(links, p) <= PathCost(links, q) + links[m][d]
          BY <2>1, <5>1, <5>2
        <5> QED
          BY <5>1, <5>3
      <4>2. CASE ~ \E i \in 1 .. k : q[i] = d
        <5>1. PICK j, p : Route(links, n, d, j, p)
                          /\ PathCost(links, p) = PathCost(links, q) + links[m][d]
          BY <2>1, <3>1, <4>2, RouteGoesOn
        <5>2. PathCost(links, p) \in Nat
          BY <5>1, RouteCost
        <5> QED
          BY <5>1, <5>2
      <4> QED
        BY <4>1, <4>2
    <3>3. PICK j, p : Route(links, n, d, j, p)
                      /\ PathCost(links, p) <= PathCost(links, q) + links[m][d]
      BY <3>2
    <3>4. D[n][d] <= PathCost(links, p) /\ PathCost(links, p) \in Nat
      BY <3>3, ShortestIsLeast, RouteCost
    <3> QED
      BY <2>1, <2>2, <3>1, <3>3, <3>4
  <2> QED
    BY <2>3, <2>4
<1>5. ASSUME NEW n \in Nodes, NEW d \in Nodes, n # d, D[n][d] # INFINI
      PROVE  \E m \in DOMAIN links[d] : D[n][d] = links[d][m] + D[n][m]
  <2>1. PICK k, p : Route(links, n, d, k, p) /\ D[n][d] = PathCost(links, p)
    BY <1>5, ShortestIsLeast
  <2> DEFINE l == k - 1
             q == Front(p, l)
             m == p[l]
  <2>2. k \in Nat \ {0} /\ p[1] = n /\ p[k] = d /\ k # 1
    BY <1>5, <2>1 DEF Route
  <2>3. l \in Nat \ {0} /\ l + 1 = k
    BY <2>2
  <2> HIDE DEF l
  <2>4. p \in [1 .. l + 1 -> Nodes] /\ IsPath(links, p) /\ p[l + 1] = d
    BY <2>1, <2>3 DEF Route
  <2>5. /\ q \in [1 .. l -> Nodes] /\ IsPath(links, q)
        /\ d \in DOMAIN links[m] /\ m \in Nodes
    BY <2>3, <2>4, FrontPath
  <2>6. PathCost(links, q) \in Nat /\ PathCost(links, p) = PathCost(links, q) + links[m][d]
    BY <2>3, <2>4, PathOfMore
  <2>7. q[1] = n /\ q[l] = m
    BY <2>2, <2>3 DEF Front
  <2> HIDE DEF q, m
  <2>8. D[n][m] <= PathCost(links, q)
    BY <2>3, <2>5, <2>7, ShortestIsLeast DEF Route
  <2>9. /\ m \in DOMAIN links[d] /\ links[d][m] = links[m][d] /\ links[m][d] \in Nat
    BY <2>5, GraphProperties
  <2>10. D[n][d] <= links[d][m] + D[n][m]
    BY <1>4, <2>9
  <2>11. D[n][d] \in Nat /\ D[n][m] \in Nat
    BY <1>1, <2>5, TopologyAssumption
  <2>12. D[n][d] = links[d][m] + D[n][m]
    BY <2>1, <2>6, <2>8, <2>9, <2>10, <2>11
  <2> QED
    BY <2>9, <2>12
<1> HIDE DEF D
<1>6. E \in [Nodes -> [Nodes -> 0 .. INFINI]] /\ \A n, d \in Nodes : E[n][d] = D[d][n]
  BY <1>1 DEF Transposed
<1> HIDE DEF E
<1>7. \A n \in Nodes : DOMAIN links[n] \subseteq Nodes
  BY NeighborMap
<1>8. Solves(links, E)
  BY <1>3, <1>4, <1>5, <1>6, <1>7 DEF Solves
<1>9. E = Transposed(E)
  BY <1>8, SymmetricSolution
<1>10. D = Transposed(E)
  BY <1>1, <1>2, <1>6 DEF Transposed
<1> QED
  BY <1>8, <1>9, <1>10 DEF D
=============================================================================
