--------------------------- MODULE DistVecProofs ---------------------------
(***************************************************************************)
(* Proofs for the distance-vector program: its types, that both of its     *)
(* outputs agree on what is unreachable, that no neighbour is left with an *)
(* outdated vector, that the costs it writes solve the equations of        *)
(* routing, which have one solution, and that until the first change the   *)
(* hops of its tables always lead nearer to the destination.               *)
(***************************************************************************)
EXTENDS DistVec, TopologyProofs, SequenceTheorems

USE DEF Vectors

LEMMA SetMinProperties ==
  ASSUME NEW S, S \subseteq Nat, S # {}
  PROVE  SetMin(S) \in S /\ \A y \in S : SetMin(S) <= y
BY LeastElement DEF SetMin

LEMMA CostViaProperties ==
  ASSUME IsGraph(costToNeighbors), NEW n \in Nodes, NEW view \in [Nodes -> Vectors],
         NEW m \in Neighbors(n), NEW d \in Nodes
  PROVE  /\ CostVia(n, view, m, d) \in Nat
         /\ CostVia(n, view, m, d) >= 1
<1>1. m \in Nodes /\ costToNeighbors[n][m] \in Nat /\ costToNeighbors[n][m] >= 1
  BY GraphProperties DEF Neighbors
<1>2. view[m][d] \in 0 .. INFINI
  BY <1>1
<1>3. view[m][d] \in Nat
  BY <1>2, TopologyAssumption
<1> QED
  BY <1>1, <1>3 DEF CostVia, CostFromNeighbor

\* getMinCostToDestination: the least of what the neighbours offer, up to INFINI.
LEMMA MinCostProperties ==
  ASSUME IsGraph(costToNeighbors), NEW n \in Nodes, NEW view \in [Nodes -> Vectors],
         NEW d \in Nodes
  PROVE  /\ MinCost(n, view, d) \in 0 .. INFINI
         /\ d = n => MinCost(n, view, d) = 0
         /\ d # n =>
              /\ \A m \in Neighbors(n) : MinCost(n, view, d) <= CostVia(n, view, m, d)
              /\ \/ MinCost(n, view, d) = INFINI
                 \/ \E m \in Neighbors(n) : MinCost(n, view, d) = CostVia(n, view, m, d)
<1>1. INFINI \in Nat
  BY TopologyAssumption
<1>2. CASE d = n
  BY <1>1, <1>2 DEF MinCost
<1>3. CASE d # n
  <2> DEFINE offers == {CostVia(n, view, m, d) : m \in Neighbors(n)}
             S == {INFINI} \cup offers
             c == MinCost(n, view, d)
  <2>1. S \subseteq Nat /\ S # {}
    BY <1>1, CostViaProperties
  <2>2. c = SetMin(S)
    BY <1>3 DEF MinCost
  <2> HIDE DEF S, c
  <2>3. c \in S /\ \A y \in S : c <= y
    BY <2>1, <2>2, SetMinProperties
  <2>4. \A y : y \in S <=> (y = INFINI \/ \E m \in Neighbors(n) : y = CostVia(n, view, m, d))
    BY DEF S
  <2>5. c \in Nat /\ c <= INFINI
    BY <2>1, <2>3, <2>4
  <2>6. c \in 0 .. INFINI
    BY <1>1, <2>5
  <2> QED
    BY <1>3, <2>3, <2>4, <2>6 DEF c
<1> QED
  BY <1>2, <1>3

\* The next hop is a node exactly when there is a route.
LEMMA NextHopProperties ==
  ASSUME IsGraph(costToNeighbors), NEW n \in Nodes, NEW view \in [Nodes -> Vectors],
         NEW d \in Nodes
  PROVE  /\ NextHop(n, view, d) \in Nodes \cup {NOHOP}
         /\ NextHop(n, view, d) = NOHOP <=> MinCost(n, view, d) = INFINI
<1>1. Nodes \subseteq Nat /\ NOHOP \notin Nodes /\ INFINI # 0
  BY TopologyAssumption DEF NOHOP
<1>2. CASE d = n
  BY <1>1, <1>2, MinCostProperties DEF NextHop
<1>3. CASE d # n /\ MinCost(n, view, d) = INFINI
  BY <1>3 DEF NextHop
<1>4. CASE d # n /\ MinCost(n, view, d) # INFINI
  <2> DEFINE S == {m \in Neighbors(n) : CostVia(n, view, m, d) = MinCost(n, view, d)}
  <2>1. S # {}
    BY <1>4, MinCostProperties
  <2>2. S \subseteq Nodes
    BY NeighborMap DEF Neighbors
  <2>3. NextHop(n, view, d) = SetMin(S)
    BY <1>4 DEF NextHop
  <2> HIDE DEF S
  <2>4. SetMin(S) \in S
    BY <1>1, <2>1, <2>2, SetMinProperties
  <2> QED
    BY <1>1, <1>4, <2>2, <2>3, <2>4
<1> QED
  BY <1>2, <1>3, <1>4

LEMMA SelfVectorType ==
  ASSUME IsGraph(costToNeighbors), NEW n \in Nodes, NEW view \in [Nodes -> Vectors]
  PROVE  SelfVector(n, view) \in Vectors
BY MinCostProperties DEF SelfVector

LEMMA SelfProperties ==
  ASSUME IsGraph(costToNeighbors), NEW n \in Nodes, NEW view \in [Nodes -> Vectors],
         NEW tab \in [Nodes -> Nodes \cup {NOHOP}]
  PROVE  /\ SelfTable(n, view, tab) \in [Nodes -> Nodes \cup {NOHOP}]
         /\ (\A d \in Nodes : tab[d] = NOHOP <=> view[n][d] = INFINI) =>
              \A d \in Nodes : SelfTable(n, view, tab)[d] = NOHOP
                               <=> SelfVector(n, view)[d] = INFINI
<1>1. SelfTable(n, view, tab) \in [Nodes -> Nodes \cup {NOHOP}]
  BY NextHopProperties DEF SelfTable
<1>2. ASSUME NEW d \in Nodes, tab[d] = NOHOP <=> view[n][d] = INFINI
      PROVE  SelfTable(n, view, tab)[d] = NOHOP <=> SelfVector(n, view)[d] = INFINI
  BY <1>2, NextHopProperties DEF SelfTable, SelfVector
<1> QED
  BY <1>1, <1>2

LEMMA OrderProperties ==
  ASSUME NEW o \in Orders
  PROVE  /\ o \in Seq(Nodes) /\ Len(o) \in Nat /\ Len(o) >= 1
         /\ \A i \in 1 .. Len(o) : o[i] \in Nodes
         /\ \A i, j \in 1 .. Len(o) : o[i] = o[j] => i = j
         /\ \A n \in Nodes : \E i \in 1 .. Len(o) : o[i] = n
<1>1. PICK n : n \in Nodes
  BY TopologyAssumption
<1>2. PICK i \in 1 .. Len(o) : o[i] = n
  BY <1>1, DistVecAssumption
<1>3. o \in Seq(Nodes)
  BY DistVecAssumption
<1>4. Len(o) \in Nat /\ Len(o) >= 1 /\ \A j \in 1 .. Len(o) : o[j] \in Nodes
  BY <1>2, <1>3, ElementOfSeq, LenProperties
<1>5. /\ \A k, j \in 1 .. Len(o) : o[k] = o[j] => k = j
      /\ \A m \in Nodes : \E j \in 1 .. Len(o) : o[j] = m
  BY DistVecAssumption
<1> QED
  BY <1>3, <1>4, <1>5

-----------------------------------------------------------------------------
(* The inductive invariant                                                 *)

PacketOK == pc = "route" => packet \in [at : Nodes \cup {NOHOP}, dest : Nodes]

\* A message has receivers left unless its sender had no neighbour.
QueueOK ==
  \A i \in 1 .. Len(messageQueue) :
    /\ messageQueue[i].neighbors \subseteq DOMAIN costToNeighbors[messageQueue[i].owner]
    /\ messageQueue[i].neighbors = {} => DOMAIN costToNeighbors[messageQueue[i].owner] = {}

\* While the nodes start, the queue has the vectors of those that have.
PhaseOK ==
  /\ pc \notin {"converge", "deliver"} => messageQueue = <<>>
  /\ pc # "converge" => turn = 1
  /\ pc = "converge" =>
       /\ Len(messageQueue) = turn - 1
       /\ \A i \in 1 .. turn - 1 :
            /\ messageQueue[i].owner = order[i]
            /\ messageQueue[i].neighbors = DOMAIN costToNeighbors[order[i]]
            /\ messageQueue[i].vector = disVectors[order[i]][order[i]]

Started(n) == pc = "converge" => \E i \in 1 .. turn - 1 : order[i] = n

Offer(links, view, n, m, d) == links[n][m] + (IF m = d THEN 0 ELSE view[m][d])

\* The node's vector is what updateSelfDistanceVector makes of what it knows.
Current(links, view, n) ==
  /\ view[n][n] = 0
  /\ \A d \in Nodes \ {n} :
       /\ \A m \in DOMAIN links[n] : view[n][d] <= Offer(links, view, n, m, d)
       /\ \/ view[n][d] = INFINI
          \/ \E m \in DOMAIN links[n] : view[n][d] = Offer(links, view, n, m, d)

VectorsCurrent ==
  \A n \in Nodes : Started(n) => Current(costToNeighbors, disVectors[n], n)

Inv == /\ TypeOK /\ PacketOK /\ QueueOK /\ PhaseOK
       /\ UnreachableAgree /\ LatestVectorKnown /\ VectorsCurrent

LEMMA InitInv == Init => Inv
<1> SUFFICES ASSUME Init PROVE Inv
  OBVIOUS
<1>1. IsGraph(costToNeighbors)
  BY TopologyAssumption DEF Init
<1>2. INFINI \in 0 .. INFINI /\ NoView \in [Nodes -> Vectors]
  BY TopologyAssumption DEF NoView, NoVector
<1>3. \A n \in Nodes : SelfVector(n, NoView) \in Vectors
  BY <1>1, <1>2, SelfVectorType
<1> DEFINE none == [d \in Nodes |-> NOHOP]
<1>4. none \in [Nodes -> Nodes \cup {NOHOP}]
  OBVIOUS
<1>5. \A n \in Nodes : SelfTable(n, NoView, none) \in [Nodes -> Nodes \cup {NOHOP}]
  BY <1>1, <1>2, <1>4, SelfProperties
<1>6. \A n, d \in Nodes : SelfTable(n, NoView, none)[d] = NOHOP
                         <=> SelfVector(n, NoView)[d] = INFINI
  <2>1. \A n, d \in Nodes : none[d] = NOHOP <=> NoView[n][d] = INFINI
    BY DEF NoView, NoVector
  <2> QED
    BY <1>1, <1>2, <1>4, <2>1, SelfProperties
<1>7. order \in Orders /\ Len(order) \in Nat /\ Len(order) >= 1
  BY OrderProperties DEF Init
<1>8. TypeOK
  <2>1. disVectors \in [Nodes -> [Nodes -> Vectors]]
    BY <1>2, <1>3 DEF Init
  <2>2. forwardingTable \in [Nodes -> [Nodes -> Nodes \cup {NOHOP}]]
    BY <1>5 DEF Init
  <2>3. messageQueue \in Seq(Messages) /\ turn \in 1 .. Len(order)
    BY <1>7 DEF Init
  <2>4. changesLeft \in 0 .. MaxChanges
    BY TopologyAssumption DEF Init
  <2> QED
    BY <1>1, <2>1, <2>2, <2>3, <2>4 DEF TypeOK, Init
<1>9. UnreachableAgree
  <2>1. \A n \in Nodes : disVectors[n][n] = SelfVector(n, NoView)
    BY <1>2 DEF Init
  <2> QED
    BY <1>6, <2>1 DEF Init, UnreachableAgree
<1>10. PacketOK /\ QueueOK /\ PhaseOK /\ LatestVectorKnown /\ VectorsCurrent
  BY DEF Init, PacketOK, QueueOK, PhaseOK, LatestVectorKnown, VectorsCurrent, Started
<1> QED
  BY <1>8, <1>9, <1>10 DEF Inv

\* What a node knows of itself is left out of its vector.
LEMMA SelfVectorCurrent ==
  ASSUME IsGraph(costToNeighbors), NEW n \in Nodes, NEW view \in [Nodes -> Vectors]
  PROVE  Current(costToNeighbors, [view EXCEPT ![n] = SelfVector(n, view)], n)
<1> DEFINE own == SelfVector(n, view)
           new == [view EXCEPT ![n] = own]
<1>1. own \in Vectors /\ \A d \in Nodes : own[d] = MinCost(n, view, d)
  BY SelfVectorType DEF SelfVector
<1>2. new[n] = own /\ \A m \in Nodes \ {n} : new[m] = view[m]
  BY <1>1
<1>3. /\ Neighbors(n) = DOMAIN costToNeighbors[n]
      /\ DOMAIN costToNeighbors[n] \subseteq Nodes \ {n}
  BY GraphProperties DEF Neighbors
<1> HIDE DEF own, new
<1>4. \A m \in DOMAIN costToNeighbors[n], d \in Nodes :
        CostVia(n, view, m, d) = Offer(costToNeighbors, new, n, m, d)
  BY <1>2, <1>3 DEF CostVia, CostFromNeighbor, Offer
<1>5. own[n] = 0
  BY <1>1, MinCostProperties
<1>6. ASSUME NEW d \in Nodes \ {n}
      PROVE  /\ \A m \in Neighbors(n) : own[d] <= CostVia(n, view, m, d)
             /\ \/ own[d] = INFINI
                \/ \E m \in Neighbors(n) : own[d] = CostVia(n, view, m, d)
  BY <1>1, MinCostProperties
<1>7. Current(costToNeighbors, new, n)
  BY <1>2, <1>3, <1>4, <1>5, <1>6 DEF Current
<1> QED
  BY <1>7 DEF new, own

LEMMA StartNodeInv == Inv /\ StartNode => Inv'
<1> SUFFICES ASSUME Inv, StartNode PROVE Inv'
  OBVIOUS
<1> DEFINE n == order[turn]
           vector == SelfVector(n, disVectors[n])
<1>1. /\ IsGraph(costToNeighbors) /\ disVectors \in [Nodes -> [Nodes -> Vectors]]
      /\ forwardingTable \in [Nodes -> [Nodes -> Nodes \cup {NOHOP}]]
      /\ messageQueue \in Seq(Messages) /\ order \in Orders
      /\ turn \in 1 .. Len(order) /\ pc = "converge" /\ changesLeft \in 0 .. MaxChanges
      /\ packet \in {<<>>} \cup [at : Nodes \cup {NOHOP}, dest : Nodes]
  BY DEF Inv, TypeOK, StartNode
<1>2. /\ order \in Seq(Nodes) /\ Len(order) \in Nat /\ n \in Nodes
      /\ turn \in Nat /\ 1 <= turn /\ turn <= Len(order)
      /\ \A i \in 1 .. Len(order) : order[i] = n => i = turn
      /\ \A m \in Nodes : \E i \in 1 .. Len(order) : order[i] = m
  <2>1. Len(order) \in Nat
    BY <1>1, OrderProperties
  <2>2. turn \in Nat /\ 1 <= turn /\ turn <= Len(order)
    BY <1>1, <2>1
  <2>3. n \in Nodes /\ \A i \in 1 .. Len(order) : order[i] = n => i = turn
    BY <1>1, OrderProperties
  <2> QED
    BY <1>1, <2>1, <2>2, <2>3, OrderProperties
<1>3. /\ disVectors' = [disVectors EXCEPT ![n][n] = vector]
      /\ forwardingTable' =
              [forwardingTable EXCEPT ![n] = SelfTable(n, disVectors[n], @)]
      /\ messageQueue' = Append(messageQueue, Message(n, vector))
      /\ \/ turn < Len(order) /\ turn' = turn + 1 /\ pc' = "converge"
         \/ turn = Len(order) /\ turn' = 1 /\ pc' = "deliver"
      /\ UNCHANGED <<costToNeighbors, order, changesLeft, packet>>
  <2>1. turn < Len(order) \/ (turn = Len(order) /\ ~ (turn < Len(order)))
    BY <1>2
  <2>2. \/ turn < Len(order) /\ turn' = turn + 1 /\ pc' = "converge"
        \/ turn = Len(order) /\ turn' = 1 /\ pc' = "deliver"
    BY <2>1 DEF StartNode
  <2> QED
    BY <2>2 DEF StartNode
<1>4. vector \in Vectors
  BY <1>1, <1>2, SelfVectorType
<1> DEFINE mesg == Message(n, vector)
<1>5. /\ mesg \in Messages /\ mesg.owner = n /\ mesg.vector = vector
      /\ mesg.neighbors = DOMAIN costToNeighbors[n]
  BY <1>1, <1>2, <1>4, NeighborMap DEF Message, Messages, Neighbors
<1>6. /\ messageQueue' \in Seq(Messages) /\ Len(messageQueue) \in Nat
      /\ Len(messageQueue') = Len(messageQueue) + 1
      /\ \A i \in 1 .. Len(messageQueue) : messageQueue'[i] = messageQueue[i]
      /\ messageQueue'[Len(messageQueue) + 1] = mesg
  BY <1>1, <1>3, <1>5, AppendProperties
<1>7. /\ disVectors' \in [Nodes -> [Nodes -> Vectors]] /\ disVectors'[n][n] = vector
      /\ disVectors'[n] = [disVectors[n] EXCEPT ![n] = vector]
      /\ \A m \in Nodes \ {n} : disVectors'[m] = disVectors[m]
  BY <1>1, <1>2, <1>3, <1>4
<1>8. /\ forwardingTable' \in [Nodes -> [Nodes -> Nodes \cup {NOHOP}]]
      /\ forwardingTable'[n] = SelfTable(n, disVectors[n], forwardingTable[n])
      /\ \A m \in Nodes \ {n} : forwardingTable'[m] = forwardingTable[m]
  BY <1>1, <1>2, <1>3, SelfProperties
<1>9. \A d \in Nodes : forwardingTable'[n][d] = NOHOP <=> disVectors'[n][n][d] = INFINI
  <2>1. \A d \in Nodes : forwardingTable[n][d] = NOHOP <=> disVectors[n][n][d] = INFINI
    BY <1>2 DEF Inv, UnreachableAgree
  <2>2. disVectors[n] \in [Nodes -> Vectors]
        /\ forwardingTable[n] \in [Nodes -> Nodes \cup {NOHOP}]
    BY <1>1, <1>2
  <2>3. \A d \in Nodes : SelfTable(n, disVectors[n], forwardingTable[n])[d] = NOHOP
                          <=> SelfVector(n, disVectors[n])[d] = INFINI
    <3>1. \A view \in [Nodes -> Vectors], tab \in [Nodes -> Nodes \cup {NOHOP}] :
            (\A d \in Nodes : tab[d] = NOHOP <=> view[n][d] = INFINI) =>
              \A d \in Nodes : SelfTable(n, view, tab)[d] = NOHOP
                               <=> SelfVector(n, view)[d] = INFINI
      BY <1>1, <1>2, SelfProperties
    <3> QED
      BY <2>1, <2>2, <3>1, Zenon
  <2> QED
    BY <1>7, <1>8, <2>3
<1>10. Current(costToNeighbors', disVectors'[n], n)
  BY <1>1, <1>2, <1>3, <1>7, SelfVectorCurrent
<1> HIDE DEF n, vector, mesg
<1>11. TypeOK'
  <2>1. turn' \in 1 .. Len(order)
    BY <1>2, <1>3
  <2> QED
    BY <1>1, <1>3, <1>6, <1>7, <1>8, <2>1 DEF TypeOK
<1>12. UnreachableAgree'
  <2>1. ASSUME NEW m \in Nodes, m # n, NEW d \in Nodes
        PROVE  forwardingTable'[m][d] = NOHOP <=> disVectors'[m][m][d] = INFINI
    <3>1. forwardingTable'[m] = forwardingTable[m] /\ disVectors'[m] = disVectors[m]
      BY <1>7, <1>8, <2>1
    <3> QED
      BY <3>1 DEF Inv, UnreachableAgree
  <2> QED
    BY <1>9, <2>1 DEF UnreachableAgree
<1>13. QueueOK'
  <2>1. ASSUME NEW i \in 1 .. Len(messageQueue)
        PROVE  /\ messageQueue'[i].neighbors \subseteq
                    DOMAIN costToNeighbors[messageQueue'[i].owner]
               /\ messageQueue'[i].neighbors = {} =>
                    DOMAIN costToNeighbors[messageQueue'[i].owner] = {}
    BY <1>6 DEF Inv, QueueOK
  <2>2. \A i \in 1 .. Len(messageQueue') :
          i \in 1 .. Len(messageQueue) \/ i = Len(messageQueue) + 1
    BY <1>6
  <2> QED
    BY <1>3, <1>5, <1>6, <2>1, <2>2 DEF QueueOK
<1>14. /\ Len(messageQueue') = turn
       /\ \A i \in 1 .. turn :
            /\ messageQueue'[i].owner = order[i]
            /\ messageQueue'[i].neighbors = DOMAIN costToNeighbors[order[i]]
            /\ messageQueue'[i].vector = disVectors'[order[i]][order[i]]
  <2>1. Len(messageQueue) = turn - 1 /\ Len(messageQueue') = turn
    BY <1>1, <1>6 DEF Inv, PhaseOK
  <2>2. ASSUME NEW i \in 1 .. turn - 1
        PROVE  /\ messageQueue'[i].owner = order[i]
               /\ messageQueue'[i].neighbors = DOMAIN costToNeighbors[order[i]]
               /\ messageQueue'[i].vector = disVectors'[order[i]][order[i]]
    <3>1. messageQueue'[i] = messageQueue[i]
      BY <1>6, <2>1
    <3>2. order[i] \in Nodes \ {n}
      <4>1. i \in 1 .. Len(order) /\ i # turn
        BY <1>2
      <4> QED
        BY <1>2, <4>1, ElementOfSeq
    <3> QED
      BY <1>1, <1>7, <3>1, <3>2 DEF Inv, PhaseOK
  <2>3. messageQueue'[turn] = mesg /\ order[turn] = n
    BY <1>1, <1>6, <2>1 DEF n
  <2>4. \A i \in 1 .. turn : i \in 1 .. turn - 1 \/ i = turn
    BY <1>1
  <2> QED
    BY <1>5, <1>7, <2>1, <2>2, <2>3, <2>4
<1>15. PhaseOK'
  <2>1. CASE turn' = 1 /\ pc' = "deliver"
    BY <2>1 DEF PhaseOK
  <2>2. CASE turn' = turn + 1 /\ pc' = "converge"
    <3>1. turn' - 1 = turn
      BY <1>1, <2>2
    <3> QED
      BY <1>3, <1>14, <2>2, <3>1 DEF PhaseOK
  <2> QED
    BY <1>3, <2>1, <2>2
<1>16. VectorsCurrent'
  <2>1. ASSUME NEW m \in Nodes, m # n, Started(m)' PROVE Started(m)
    <3>1. PICK i \in 1 .. turn : order[i] = m
      <4>1. CASE turn' = turn + 1 /\ pc' = "converge"
        BY <1>1, <1>3, <2>1, <4>1 DEF Started
      <4>2. CASE turn = Len(order)
        BY <1>2, <4>2
      <4> QED
        BY <1>3, <4>1, <4>2
    <3>2. i # turn
      BY <2>1, <3>1 DEF n
    <3>3. i \in 1 .. turn - 1
      BY <1>1, <3>2
    <3> QED
      BY <3>1, <3>3 DEF Started
  <2>2. ASSUME NEW m \in Nodes, Started(m)'
        PROVE  Current(costToNeighbors', disVectors'[m], m)
    <3>1. CASE m = n
      BY <1>10, <3>1
    <3>2. CASE m # n
      <4>1. Current(costToNeighbors, disVectors[m], m)
        BY <2>1, <2>2, <3>2 DEF Inv, VectorsCurrent
      <4> QED
        BY <1>3, <1>7, <3>2, <4>1
    <3> QED
      BY <3>1, <3>2
  <2> QED
    BY <2>2 DEF VectorsCurrent
<1>17. LatestVectorKnown'
  <2> SUFFICES ASSUME pc' # "converge" PROVE LatestVectorKnown'
    BY DEF LatestVectorKnown
  <2>1. turn = Len(order) /\ Len(messageQueue') = Len(order)
    BY <1>3, <1>14
  <2>2. ASSUME NEW x \in Nodes, NEW y \in DOMAIN costToNeighbors'[x]
        PROVE  /\ Waiting(x, y)' # {}
               /\ \A i \in Waiting(x, y)' : messageQueue'[i].vector = disVectors'[y][y]
    <3>1. y \in Nodes /\ x \in DOMAIN costToNeighbors[y]
      BY <1>1, <1>3, GraphProperties
    <3>2. PICK i \in 1 .. Len(order) : order[i] = y
      BY <1>2, <3>1
    <3>3. i \in Waiting(x, y)'
      BY <1>14, <2>1, <3>1, <3>2 DEF Waiting
    <3>4. ASSUME NEW j \in Waiting(x, y)' PROVE messageQueue'[j].vector = disVectors'[y][y]
      <4>1. j \in 1 .. turn /\ messageQueue'[j].owner = y
        BY <2>1 DEF Waiting
      <4> QED
        BY <1>14, <4>1
    <3> QED
      BY <3>3, <3>4
  <2> QED
    BY <2>2 DEF LatestVectorKnown, Neighbors
<1>18. PacketOK'
  BY <1>3 DEF PacketOK
<1> QED
  BY <1>11, <1>12, <1>13, <1>15, <1>16, <1>17, <1>18 DEF Inv

-----------------------------------------------------------------------------
(* Delivery                                                                *)

Shift(n) == IF messageQueue[1].neighbors = {n} THEN 1 ELSE 0

\* Delivering to one receiver takes it out of the first message, and pops that
\* message when it was the last receiver.
LEMMA DeliveredProperties ==
  ASSUME messageQueue \in Seq(Messages), messageQueue # <<>>,
         NEW n \in Head(messageQueue).neighbors
  PROVE  /\ Len(messageQueue) \in Nat /\ Len(messageQueue) >= 1
         /\ Head(messageQueue) = messageQueue[1]
         /\ Delivered(n) \in Seq(Messages)
         /\ Len(Delivered(n)) = Len(messageQueue) - Shift(n)
         /\ \A i \in 1 .. Len(messageQueue) - Shift(n) :
              /\ Delivered(n)[i].owner = messageQueue[i + Shift(n)].owner
              /\ Delivered(n)[i].vector = messageQueue[i + Shift(n)].vector
              /\ Delivered(n)[i].neighbors =
                   IF i + Shift(n) = 1 THEN messageQueue[1].neighbors \ {n}
                   ELSE messageQueue[i + Shift(n)].neighbors
<1> DEFINE q == messageQueue
           rest == Tail(q)
           part == [q[1] EXCEPT !.neighbors = @ \ {n}]
           del == <<part>> \o rest
<1>1. Len(q) \in Nat /\ Len(q) >= 1 /\ Head(q) = q[1]
  BY EmptySeq
<1>2. /\ rest \in Seq(Messages) /\ Len(rest) = Len(q) - 1
      /\ \A i \in 1 .. Len(q) - 1 : rest[i] = q[i + 1]
  BY HeadTailProperties
<1>3. q[1] \in Messages
  BY <1>1, ElementOfSeq
<1>4. CASE q[1].neighbors = {n}
  <2>1. Delivered(n) = rest /\ Shift(n) = 1
    BY <1>1, <1>4 DEF Delivered, Shift
  <2> HIDE DEF q, rest
  <2>2. Len(rest) = Len(q) - Shift(n)
    BY <1>2, <2>1
  <2>3. ASSUME NEW i \in 1 .. Len(q) - Shift(n)
        PROVE  /\ rest[i] = q[i + Shift(n)]
               /\ i + Shift(n) # 1
    BY <1>1, <1>2, <2>1
  <2> QED
    BY <1>1, <1>2, <2>1, <2>2, <2>3 DEF q
<1>5. CASE q[1].neighbors # {n}
  <2>1. /\ part \in Messages /\ part.owner = q[1].owner /\ part.vector = q[1].vector
        /\ part.neighbors = q[1].neighbors \ {n}
    BY <1>3 DEF Messages
  <2>2. Delivered(n) = del /\ Shift(n) = 0
    BY <1>1, <1>5 DEF Delivered, Shift
  <2> HIDE DEF q, part, rest
  <2>3. <<part>> \in Seq(Messages) /\ Len(<<part>>) = 1 /\ <<part>>[1] = part
    BY <2>1
  <2>4. /\ del \in Seq(Messages) /\ Len(del) = Len(q)
        /\ \A i \in 1 .. Len(q) : del[i] = IF i = 1 THEN part ELSE q[i]
    <3>1. /\ del \in Seq(Messages) /\ Len(del) = Len(<<part>>) + Len(rest)
          /\ \A i \in 1 .. Len(<<part>>) + Len(rest) :
               del[i] = IF i <= Len(<<part>>) THEN <<part>>[i] ELSE rest[i - Len(<<part>>)]
      BY <1>2, <2>3, ConcatProperties
    <3> HIDE DEF del
    <3>2. ASSUME NEW i \in 1 .. Len(q) PROVE del[i] = IF i = 1 THEN part ELSE q[i]
      <4>1. CASE i = 1
        BY <1>1, <1>2, <2>3, <3>1, <4>1
      <4>2. CASE i # 1
        <5>1. i - 1 \in 1 .. Len(q) - 1 /\ ~ (i <= 1) /\ (i - 1) + 1 = i
          BY <1>1, <4>2
        <5>2. del[i] = rest[i - 1]
          BY <1>1, <1>2, <2>3, <3>1, <5>1
        <5> QED
          BY <1>2, <4>2, <5>1, <5>2
      <4> QED
        BY <4>1, <4>2
    <3> QED
      BY <1>1, <1>2, <2>3, <3>1, <3>2
  <2> HIDE DEF del
  <2>5. \A i \in 1 .. Len(q) :
          /\ del[i].owner = q[i].owner
          /\ del[i].vector = q[i].vector
          /\ del[i].neighbors = IF i = 1 THEN q[1].neighbors \ {n} ELSE q[i].neighbors
    BY <2>1, <2>4
  <2>6. Len(q) - Shift(n) = Len(q) /\ \A i \in 1 .. Len(q) : i + Shift(n) = i
    BY <1>1, <2>2
  <2>7. \A i \in 1 .. Len(q) - Shift(n) :
          /\ del[i].owner = q[i + Shift(n)].owner
          /\ del[i].vector = q[i + Shift(n)].vector
          /\ del[i].neighbors = IF i + Shift(n) = 1 THEN q[1].neighbors \ {n}
                                ELSE q[i + Shift(n)].neighbors
    BY <2>5, <2>6
  <2> QED
    BY <1>1, <2>2, <2>4, <2>6, <2>7 DEF q
<1> QED
  BY <1>4, <1>5

LEMMA ReceiveVectorInv == Inv /\ ReceiveVector => Inv'
<1> SUFFICES ASSUME Inv, ReceiveVector PROVE Inv'
  OBVIOUS
<1> DEFINE mesg == Head(messageQueue)
           n == SetMin(mesg.neighbors)
           o == mesg.owner
           view == [disVectors[n] EXCEPT ![o] = mesg.vector]
           vector == SelfVector(n, view)
           changed == vector # view[n]
           s == Shift(n)
           L == Len(messageQueue) - s
<1>1. /\ IsGraph(costToNeighbors) /\ disVectors \in [Nodes -> [Nodes -> Vectors]]
      /\ forwardingTable \in [Nodes -> [Nodes -> Nodes \cup {NOHOP}]]
      /\ messageQueue \in Seq(Messages) /\ order \in Orders
      /\ turn \in 1 .. Len(order) /\ pc = "deliver" /\ changesLeft \in 0 .. MaxChanges
      /\ packet \in {<<>>} \cup [at : Nodes \cup {NOHOP}, dest : Nodes]
      /\ messageQueue # <<>> /\ mesg.neighbors # {}
  BY DEF Inv, TypeOK, ReceiveVector
<1>2. /\ disVectors' = [disVectors EXCEPT ![n] = [view EXCEPT ![n] = vector]]
      /\ forwardingTable' = [forwardingTable EXCEPT ![n] = SelfTable(n, view, @)]
      /\ changed => messageQueue' = Append(Delivered(n), Message(n, vector))
      /\ ~ changed => messageQueue' = Delivered(n)
      /\ UNCHANGED <<costToNeighbors, order, turn, changesLeft, pc, packet>>
  BY DEF ReceiveVector
<1>3. /\ Len(messageQueue) \in Nat /\ Len(messageQueue) >= 1 /\ mesg = messageQueue[1]
      /\ mesg \in Messages /\ o \in Nodes /\ mesg.vector \in Vectors
      /\ mesg.neighbors \subseteq DOMAIN costToNeighbors[o]
  <2>1. Len(messageQueue) \in Nat /\ Len(messageQueue) >= 1 /\ mesg = messageQueue[1]
    BY <1>1, EmptySeq
  <2>2. mesg \in Messages
    BY <1>1, <2>1, ElementOfSeq
  <2> QED
    BY <2>1, <2>2 DEF Messages, Inv, QueueOK
<1>4. n \in mesg.neighbors /\ n \in Nodes /\ n # o
  <2>1. mesg.neighbors \subseteq Nodes /\ o \notin mesg.neighbors
    BY <1>1, <1>3, GraphProperties
  <2>2. mesg.neighbors \subseteq Nat
    BY <2>1, TopologyAssumption
  <2>3. n \in mesg.neighbors
    BY <1>1, <2>2, SetMinProperties
  <2> QED
    BY <2>1, <2>3
<1>5. /\ view \in [Nodes -> Vectors] /\ view[n] = disVectors[n][n]
      /\ view[o] = mesg.vector
      /\ \A m \in Nodes \ {o} : view[m] = disVectors[n][m]
  <2> HIDE DEF n, o, mesg
  <2> QED
    BY <1>1, <1>3, <1>4
<1>6. vector \in Vectors
  BY <1>1, <1>4, <1>5, SelfVectorType
<1>7. /\ s \in {0, 1} /\ (s = 1 <=> mesg.neighbors = {n})
      /\ Delivered(n) \in Seq(Messages) /\ Len(Delivered(n)) = L
      /\ \A i \in 1 .. L :
           /\ Delivered(n)[i].owner = messageQueue[i + s].owner
           /\ Delivered(n)[i].vector = messageQueue[i + s].vector
           /\ Delivered(n)[i].neighbors =
                IF i + s = 1 THEN mesg.neighbors \ {n} ELSE messageQueue[i + s].neighbors
  <2>1. /\ Delivered(n) \in Seq(Messages) /\ Len(Delivered(n)) = L
        /\ \A i \in 1 .. L :
           /\ Delivered(n)[i].owner = messageQueue[i + s].owner
           /\ Delivered(n)[i].vector = messageQueue[i + s].vector
           /\ Delivered(n)[i].neighbors =
                IF i + s = 1 THEN messageQueue[1].neighbors \ {n}
                ELSE messageQueue[i + s].neighbors
    <3> HIDE DEF n
    <3> QED
      BY <1>1, <1>4, DeliveredProperties
  <2>2. s \in {0, 1} /\ (s = 1 <=> mesg.neighbors = {n})
    BY <1>3 DEF Shift
  <2> HIDE DEF s, L, n
  <2> QED
    BY <1>3, <2>1, <2>2
<1> DEFINE new == Message(n, vector)
<1>8. /\ new \in Messages /\ new.owner = n /\ new.vector = vector
      /\ new.neighbors = DOMAIN costToNeighbors[n]
  BY <1>1, <1>4, <1>6, NeighborMap DEF Message, Messages, Neighbors
<1>9. Current(costToNeighbors, [view EXCEPT ![n] = vector], n)
  BY <1>1, <1>4, <1>5, SelfVectorCurrent
<1>10. /\ SelfTable(n, view, forwardingTable[n]) \in [Nodes -> Nodes \cup {NOHOP}]
       /\ \A d \in Nodes : SelfTable(n, view, forwardingTable[n])[d] = NOHOP
                             <=> vector[d] = INFINI
  <2>1. forwardingTable[n] \in [Nodes -> Nodes \cup {NOHOP}]
    BY <1>1, <1>4
  <2>2. \A d \in Nodes : forwardingTable[n][d] = NOHOP <=> view[n][d] = INFINI
    BY <1>4, <1>5 DEF Inv, UnreachableAgree
  <2> HIDE DEF view, n
  <2> QED
    BY <1>1, <1>4, <1>5, <2>1, <2>2, SelfProperties
<1> HIDE DEF mesg, n, o, view, vector, s, L, new, changed
<1>11. /\ disVectors' \in [Nodes -> [Nodes -> Vectors]] /\ disVectors'[n][n] = vector
       /\ disVectors'[n] = [view EXCEPT ![n] = vector]
       /\ disVectors'[n][o] = mesg.vector
       /\ \A m \in Nodes \ {n, o} : disVectors'[n][m] = disVectors[n][m]
       /\ \A m \in Nodes \ {n} : disVectors'[m] = disVectors[m]
  BY <1>1, <1>2, <1>3, <1>4, <1>5, <1>6
<1>12. /\ forwardingTable' \in [Nodes -> [Nodes -> Nodes \cup {NOHOP}]]
       /\ forwardingTable'[n] = SelfTable(n, view, forwardingTable[n])
       /\ \A m \in Nodes \ {n} : forwardingTable'[m] = forwardingTable[m]
  BY <1>1, <1>2, <1>4, <1>10
<1>13. UnreachableAgree'
  <2>1. ASSUME NEW m \in Nodes, m # n, NEW d \in Nodes
        PROVE  forwardingTable'[m][d] = NOHOP <=> disVectors'[m][m][d] = INFINI
    <3>1. forwardingTable'[m] = forwardingTable[m] /\ disVectors'[m] = disVectors[m]
      BY <1>11, <1>12, <2>1
    <3> QED
      BY <3>1 DEF Inv, UnreachableAgree
  <2>2. \A d \in Nodes : forwardingTable'[n][d] = NOHOP <=> disVectors'[n][n][d] = INFINI
    BY <1>10, <1>11, <1>12
  <2> QED
    BY <2>1, <2>2 DEF UnreachableAgree
<1>14. VectorsCurrent'
  <2>1. ASSUME NEW m \in Nodes
        PROVE  Current(costToNeighbors', disVectors'[m], m)
    <3>1. CASE m = n
      BY <1>2, <1>9, <1>11, <3>1
    <3>2. CASE m # n
      <4>1. Current(costToNeighbors, disVectors[m], m)
        BY <1>1 DEF Inv, VectorsCurrent, Started
      <4> QED
        BY <1>2, <1>11, <3>2, <4>1
    <3> QED
      BY <3>1, <3>2
  <2> QED
    BY <2>1 DEF VectorsCurrent
\* The new queue, entry by entry.
<1>15. L \in Nat /\ \A i \in 1 .. L : i + s \in 1 .. Len(messageQueue)
  BY <1>3, <1>7 DEF L
<1>16. /\ messageQueue' \in Seq(Messages)
       /\ \A i \in 1 .. L :
           /\ messageQueue'[i].owner = messageQueue[i + s].owner
           /\ messageQueue'[i].vector = messageQueue[i + s].vector
           /\ messageQueue'[i].neighbors =
                IF i + s = 1 THEN mesg.neighbors \ {n} ELSE messageQueue[i + s].neighbors
       /\ changed => Len(messageQueue') = L + 1 /\ messageQueue'[L + 1] = new
       /\ ~ changed => Len(messageQueue') = L
  <2>1. CASE changed
    <3>1. /\ messageQueue' \in Seq(Messages) /\ Len(messageQueue') = L + 1
          /\ messageQueue'[L + 1] = new
          /\ \A i \in 1 .. L : messageQueue'[i] = Delivered(n)[i]
      <4>1. messageQueue' = Append(Delivered(n), new)
        BY <1>2, <2>1 DEF new
      <4>2. Delivered(n) \in Seq(Messages) /\ new \in Messages /\ Len(Delivered(n)) = L
        BY <1>7, <1>8
      <4> QED
        BY <4>1, <4>2, AppendProperties
    <3> QED
      BY <1>7, <2>1, <3>1
  <2>2. CASE ~ changed
    BY <1>2, <1>7, <2>2
  <2> QED
    BY <2>1, <2>2
<1>17. QueueOK'
  <2>1. ASSUME NEW i \in 1 .. L
        PROVE  /\ messageQueue'[i].neighbors \subseteq
                    DOMAIN costToNeighbors[messageQueue'[i].owner]
               /\ messageQueue'[i].neighbors = {} =>
                    DOMAIN costToNeighbors[messageQueue'[i].owner] = {}
    <3>1. /\ messageQueue[i + s].neighbors \subseteq
               DOMAIN costToNeighbors[messageQueue[i + s].owner]
          /\ messageQueue[i + s].neighbors = {} =>
               DOMAIN costToNeighbors[messageQueue[i + s].owner] = {}
      BY <1>15 DEF Inv, QueueOK
    <3>2. CASE i + s = 1
      <4>1. s = 0 /\ mesg.neighbors \ {n} # {}
        BY <1>4, <1>7, <3>2
      <4> QED
        BY <1>3, <1>16, <3>1, <3>2, <4>1
    <3>3. CASE i + s # 1
      BY <1>16, <3>1, <3>3
    <3> QED
      BY <3>2, <3>3
  <2>2. \A i \in 1 .. Len(messageQueue') :
          i \in 1 .. L \/ (changed /\ i = L + 1)
    BY <1>15, <1>16
  <2> QED
    BY <1>2, <1>8, <1>16, <2>1, <2>2 DEF QueueOK
<1>18. ASSUME NEW x \in Nodes, NEW y \in DOMAIN costToNeighbors[x]
       PROVE  /\ Waiting(x, y)' = {} => disVectors'[x][y] = disVectors'[y][y]
              /\ \A i \in Waiting(x, y)' :
                   (\A j \in Waiting(x, y)' : j <= i) =>
                      messageQueue'[i].vector = disVectors'[y][y]
  <2> DEFINE W == Waiting(x, y)
             V == Waiting(x, y)'
  <2>1. y \in Nodes /\ y # x /\ x \in DOMAIN costToNeighbors[y]
    BY <1>1, GraphProperties
  <2>2. /\ W = {} => disVectors[x][y] = disVectors[y][y]
        /\ \A i \in W : (\A j \in W : j <= i) => messageQueue[i].vector = disVectors[y][y]
    BY <1>1 DEF Inv, LatestVectorKnown, Neighbors
  <2>3. /\ W \subseteq Int /\ V \subseteq Int
        /\ \A i : i \in W <=> (/\ i \in 1 .. Len(messageQueue)
                               /\ messageQueue[i].owner = y
                               /\ x \in messageQueue[i].neighbors)
        /\ \A i : i \in V <=> (/\ i \in 1 .. Len(messageQueue')
                               /\ messageQueue'[i].owner = y
                               /\ x \in messageQueue'[i].neighbors)
    BY DEF Waiting
  <2> HIDE DEF W, V
  <2>4. CASE y = n /\ changed
    <3>1. L + 1 \in V
      BY <1>8, <1>15, <1>16, <2>1, <2>3, <2>4
    <3>2. \A i \in V : i <= L + 1
      BY <1>15, <1>16, <2>3, <2>4
    <3>3. messageQueue'[L + 1].vector = disVectors'[y][y]
      BY <1>8, <1>11, <1>16, <2>4
    <3>4. ASSUME NEW i \in V, \A j \in V : j <= i PROVE i = L + 1
      BY <1>15, <2>3, <3>1, <3>2, <3>4
    <3> QED
      BY <3>1, <3>3, <3>4 DEF V
  <2>5. CASE ~ (y = n /\ changed)
    <3>1. disVectors'[y][y] = disVectors[y][y]
      <4>1. CASE y = n
        BY <1>5, <1>11, <2>5, <4>1 DEF changed
      <4>2. CASE y # n
        BY <1>11, <2>1, <4>2
      <4> QED
        BY <4>1, <4>2
    <3>2. ASSUME NEW i \in V PROVE i \in 1 .. L /\ messageQueue'[i].owner = y
      <4>1. i \in 1 .. L \/ (changed /\ i = L + 1)
        BY <1>15, <1>16, <2>3
      <4> QED
        BY <1>8, <1>16, <2>3, <2>5, <4>1
    <3>3. ASSUME NEW i \in V
          PROVE  /\ i + s \in W /\ ~ (x = n /\ y = o /\ i + s = 1)
                 /\ messageQueue'[i].vector = messageQueue[i + s].vector
      BY <1>3, <1>15, <1>16, <2>3, <3>2
    <3>4. ASSUME NEW i \in W, ~ (x = n /\ y = o /\ i = 1)
          PROVE  i - s \in V
      <4>1. i \in 1 .. Len(messageQueue)
        BY <2>3
      <4>2. i - s >= 1
        <5>1. CASE i = 1
          <6>1. messageQueue[1].owner = o /\ x \in mesg.neighbors /\ o = y
            BY <1>3, <2>3, <5>1 DEF o
          <6>2. x # n
            BY <3>4, <5>1, <6>1
          <6> QED
            BY <1>4, <1>7, <4>1, <5>1, <6>1, <6>2
        <5>2. CASE i # 1
          BY <1>7, <4>1, <5>2
        <5> QED
          BY <5>1, <5>2
      <4>3. i - s \in 1 .. L /\ (i - s) + s = i
        BY <1>3, <1>7, <4>1, <4>2 DEF L
      <4>4. /\ messageQueue'[i - s].owner = messageQueue[i].owner
            /\ messageQueue'[i - s].neighbors =
                 IF i = 1 THEN mesg.neighbors \ {n} ELSE messageQueue[i].neighbors
        BY <1>16, <4>3
      <4>5. x \in messageQueue'[i - s].neighbors
        <5>1. CASE i = 1
          <6>1. messageQueue[1].owner = o /\ x \in mesg.neighbors /\ o = y
            BY <1>3, <2>3, <5>1 DEF o
          <6> QED
            BY <3>4, <4>4, <5>1, <6>1
        <5>2. CASE i # 1
          BY <2>3, <4>4, <5>2
        <5> QED
          BY <5>1, <5>2
      <4>6. i - s \in 1 .. Len(messageQueue')
        BY <1>15, <1>16, <4>3
      <4> QED
        BY <2>3, <4>4, <4>5, <4>6
    <3>5. CASE x = n /\ y = o
      <4>1. 1 \in W /\ mesg.vector = messageQueue[1].vector
        BY <1>3, <1>4, <2>3, <3>5 DEF o
      <4>2. ASSUME V = {} PROVE disVectors'[x][y] = disVectors'[y][y]
        <5>1. \A i \in W : i = 1
          BY <3>4, <3>5, <4>2
        <5>2. messageQueue[1].vector = disVectors[y][y]
          BY <2>2, <4>1, <5>1
        <5> QED
          BY <1>11, <3>1, <3>5, <4>1, <5>2
      <4>3. ASSUME NEW i \in V, \A j \in V : j <= i
            PROVE  messageQueue'[i].vector = disVectors'[y][y]
        <5>1. i + s \in W /\ i \in 1 .. L
          BY <3>2, <3>3
        <5>2. ASSUME NEW j \in W PROVE j <= i + s
          <6>1. CASE j = 1
            BY <1>7, <5>1, <6>1
          <6>2. CASE j # 1
            <7>1. j - s \in V /\ j \in Int
              BY <2>3, <3>4, <6>2
            <7> QED
              BY <1>7, <4>3, <5>1, <7>1
          <6> QED
            BY <6>1, <6>2
        <5> QED
          BY <2>2, <3>1, <3>3, <5>1, <5>2
      <4> QED
        BY <4>2, <4>3 DEF V
    <3>6. CASE ~ (x = n /\ y = o)
      <4>1. ASSUME V = {} PROVE disVectors'[x][y] = disVectors'[y][y]
        <5>1. W = {}
          BY <3>4, <3>6, <4>1
        <5>2. disVectors'[x][y] = disVectors[x][y]
          BY <1>11, <2>1, <3>6
        <5> QED
          BY <2>2, <3>1, <5>1, <5>2
      <4>2. ASSUME NEW i \in V, \A j \in V : j <= i
            PROVE  messageQueue'[i].vector = disVectors'[y][y]
        <5>1. i + s \in W /\ i \in 1 .. L
          BY <3>2, <3>3
        <5>2. ASSUME NEW j \in W PROVE j <= i + s
          <6>1. j - s \in V /\ j \in Int
            BY <2>3, <3>4, <3>6
          <6> QED
            BY <1>7, <4>2, <5>1, <6>1
        <5> QED
          BY <2>2, <3>1, <3>3, <5>1, <5>2
      <4> QED
        BY <4>1, <4>2 DEF V
    <3> QED
      BY <3>5, <3>6
  <2> QED
    BY <2>4, <2>5
<1>19. LatestVectorKnown'
  BY <1>2, <1>18 DEF LatestVectorKnown, Neighbors
<1>20. TypeOK' /\ PacketOK' /\ PhaseOK'
  <2>1. TypeOK'
    BY <1>1, <1>2, <1>11, <1>12, <1>16 DEF TypeOK
  <2>2. PacketOK' /\ PhaseOK'
    BY <1>1, <1>2 DEF PacketOK, PhaseOK, Inv
  <2> QED
    BY <2>1, <2>2
<1> QED
  BY <1>13, <1>14, <1>17, <1>19, <1>20 DEF Inv

\* A node without neighbours is forgotten by everybody and in every message; no
\* pair of neighbours includes it.
LEMMA DisconnectNodeInv == Inv /\ DisconnectNode => Inv'
<1> SUFFICES ASSUME Inv, DisconnectNode PROVE Inv'
  OBVIOUS
<1> DEFINE q == messageQueue
           gone == Head(messageQueue).owner
           Purged(m) == [q[m] EXCEPT !.vector[gone] = INFINI]
<1>1. /\ IsGraph(costToNeighbors) /\ disVectors \in [Nodes -> [Nodes -> Vectors]]
      /\ forwardingTable \in [Nodes -> [Nodes -> Nodes \cup {NOHOP}]]
      /\ q \in Seq(Messages) /\ order \in Orders
      /\ turn \in 1 .. Len(order) /\ pc = "deliver" /\ changesLeft \in 0 .. MaxChanges
      /\ packet \in {<<>>} \cup [at : Nodes \cup {NOHOP}, dest : Nodes]
      /\ q # <<>> /\ Head(q).neighbors = {}
  BY DEF Inv, TypeOK, DisconnectNode
<1>2. /\ disVectors' = [n \in Nodes |-> ViewWithout(n, gone)]
      /\ forwardingTable' = [n \in Nodes |-> TableWithout(n, gone)]
      /\ messageQueue' = [i \in 1 .. Len(q) - 1 |-> Purged(i + 1)]
      /\ UNCHANGED <<costToNeighbors, order, turn, changesLeft, pc, packet>>
  BY DEF DisconnectNode, QueueWithout
<1>3. Len(q) \in Nat /\ Len(q) >= 1 /\ Head(q) = q[1] /\ INFINI \in 0 .. INFINI
  BY <1>1, EmptySeq, TopologyAssumption
<1>4. gone \in Nodes /\ DOMAIN costToNeighbors[gone] = {}
  <2>1. q[1] \in Messages
    BY <1>1, <1>3, ElementOfSeq
  <2>2. 1 \in 1 .. Len(q)
    BY <1>3
  <2>3. q[1].neighbors = {} => DOMAIN costToNeighbors[q[1].owner] = {}
    BY <2>2 DEF Inv, QueueOK
  <2> QED
    BY <1>1, <1>3, <2>1, <2>3 DEF Messages
<1> HIDE DEF gone
<1>5. ASSUME NEW n \in Nodes, NEW m \in DOMAIN costToNeighbors[n]
      PROVE  m \in Nodes /\ n # m /\ n # gone /\ m # gone
  <2>1. m \in Nodes /\ n # m /\ n \in DOMAIN costToNeighbors[m]
    BY <1>1, GraphProperties
  <2> QED
    BY <1>4, <2>1
<1>6. ASSUME NEW n \in Nodes
      PROVE  /\ disVectors'[n] \in [Nodes -> Vectors]
             /\ n = gone => disVectors'[n] = disVectors[n]
             /\ n # gone => \A m \in Nodes :
                  disVectors'[n][m] = [disVectors[n][m] EXCEPT ![gone] = INFINI]
  <2>1. CASE n = gone
    BY <1>1, <1>2, <2>1 DEF ViewWithout
  <2>2. CASE n # gone
    <3>1. disVectors'[n] = [m \in Nodes |-> [disVectors[n][m] EXCEPT ![gone] = INFINI]]
      BY <1>2, <2>2 DEF ViewWithout
    <3>2. \A m \in Nodes : disVectors[n][m] \in Vectors
      BY <1>1
    <3>3. \A m \in Nodes : [disVectors[n][m] EXCEPT ![gone] = INFINI] \in Vectors
      BY <1>3, <3>2
    <3> QED
      BY <1>4, <2>2, <3>1, <3>2, <3>3
  <2> QED
    BY <2>1, <2>2
<1>7. ASSUME NEW n \in Nodes \ {gone}, NEW m \in Nodes
       PROVE  /\ disVectors'[n][m][gone] = INFINI
              /\ \A d \in Nodes \ {gone} : disVectors'[n][m][d] = disVectors[n][m][d]
  <2>1. disVectors'[n][m] = [disVectors[n][m] EXCEPT ![gone] = INFINI]
    BY <1>6
  <2>2. disVectors[n][m] \in Vectors
    BY <1>1
  <2> QED
    BY <1>4, <2>1, <2>2
<1>8. ASSUME NEW n \in Nodes
      PROVE  /\ forwardingTable'[n] \in [Nodes -> Nodes \cup {NOHOP}]
             /\ n = gone => forwardingTable'[n] = forwardingTable[n]
             /\ n # gone =>
                  /\ forwardingTable'[n][gone] = NOHOP
                  /\ \A d \in Nodes \ {gone} : forwardingTable'[n][d] = forwardingTable[n][d]
  <2>1. forwardingTable'[n] = TableWithout(n, gone)
    BY <1>2
  <2>2. forwardingTable[n] \in [Nodes -> Nodes \cup {NOHOP}]
    BY <1>1
  <2> QED
    BY <1>4, <2>1, <2>2 DEF TableWithout
<1>9. UnreachableAgree'
  <2>1. ASSUME NEW n \in Nodes, NEW d \in Nodes
        PROVE  forwardingTable'[n][d] = NOHOP <=> disVectors'[n][n][d] = INFINI
    <3>1. forwardingTable[n][d] = NOHOP <=> disVectors[n][n][d] = INFINI
      BY DEF Inv, UnreachableAgree
    <3>2. CASE n = gone
      BY <1>6, <1>8, <3>1, <3>2
    <3>3. CASE n # gone /\ d = gone
      BY <1>7, <1>8, <3>3
    <3>4. CASE n # gone /\ d # gone
      BY <1>7, <1>8, <3>1, <3>4
    <3> QED
      BY <3>2, <3>3, <3>4
  <2> QED
    BY <2>1 DEF UnreachableAgree
<1>10. VectorsCurrent'
  <2>1. ASSUME NEW n \in Nodes PROVE Current(costToNeighbors, disVectors'[n], n)
    <3> DEFINE old == disVectors[n]
               new == disVectors'[n]
    <3>1. Current(costToNeighbors, old, n)
      BY <1>1 DEF Inv, VectorsCurrent, Started
    <3>2. CASE n = gone
      BY <1>6, <3>1, <3>2
    <3>3. CASE n # gone
      <4>1. ASSUME NEW m \in Nodes
            PROVE  /\ new[m][gone] = INFINI
                   /\ \A d \in Nodes \ {gone} : new[m][d] = old[m][d]
        BY <1>7, <3>3
      <4>2. \A m \in DOMAIN costToNeighbors[n] :
              /\ m \in Nodes \ {gone}
              /\ costToNeighbors[n][m] \in Nat
        BY <1>1, <1>5, GraphProperties
      <4> HIDE DEF old, new
      <4>3. new[n][n] = 0
        BY <3>1, <3>3, <4>1 DEF Current
      <4>4. ASSUME NEW d \in Nodes \ {n, gone}
            PROVE  /\ new[n][d] = old[n][d]
                   /\ \A m \in DOMAIN costToNeighbors[n] :
                        Offer(costToNeighbors, new, n, m, d)
                        = Offer(costToNeighbors, old, n, m, d)
        BY <4>1, <4>2 DEF Offer
      <4>5. \A m \in DOMAIN costToNeighbors[n] :
              new[n][gone] <= Offer(costToNeighbors, new, n, m, gone)
        <5>1. INFINI \in Nat
          BY TopologyAssumption
        <5> QED
          BY <4>1, <4>2, <5>1 DEF Offer
      <4>6. new[n][gone] = INFINI
        BY <4>1
      <4>7. Current(costToNeighbors, new, n)
        BY <3>1, <4>3, <4>4, <4>5, <4>6 DEF Current
      <4> QED
        BY <4>7 DEF new
    <3> QED
      BY <3>2, <3>3
  <2> QED
    BY <1>2, <2>1 DEF VectorsCurrent
\* The queue, entry by entry.
<1>11. ASSUME NEW i \in 1 .. Len(q) - 1
       PROVE  /\ i + 1 \in 1 .. Len(q) /\ Purged(i + 1) \in Messages
              /\ messageQueue'[i].owner = q[i + 1].owner
              /\ messageQueue'[i].neighbors = q[i + 1].neighbors
              /\ messageQueue'[i].vector = [q[i + 1].vector EXCEPT ![gone] = INFINI]
  <2>1. i + 1 \in 1 .. Len(q)
    BY <1>3
  <2>2. q[i + 1] \in Messages
    BY <1>1, <2>1, ElementOfSeq
  <2>3. messageQueue'[i] = Purged(i + 1)
    BY <1>2
  <2> DEFINE r == q[i + 1]
  <2>4. [r.vector EXCEPT ![gone] = INFINI] \in Vectors
    BY <1>3, <2>2 DEF Messages
  <2> HIDE DEF q
  <2>5. /\ Purged(i + 1) \in Messages /\ Purged(i + 1).owner = r.owner
        /\ Purged(i + 1).neighbors = r.neighbors
        /\ Purged(i + 1).vector = [r.vector EXCEPT ![gone] = INFINI]
    BY <2>2, <2>4 DEF Messages
  <2> QED
    BY <2>1, <2>3, <2>5
<1>12. messageQueue' \in Seq(Messages) /\ Len(messageQueue') = Len(q) - 1
  <2>1. Len(q) - 1 \in Nat
    BY <1>3
  <2>2. messageQueue' \in [1 .. Len(q) - 1 -> Messages]
    BY <1>2, <1>11
  <2> QED
    BY <2>1, <2>2, IsASeq, LenProperties
<1> HIDE DEF q, Purged
<1>13. QueueOK'
  <2>1. ASSUME NEW i \in 1 .. Len(q) - 1
        PROVE  /\ messageQueue'[i].neighbors \subseteq
                    DOMAIN costToNeighbors[messageQueue'[i].owner]
               /\ messageQueue'[i].neighbors = {} =>
                    DOMAIN costToNeighbors[messageQueue'[i].owner] = {}
    <3>1. i + 1 \in 1 .. Len(q)
      BY <1>11
    <3>2. /\ q[i + 1].neighbors \subseteq DOMAIN costToNeighbors[q[i + 1].owner]
          /\ q[i + 1].neighbors = {} => DOMAIN costToNeighbors[q[i + 1].owner] = {}
      BY <3>1 DEF Inv, QueueOK, q
    <3> QED
      BY <1>11, <3>2
  <2> QED
    BY <1>2, <1>12, <2>1 DEF QueueOK
<1>14. ASSUME NEW x \in Nodes, NEW y \in DOMAIN costToNeighbors[x]
       PROVE  /\ Waiting(x, y)' = {} => disVectors'[x][y] = disVectors'[y][y]
              /\ \A i \in Waiting(x, y)' :
                   (\A j \in Waiting(x, y)' : j <= i) =>
                      messageQueue'[i].vector = disVectors'[y][y]
  <2> DEFINE W == Waiting(x, y)
             V == Waiting(x, y)'
  <2>1. y \in Nodes /\ y # x /\ x # gone /\ y # gone
    BY <1>5
  <2>2. /\ W = {} => disVectors[x][y] = disVectors[y][y]
        /\ \A i \in W : (\A j \in W : j <= i) => q[i].vector = disVectors[y][y]
    BY <1>1 DEF Inv, LatestVectorKnown, Neighbors, q
  <2>3. /\ disVectors'[x][y] = [disVectors[x][y] EXCEPT ![gone] = INFINI]
        /\ disVectors'[y][y] = [disVectors[y][y] EXCEPT ![gone] = INFINI]
    BY <1>6, <2>1
  <2>4. /\ W \subseteq 1 .. Len(q) /\ V \subseteq 1 .. Len(q) - 1 /\ 1 \notin W
        /\ \A i \in 1 .. Len(q) - 1 : i \in V <=> i + 1 \in W
    <3>1. /\ W \subseteq 1 .. Len(q) /\ V \subseteq 1 .. Len(q) - 1
          /\ \A i \in 1 .. Len(q) : i \in W <=> (q[i].owner = y /\ x \in q[i].neighbors)
          /\ \A i \in 1 .. Len(q) - 1 :
               i \in V <=> (messageQueue'[i].owner = y /\ x \in messageQueue'[i].neighbors)
      BY <1>12 DEF Waiting, q
    <3> HIDE DEF W, V
    <3>2. 1 \notin W
      BY <1>1, <1>3, <3>1 DEF q
    <3>3. ASSUME NEW i \in 1 .. Len(q) - 1 PROVE i \in V <=> i + 1 \in W
      BY <1>11, <3>1
    <3> QED
      BY <3>1, <3>2, <3>3
  <2> HIDE DEF W, V
  <2>5. ASSUME V = {} PROVE disVectors'[x][y] = disVectors'[y][y]
    <3>1. W = {}
      <4>1. ASSUME NEW i \in W PROVE i - 1 \in V
        <5>1. i - 1 \in 1 .. Len(q) - 1 /\ (i - 1) + 1 = i
          BY <1>3, <2>4
        <5> QED
          BY <2>4, <5>1
      <4> QED
        BY <2>5, <4>1
    <3> QED
      BY <2>2, <2>3, <3>1
  <2>6. ASSUME NEW i \in V, \A j \in V : j <= i
        PROVE  messageQueue'[i].vector = disVectors'[y][y]
    <3>1. i + 1 \in W /\ i \in 1 .. Len(q) - 1
      BY <2>4
    <3>2. ASSUME NEW j \in W PROVE j <= i + 1
      <4>1. j - 1 \in 1 .. Len(q) - 1 /\ (j - 1) + 1 = j
        BY <1>3, <2>4
      <4>2. j - 1 \in V
        BY <2>4, <4>1
      <4> QED
        BY <1>3, <2>6, <3>1, <4>1, <4>2
    <3>3. q[i + 1].vector = disVectors[y][y]
      BY <2>2, <3>1, <3>2
    <3> QED
      BY <1>11, <2>3, <3>1, <3>3
  <2> QED
    BY <2>5, <2>6 DEF V
<1>15. LatestVectorKnown'
  BY <1>2, <1>14 DEF LatestVectorKnown, Neighbors
<1>16. TypeOK'
  <2>1. disVectors' \in [Nodes -> [Nodes -> Vectors]]
    BY <1>2, <1>6
  <2>2. forwardingTable' \in [Nodes -> [Nodes -> Nodes \cup {NOHOP}]]
    BY <1>2, <1>8
  <2> QED
    BY <1>1, <1>2, <1>12, <2>1, <2>2 DEF TypeOK
<1>17. PacketOK' /\ PhaseOK'
  BY <1>1, <1>2 DEF PacketOK, PhaseOK, Inv
<1> QED
  BY <1>9, <1>10, <1>13, <1>15, <1>16, <1>17 DEF Inv

-----------------------------------------------------------------------------
(* The output, the changes, and the theorems                               *)

LEMMA ApplyChangeInv ==
  ASSUME Inv, NEW a \in Nodes, NEW b \in Nodes, NEW cost \in Costs \cup {NoLink}, a # b,
         ApplyChange(a, b, cost)
  PROVE  Inv'
<1>0. PathFound /\ changesLeft > 0
  BY DEF ApplyChange
<1>1. /\ IsGraph(costToNeighbors) /\ disVectors \in [Nodes -> [Nodes -> Vectors]]
      /\ forwardingTable \in [Nodes -> [Nodes -> Nodes \cup {NOHOP}]]
      /\ messageQueue \in Seq(Messages) /\ order \in Orders
      /\ turn = 1 /\ 1 \in 1 .. Len(order) /\ messageQueue = <<>>
      /\ changesLeft \in 0 .. MaxChanges /\ changesLeft > 0
      /\ INFINI \in 0 .. INFINI /\ MaxChanges \in Nat
  <2>1. TypeOK /\ PhaseOK
    BY DEF Inv
  <2>2. turn = 1 /\ messageQueue = <<>>
    BY <1>0, <2>1 DEF PhaseOK, PathFound
  <2>3. 1 \in 1 .. Len(order)
    BY <2>1, <2>2 DEF TypeOK
  <2>4. INFINI \in 0 .. INFINI /\ MaxChanges \in Nat
    BY TopologyAssumption
  <2> QED
    BY <1>0, <2>1, <2>2, <2>3, <2>4 DEF TypeOK
<1>2. /\ costToNeighbors' = WithLink(costToNeighbors, a, b, cost)
      /\ changesLeft' = changesLeft - 1 /\ pc' = "converge" /\ packet' = <<>>
      /\ UNCHANGED <<messageQueue, order, turn>>
  BY DEF ApplyChange
<1>3. /\ disVectors' \in [Nodes -> [Nodes -> Vectors]]
      /\ forwardingTable' \in [Nodes -> [Nodes -> Nodes \cup {NOHOP}]]
      /\ UnreachableAgree'
  <2>1. CASE cost # NoLink
    BY <1>1, <2>1 DEF ApplyChange, Inv, UnreachableAgree
  <2>2. CASE cost = NoLink
    <3>1. /\ disVectors' = [disVectors EXCEPT ![a][a][b] = INFINI, ![b][b][a] = INFINI]
          /\ forwardingTable' = [forwardingTable EXCEPT ![a][b] = NOHOP, ![b][a] = NOHOP]
      BY <2>2 DEF ApplyChange
    <3>2. /\ disVectors' \in [Nodes -> [Nodes -> Vectors]]
          /\ forwardingTable' \in [Nodes -> [Nodes -> Nodes \cup {NOHOP}]]
      BY <1>1, <3>1
    <3>3. ASSUME NEW n \in Nodes, NEW d \in Nodes
          PROVE  forwardingTable'[n][d] = NOHOP <=> disVectors'[n][n][d] = INFINI
      <4>1. forwardingTable[n][d] = NOHOP <=> disVectors[n][n][d] = INFINI
        BY DEF Inv, UnreachableAgree
      <4>2. CASE (n = a /\ d = b) \/ (n = b /\ d = a)
        BY <1>1, <3>1, <4>2
      <4>3. CASE ~ ((n = a /\ d = b) \/ (n = b /\ d = a))
        <5>1. /\ disVectors'[n][n][d] = disVectors[n][n][d]
              /\ forwardingTable'[n][d] = forwardingTable[n][d]
          BY <1>1, <3>1, <4>3
        <5> QED
          BY <4>1, <5>1
      <4> QED
        BY <4>2, <4>3
    <3> QED
      BY <3>2, <3>3 DEF UnreachableAgree
  <2> QED
    BY <2>1, <2>2
<1>4. IsGraph(costToNeighbors')
  BY <1>1, <1>2, WithLinkGraph
<1>5. TypeOK'
  <2>1. changesLeft' \in 0 .. MaxChanges
    BY <1>1, <1>2
  <2>2. turn' \in 1 .. Len(order')
    BY <1>1, <1>2
  <2> QED
    BY <1>1, <1>2, <1>3, <1>4, <2>1, <2>2 DEF TypeOK
<1>6. PacketOK' /\ QueueOK' /\ PhaseOK' /\ LatestVectorKnown' /\ VectorsCurrent'
  <2>1. Len(messageQueue') = 0 /\ turn' = 1
    BY <1>1, <1>2
  <2> QED
    BY <1>2, <2>1 DEF PacketOK, QueueOK, PhaseOK, LatestVectorKnown, VectorsCurrent, Started
<1> QED
  BY <1>3, <1>5, <1>6 DEF Inv

\* The other steps leave graph, vectors, tables and queue alone.
LEMMA QuietInv ==
  ASSUME Inv, Converged \/ RoutePacket \/ Hop \/ Finish \/ UNCHANGED vars
  PROVE  Inv'
<1>1. /\ UNCHANGED <<costToNeighbors, disVectors, forwardingTable, messageQueue,
                     order, turn, changesLeft>>
      /\ pc' # "converge" \/ pc' = pc
  BY DEF Converged, RoutePacket, Hop, Finish, vars
<1>2. pc' = "converge" <=> pc = "converge"
  BY DEF Converged, RoutePacket, Hop, Finish, PathFound, vars
<1>3. pc' \notin {"converge", "deliver"} => messageQueue = <<>>
  BY DEF Converged, RoutePacket, Hop, Finish, PathFound, vars, Inv, PhaseOK
<1>4. /\ pc' \in {"converge", "deliver", "output", "route", "done"}
      /\ packet' \in {<<>>} \cup [at : Nodes \cup {NOHOP}, dest : Nodes]
      /\ PacketOK'
  <2>1. CASE Converged
    BY <2>1 DEF Converged, Inv, TypeOK, PacketOK
  <2>2. CASE RoutePacket
    BY <2>2 DEF RoutePacket, PacketOK
  <2>3. CASE Hop
    <3>1. packet \in [at : Nodes \cup {NOHOP}, dest : Nodes] /\ packet.at # NOHOP
      BY <2>3 DEF Hop, Forward, Inv, PacketOK
    <3>2. forwardingTable[packet.at][packet.dest] \in Nodes \cup {NOHOP}
      BY <3>1 DEF Inv, TypeOK
    <3>3. packet' = [packet EXCEPT !.at = forwardingTable[packet.at][packet.dest]]
          /\ pc' = pc /\ pc = "route"
      BY <2>3 DEF Hop, Forward
    <3> QED
      BY <3>1, <3>2, <3>3 DEF PacketOK
  <2>4. CASE Finish
    BY <2>4 DEF Finish, PacketOK
  <2>5. CASE UNCHANGED vars
    BY <2>5 DEF vars, Inv, TypeOK, PacketOK
  <2> QED
    BY <2>1, <2>2, <2>3, <2>4, <2>5
<1>5. TypeOK'
  BY <1>1, <1>4 DEF Inv, TypeOK
<1>6. QueueOK' /\ PhaseOK' /\ UnreachableAgree'
  BY <1>1, <1>2, <1>3 DEF Inv, QueueOK, PhaseOK, UnreachableAgree
<1>7. LatestVectorKnown'
  BY <1>1, <1>2 DEF Inv, LatestVectorKnown, Waiting, Neighbors
<1>8. VectorsCurrent'
  BY <1>1, <1>2 DEF Inv, VectorsCurrent, Started
<1> QED
  BY <1>4, <1>5, <1>6, <1>7, <1>8 DEF Inv

LEMMA InvHolds == Spec => []Inv
<1>1. Inv /\ [Next]_vars => Inv'
  <2> SUFFICES ASSUME Inv, [Next]_vars PROVE Inv'
    OBVIOUS
  <2>1. CASE StartNode
    BY <2>1, StartNodeInv
  <2>2. CASE ReceiveVector
    BY <2>2, ReceiveVectorInv
  <2>3. CASE DisconnectNode
    BY <2>3, DisconnectNodeInv
  <2>4. CASE \E a, b \in Nodes, cost \in Costs \cup {NoLink} : a # b /\ ApplyChange(a, b, cost)
    BY <2>4, ApplyChangeInv
  <2>5. CASE Converged \/ RoutePacket \/ Hop \/ Finish \/ UNCHANGED vars
    BY <2>5, QuietInv
  <2> QED
    BY <2>1, <2>2, <2>3, <2>4, <2>5 DEF Next, Done
<1> QED
  BY <1>1, InitInv, PTL DEF Spec

\* The values of the program's variables are of their types.
THEOREM TypeCorrect == Spec => []TypeOK
BY InvHolds, PTL DEF Inv

\* No neighbour is left with an outdated vector when the queue of converge() is
\* empty, whatever the order in which the nodes start and however updates cross
\* in the queue or a node that was cut off is purged from it.
THEOREM VectorsArrive == Spec => []LatestVectorKnown
BY InvHolds, PTL DEF Inv

\* The table of costs omits a destination exactly when findPath has no hop to it.
THEOREM OutputsAgree == Spec => []UnreachableAgree
BY InvHolds, PTL DEF Inv

\* What is written after each convergence solves the equations of routing for
\* the topology as it is then, so that the output does not depend on the history
\* of the exchange.
CostsSolve ==
  pc \in {"output", "route", "done"} =>
    Solves(costToNeighbors, [n \in Nodes |-> disVectors[n][n]])

LEMMA InvCosts == Inv => CostsSolve
<1> SUFFICES ASSUME Inv, pc \in {"output", "route", "done"} PROVE CostsSolve
  BY DEF CostsSolve
<1> DEFINE D == [n \in Nodes |-> disVectors[n][n]]
<1>1. /\ IsGraph(costToNeighbors) /\ disVectors \in [Nodes -> [Nodes -> Vectors]]
      /\ messageQueue = <<>>
  BY DEF Inv, TypeOK, PhaseOK
<1>2. D \in [Nodes -> Vectors] /\ \A n \in Nodes : D[n] = disVectors[n][n]
  BY <1>1
<1> HIDE DEF D
<1>3. ASSUME NEW n \in Nodes, NEW m \in DOMAIN costToNeighbors[n]
      PROVE  m \in Nodes /\ disVectors[n][m] = D[m]
  <2>1. Waiting(n, m) = {}
    <3>1. Len(messageQueue) = 0
      BY <1>1
    <3> QED
      BY <3>1 DEF Waiting
  <2>2. m \in Nodes
    BY <1>1, GraphProperties
  <2> QED
    BY <1>2, <2>1, <2>2 DEF Inv, LatestVectorKnown, Neighbors
<1>4. ASSUME NEW n \in Nodes PROVE Current(costToNeighbors, disVectors[n], n)
  BY DEF Inv, VectorsCurrent, Started
<1>5. ASSUME NEW n \in Nodes PROVE D[n][n] = 0
  BY <1>2, <1>4 DEF Current
<1>6. ASSUME NEW n \in Nodes, NEW m \in DOMAIN costToNeighbors[n], NEW d \in Nodes
      PROVE  Offer(costToNeighbors, disVectors[n], n, m, d)
             = costToNeighbors[n][m] + D[m][d]
  <2>1. CASE m = d
    BY <1>3, <1>5, <2>1 DEF Offer
  <2>2. CASE m # d
    BY <1>3, <2>2 DEF Offer
  <2> QED
    BY <2>1, <2>2
<1>7. ASSUME NEW n \in Nodes, NEW d \in Nodes \ {n}
      PROVE  /\ \A m \in DOMAIN costToNeighbors[n] :
                  D[n][d] <= costToNeighbors[n][m] + D[m][d]
             /\ \/ D[n][d] = INFINI
                \/ \E m \in DOMAIN costToNeighbors[n] :
                     D[n][d] = costToNeighbors[n][m] + D[m][d]
  BY <1>2, <1>4, <1>6 DEF Current
<1>8. Solves(costToNeighbors, D)
  BY <1>2, <1>5, <1>7 DEF Solves
<1> QED
  BY <1>8 DEF CostsSolve, D

THEOREM CostsCorrect == Spec => []CostsSolve
BY InvCosts, InvHolds, PTL

CostsReported ==
  pc \in {"output", "route", "done"} =>
    Reported = ShortestCosts(costToNeighbors) /\ Reported # <<>>

LEMMA InvReported == Inv => CostsReported
<1> SUFFICES ASSUME Inv, pc \in {"output", "route", "done"} PROVE CostsReported
  BY DEF CostsReported
<1> DEFINE D == [n \in Nodes |-> disVectors[n][n]]
<1>1. Solves(costToNeighbors, D)
  BY InvCosts DEF CostsSolve
<1>2. IsGraph(costToNeighbors)
  BY DEF Inv, TypeOK
<1>3. D = ShortestCosts(costToNeighbors)
  BY <1>1, <1>2, ShortestSolves, OneSolution
<1>4. D # <<>>
  <2>1. DOMAIN D = Nodes /\ Nodes # {} /\ DOMAIN <<>> = {}
    BY TopologyAssumption
  <2> HIDE DEF D
  <2> QED
    BY <2>1
<1>5. Reported = D
  BY DEF Reported
<1> QED
  BY <1>3, <1>4, <1>5 DEF CostsReported

\* Routing has definitions of its own for what Topology defines.
LEMMA RoutingDefinitions ==
  /\ \A links : R!ShortestCosts(links) = ShortestCosts(links)
  /\ R!NoLink = NoLink
  /\ \A links, a, b, cost : R!WithLink(links, a, b, cost) = WithLink(links, a, b, cost)
<1>1. ASSUME NEW links PROVE R!Paths(links) = Paths(links)
  <2>1. R!Cardinality(Nodes) = Cardinality(Nodes)
    BY DEF R!Cardinality, Cardinality
  <2> QED
    BY <2>1 DEF R!Paths, Paths, R!IsPath, IsPath
<1>2. ASSUME NEW links, NEW p PROVE R!PathCost(links, p) = PathCost(links, p)
  BY DEF R!PathCost, PathCost
<1>3. ASSUME NEW links PROVE R!ShortestCosts(links) = ShortestCosts(links)
  BY <1>1, <1>2 DEF R!ShortestCosts, ShortestCosts
<1>4. R!NoLink = NoLink
  BY DEF R!NoLink, NoLink
<1>5. ASSUME NEW map, NEW m, NEW cost
      PROVE  R!WithNeighbor(map, m, cost) = WithNeighbor(map, m, cost)
  BY <1>4 DEF R!WithNeighbor, WithNeighbor
<1>6. ASSUME NEW links, NEW a, NEW b, NEW cost
      PROVE  R!WithLink(links, a, b, cost) = WithLink(links, a, b, cost)
  BY <1>5 DEF R!WithLink, WithLink
<1> QED
  BY <1>3, <1>4, <1>6

\* The program implements Routing: after the topology was read and after each
\* change it reports the costs of the cheapest paths, and nothing before the
\* exchange has ended.
THEOREM DistVecImplementsRouting == Spec => ImplementsRouting
<1>1. Init => R!Init
  BY DEF Init, R!Init, Reported
<1>2. ASSUME CostsReported, CostsReported', [Next]_vars
      PROVE  [R!Next]_<<costToNeighbors, changesLeft, Reported>>
  <2>1. CASE StartNode \/ ReceiveVector \/ DisconnectNode
    <3>1. /\ UNCHANGED <<costToNeighbors, changesLeft>>
          /\ pc \in {"converge", "deliver"} /\ pc' \in {"converge", "deliver"}
      BY <2>1 DEF StartNode, ReceiveVector, DisconnectNode
    <3> QED
      BY <3>1 DEF Reported
  <2>2. CASE Converged
    <3>1. /\ UNCHANGED <<costToNeighbors, changesLeft>>
          /\ pc = "deliver" /\ pc' = "output"
      BY <2>2 DEF Converged
    <3>2. Reported' = ShortestCosts(costToNeighbors') /\ Reported' # <<>>
      BY <1>2, <3>1 DEF CostsReported
    <3>3. Reported = <<>>
      BY <3>1 DEF Reported
    <3>4. Reported' = R!ShortestCosts(costToNeighbors)
      BY <3>1, <3>2, RoutingDefinitions
    <3>5. R!Report
      BY <3>1, <3>2, <3>3, <3>4 DEF R!Report
    <3> QED
      BY <3>5 DEF R!Next
  <2>3. CASE RoutePacket \/ Hop \/ Finish \/ UNCHANGED vars
    <3>1. /\ UNCHANGED <<costToNeighbors, disVectors, changesLeft>>
          /\ pc \in {"converge", "deliver"} <=> pc' \in {"converge", "deliver"}
      BY <2>3 DEF RoutePacket, Hop, Finish, PathFound, vars
    <3> QED
      BY <3>1 DEF Reported
  <2>4. CASE \E a, b \in Nodes, cost \in Costs \cup {NoLink} : a # b /\ ApplyChange(a, b, cost)
    <3>1. PICK a \in Nodes, b \in Nodes, cost \in Costs \cup {NoLink} :
            a # b /\ ApplyChange(a, b, cost)
      BY <2>4
    <3>2. /\ pc = "route" /\ pc' = "converge" /\ changesLeft > 0
          /\ changesLeft' = changesLeft - 1
          /\ costToNeighbors' = WithLink(costToNeighbors, a, b, cost)
      BY <3>1 DEF ApplyChange, PathFound
    <3>3. Reported # <<>> /\ Reported' = <<>>
      <4>1. Reported # <<>>
        BY <1>2, <3>2 DEF CostsReported
      <4> QED
        BY <3>2, <4>1 DEF Reported
    <3>4. /\ cost \in Costs \cup {R!NoLink}
          /\ costToNeighbors' = R!WithLink(costToNeighbors, a, b, cost)
      BY <3>2, RoutingDefinitions
    <3>5. R!Change
      BY <3>1, <3>2, <3>3, <3>4 DEF R!Change
    <3> QED
      BY <3>5 DEF R!Next
  <2> QED
    BY <1>2, <2>1, <2>2, <2>3, <2>4 DEF Next, Done
<1> QED
  BY <1>1, <1>2, InvHolds, InvReported, PTL DEF Spec, ImplementsRouting, R!Spec
-----------------------------------------------------------------------------
(* The tables before the first change                                      *)

HIDE DEF Vectors

NotAbove(v, w) == \A d \in Nodes : v[d] <= w[d]

\* Where the table leads, the cost is that of the way over the next hop, by what
\* the node knows of it.
HopsOK(links, n, view, tab) ==
  \A d \in Nodes \ {n} : tab[d] # NOHOP =>
    /\ tab[d] \in DOMAIN links[n]
    /\ view[n][d] = Offer(links, view, n, tab[d], d)

\* Vectors only improve: what is under way from m to n becomes better along the
\* queue, is no worse than what n has, and no better than what m has now.
Improving(n, m) ==
  /\ NotAbove(disVectors[m][m], disVectors[n][m])
  /\ \A i \in Waiting(n, m) :
       /\ NotAbove(disVectors[m][m], messageQueue[i].vector)
       /\ NotAbove(messageQueue[i].vector, disVectors[n][m])
       /\ \A j \in Waiting(n, m) :
            i <= j => NotAbove(messageQueue[j].vector, messageQueue[i].vector)

\* Nobody has heard of a node without links, so that disconnecting it changes
\* nothing.
Unheard(g) ==
  DOMAIN costToNeighbors[g] = {} =>
    /\ \A n \in Nodes \ {g}, m \in Nodes : disVectors[n][m][g] = INFINI
    /\ \A i \in 1 .. Len(messageQueue) :
         messageQueue[i].neighbors # {} => messageQueue[i].vector[g] = INFINI

FirstInv ==
  changesLeft = MaxChanges =>
    \A n \in Nodes :
      /\ HopsOK(costToNeighbors, n, disVectors[n], forwardingTable[n])
      /\ \A m \in DOMAIN costToNeighbors[n] : Improving(n, m)
      /\ Unheard(n)

LEMMA NotAboveReflexive == ASSUME NEW v \in Vectors PROVE NotAbove(v, v)
BY TopologyAssumption DEF NotAbove, Vectors

LEMMA NotAboveTransitive ==
  ASSUME NEW u \in Vectors, NEW v \in Vectors, NEW w \in Vectors,
         NotAbove(u, v), NotAbove(v, w)
  PROVE  NotAbove(u, w)
<1>1. \A d \in Nodes : u[d] \in Int /\ v[d] \in Int /\ w[d] \in Int
  BY TopologyAssumption DEF Vectors
<1>2. ASSUME NEW d \in Nodes PROVE u[d] <= w[d]
  <2>1. u[d] <= v[d] /\ v[d] <= w[d]
    BY DEF NotAbove
  <2> QED
    BY <1>1, <2>1
<1> QED
  BY <1>2 DEF NotAbove

LEMMA NextHopOffers ==
  ASSUME IsGraph(costToNeighbors), NEW n \in Nodes, NEW view \in [Nodes -> Vectors],
         NEW d \in Nodes \ {n}, NextHop(n, view, d) # NOHOP
  PROVE  /\ NextHop(n, view, d) \in Neighbors(n)
         /\ CostVia(n, view, NextHop(n, view, d), d) = MinCost(n, view, d)
<1> DEFINE S == {m \in Neighbors(n) : CostVia(n, view, m, d) = MinCost(n, view, d)}
<1>1. MinCost(n, view, d) # INFINI
  BY NextHopProperties
<1>2. S # {}
  BY <1>1, MinCostProperties
<1>3. S \subseteq Nat
  BY NeighborMap, TopologyAssumption DEF Neighbors
<1>4. NextHop(n, view, d) = SetMin(S)
  BY <1>1 DEF NextHop
<1> HIDE DEF S
<1>5. SetMin(S) \in S
  BY <1>2, <1>3, SetMinProperties
<1> QED
  BY <1>4, <1>5 DEF S

\* updateSelfDistanceVector on knowledge that has improved: the costs improve,
\* and the hops that are kept cost what they did.
LEMMA BetterHops ==
  ASSUME IsGraph(costToNeighbors), NEW n \in Nodes,
         NEW old \in [Nodes -> Vectors], NEW view \in [Nodes -> Vectors],
         view[n] = old[n], \A m \in Neighbors(n) : NotAbove(view[m], old[m]),
         NEW tab \in [Nodes -> Nodes \cup {NOHOP}],
         \A d \in Nodes : tab[d] = NOHOP <=> old[n][d] = INFINI,
         HopsOK(costToNeighbors, n, old, tab)
  PROVE  /\ NotAbove(SelfVector(n, view), old[n])
         /\ HopsOK(costToNeighbors, n, [view EXCEPT ![n] = SelfVector(n, view)],
                   SelfTable(n, view, tab))
<1> DEFINE own == SelfVector(n, view)
           new == [view EXCEPT ![n] = own]
           next == SelfTable(n, view, tab)
<1>1. own \in Vectors /\ \A d \in Nodes : own[d] = MinCost(n, view, d)
  BY SelfVectorType DEF SelfVector
<1>2. new[n] = own /\ \A m \in Nodes \ {n} : new[m] = view[m]
  BY <1>1
<1>3. Neighbors(n) = DOMAIN costToNeighbors[n] /\ Neighbors(n) \subseteq Nodes \ {n}
  BY GraphProperties DEF Neighbors
<1>4. \A d \in Nodes : next[d] = IF view[n][d] # own[d] THEN NextHop(n, view, d) ELSE tab[d]
  BY <1>1 DEF SelfTable
<1> HIDE DEF own, new, next
<1>5. INFINI \in Nat /\ \A d \in Nodes : /\ own[d] \in Nat /\ old[n][d] \in Nat
                                        /\ own[d] <= INFINI
  BY <1>1, TopologyAssumption DEF Vectors
<1>6. \A m \in Neighbors(n), d \in Nodes :
        /\ CostVia(n, view, m, d) = Offer(costToNeighbors, new, n, m, d)
        /\ CostVia(n, view, m, d) <= Offer(costToNeighbors, old, n, m, d)
  <2> SUFFICES ASSUME NEW m \in Neighbors(n), NEW d \in Nodes
               PROVE  /\ CostVia(n, view, m, d) = Offer(costToNeighbors, new, n, m, d)
                      /\ CostVia(n, view, m, d) <= Offer(costToNeighbors, old, n, m, d)
    OBVIOUS
  <2>1. costToNeighbors[n][m] \in Nat /\ m \in Nodes \ {n}
    BY <1>3, GraphProperties
  <2>2. view[m][d] \in 0 .. INFINI /\ old[m][d] \in 0 .. INFINI
    BY <2>1 DEF Vectors
  <2>3. view[m][d] <= old[m][d]
    BY DEF NotAbove
  <2>4. CostVia(n, view, m, d) = Offer(costToNeighbors, new, n, m, d)
    BY <1>2, <2>1 DEF CostVia, CostFromNeighbor, Offer
  <2>5. CostVia(n, view, m, d) <= Offer(costToNeighbors, old, n, m, d)
    BY <1>5, <2>1, <2>2, <2>3 DEF CostVia, CostFromNeighbor, Offer
  <2> QED
    BY <2>4, <2>5
\* A hop that there is offers at most the old cost, and the least offer is taken.
<1>7. ASSUME NEW d \in Nodes \ {n}, tab[d] # NOHOP
      PROVE  /\ tab[d] \in Neighbors(n)
             /\ own[d] <= CostVia(n, view, tab[d], d)
             /\ CostVia(n, view, tab[d], d) <= old[n][d]
             /\ CostVia(n, view, tab[d], d) \in Nat
  <2>1. tab[d] \in Neighbors(n) /\ old[n][d] = Offer(costToNeighbors, old, n, tab[d], d)
    BY <1>3, <1>7 DEF HopsOK
  <2>2. own[d] <= CostVia(n, view, tab[d], d)
    BY <1>1, <2>1, MinCostProperties
  <2>3. CostVia(n, view, tab[d], d) \in Nat
    BY <2>1, CostViaProperties
  <2> QED
    BY <1>6, <2>1, <2>2, <2>3
<1>8. ASSUME NEW d \in Nodes PROVE own[d] <= old[n][d]
  <2>1. CASE d = n
    BY <1>1, <1>5, <2>1, MinCostProperties
  <2>2. CASE d # n /\ tab[d] = NOHOP
    BY <1>5, <2>2
  <2>3. CASE d # n /\ tab[d] # NOHOP
    BY <1>5, <1>7, <2>3
  <2> QED
    BY <2>1, <2>2, <2>3
<1>9. ASSUME NEW d \in Nodes \ {n}, next[d] # NOHOP
      PROVE  /\ next[d] \in DOMAIN costToNeighbors[n]
             /\ new[n][d] = Offer(costToNeighbors, new, n, next[d], d)
  <2>1. CASE view[n][d] # own[d]
    <3>1. next[d] = NextHop(n, view, d)
      BY <1>4, <2>1
    <3>2. next[d] \in Neighbors(n) /\ CostVia(n, view, next[d], d) = own[d]
      BY <1>1, <1>9, <3>1, NextHopOffers
    <3> QED
      BY <1>2, <1>3, <1>6, <3>2
  <2>2. CASE view[n][d] = own[d]
    <3>1. next[d] = tab[d] /\ old[n][d] = own[d]
      BY <1>4, <2>2
    <3>2. tab[d] \in Neighbors(n) /\ own[d] = CostVia(n, view, tab[d], d)
      <4>1. /\ tab[d] \in Neighbors(n) /\ CostVia(n, view, tab[d], d) \in Nat
            /\ own[d] <= CostVia(n, view, tab[d], d)
            /\ CostVia(n, view, tab[d], d) <= own[d]
        BY <1>7, <1>9, <3>1
      <4>2. own[d] \in Nat
        BY <1>5
      <4> DEFINE cost == CostVia(n, view, tab[d], d)
      <4>3. cost \in Nat /\ own[d] <= cost /\ cost <= own[d]
        BY <4>1
      <4> HIDE DEF cost
      <4>4. own[d] = cost
        BY <4>2, <4>3
      <4> QED
        BY <4>1, <4>4 DEF cost
    <3> QED
      BY <1>2, <1>3, <1>6, <3>1, <3>2
  <2> QED
    BY <2>1, <2>2
<1>10. NotAbove(own, old[n])
  BY <1>8 DEF NotAbove
<1>11. HopsOK(costToNeighbors, n, new, next)
  BY <1>9 DEF HopsOK
<1> QED
  BY <1>10, <1>11 DEF own, new, next

\* No node has a way to one without links.
LEMMA NoWayToUnlinked ==
  ASSUME IsGraph(costToNeighbors), NEW g \in Nodes, DOMAIN costToNeighbors[g] = {},
         NEW n \in Nodes \ {g}, NEW view \in [Nodes -> Vectors],
         \A m \in Nodes : view[m][g] = INFINI
  PROVE  SelfVector(n, view)[g] = INFINI
<1>1. INFINI \in Nat
  BY TopologyAssumption
<1>2. ASSUME NEW m \in Neighbors(n) PROVE CostVia(n, view, m, g) > INFINI
  <2>1. /\ m \in Nodes /\ n \in DOMAIN costToNeighbors[m]
        /\ costToNeighbors[n][m] \in Nat /\ costToNeighbors[n][m] >= 1
    BY GraphProperties DEF Neighbors
  <2>2. m # g
    BY <2>1
  <2>3. CostVia(n, view, m, g) = costToNeighbors[n][m] + INFINI
    BY <2>1, <2>2 DEF CostVia, CostFromNeighbor
  <2> QED
    BY <1>1, <2>1, <2>3
<1>3. /\ MinCost(n, view, g) \in 0 .. INFINI
      /\ \/ MinCost(n, view, g) = INFINI
         \/ \E m \in Neighbors(n) : MinCost(n, view, g) = CostVia(n, view, m, g)
  BY MinCostProperties
<1>4. MinCost(n, view, g) = INFINI
  BY <1>1, <1>2, <1>3
<1> QED
  BY <1>4 DEF SelfVector

AllImproving == \A n \in Nodes : \A m \in DOMAIN costToNeighbors[n] : Improving(n, m)

\* The queue moves up by s, and a message of n may be added.
QueueMoves(n, s, L) ==
  /\ \A i \in 1 .. L :
       /\ messageQueue'[i].owner = messageQueue[i + s].owner
       /\ messageQueue'[i].vector = messageQueue[i + s].vector
       /\ messageQueue'[i].neighbors \subseteq messageQueue[i + s].neighbors
  /\ \/ Len(messageQueue') = L
     \/ /\ Len(messageQueue') = L + 1
        /\ messageQueue'[L + 1].owner = n
        /\ messageQueue'[L + 1].vector = disVectors'[n][n]
        /\ messageQueue'[L + 1].neighbors = DOMAIN costToNeighbors[n]

\* A node n, and no other, improves its vector, having heard of the first message
\* at most.
Improves(n, s, L) ==
  /\ NotAbove(disVectors'[n][n], disVectors[n][n])
  /\ \A m \in Nodes \ {n} : disVectors'[m] = disVectors[m]
  /\ \A m \in Nodes \ {n} :
       \/ disVectors'[n][m] = disVectors[n][m]
       \/ /\ 1 \in Waiting(n, m) /\ disVectors'[n][m] = messageQueue[1].vector
          /\ \A i \in 1 .. L : i + s = 1 => n \notin messageQueue'[i].neighbors

\* Then everything under way still improves.
LEMMA QueueImproves ==
  ASSUME IsGraph(costToNeighbors), costToNeighbors' = costToNeighbors,
         disVectors \in [Nodes -> [Nodes -> Vectors]],
         disVectors' \in [Nodes -> [Nodes -> Vectors]],
         messageQueue \in Seq(Messages), messageQueue' \in Seq(Messages),
         NEW n \in Nodes, NEW s \in {0, 1}, NEW L \in Nat, L + s = Len(messageQueue),
         QueueMoves(n, s, L), Improves(n, s, L), AllImproving
  PROVE  AllImproving'
<1> SUFFICES ASSUME NEW x \in Nodes, NEW y \in DOMAIN costToNeighbors[x]
             PROVE  Improving(x, y)'
  BY DEF AllImproving
<1> DEFINE W == Waiting(x, y)
           V == Waiting(x, y)'
           now == disVectors[y][y]
           now2 == disVectors'[y][y]
           has == disVectors[x][y]
           has2 == disVectors'[x][y]
<1>1. y \in Nodes /\ y # x
  BY GraphProperties
<1>2. now \in Vectors /\ now2 \in Vectors /\ has \in Vectors /\ has2 \in Vectors
  BY <1>1
<1>3. /\ NotAbove(now, has)
      /\ \A i \in W :
           /\ NotAbove(now, messageQueue[i].vector)
           /\ NotAbove(messageQueue[i].vector, has)
           /\ \A j \in W : i <= j => NotAbove(messageQueue[j].vector, messageQueue[i].vector)
  BY DEF AllImproving, Improving
<1>4. \A i \in 1 .. Len(messageQueue) : messageQueue[i].vector \in Vectors
  <2>1. \A i \in 1 .. Len(messageQueue) : messageQueue[i] \in Messages
    BY ElementOfSeq
  <2> QED
    BY <2>1 DEF Messages
<1>5. /\ Len(messageQueue) \in Nat
      /\ W \subseteq 1 .. Len(messageQueue) /\ V \subseteq Nat
  <2>1. Len(messageQueue) \in Nat /\ Len(messageQueue') \in Nat
    BY LenProperties
  <2> QED
    BY <2>1 DEF Waiting
\* Every message that waits has waited before, or is the new one.
<1>6. ASSUME NEW i \in V
      PROVE  \/ /\ i \in 1 .. L /\ i + s \in W
                /\ messageQueue'[i].vector = messageQueue[i + s].vector
             \/ i = L + 1 /\ y = n /\ messageQueue'[i].vector = now2
  <2>1. /\ i \in 1 .. Len(messageQueue') /\ messageQueue'[i].owner = y
        /\ x \in messageQueue'[i].neighbors
    BY DEF Waiting
  <2>2. CASE i \in 1 .. L
    <3>1. i + s \in 1 .. Len(messageQueue)
      BY <2>2
    <3>2. /\ messageQueue[i + s].owner = y /\ x \in messageQueue[i + s].neighbors
          /\ messageQueue'[i].vector = messageQueue[i + s].vector
      BY <2>1, <2>2 DEF QueueMoves
    <3> QED
      BY <2>2, <3>1, <3>2 DEF Waiting
  <2>3. CASE i \notin 1 .. L
    <3>1. /\ Len(messageQueue') = L + 1 /\ i = L + 1
          /\ messageQueue'[L + 1].owner = n
          /\ messageQueue'[L + 1].vector = disVectors'[n][n]
      BY <2>1, <2>3 DEF QueueMoves
    <3> QED
      BY <2>1, <3>1
  <2> QED
    BY <2>2, <2>3
<1>7. NotAbove(now2, now)
  <2>1. CASE y = n
    BY <2>1 DEF Improves
  <2>2. CASE y # n
    <3>1. now2 = now
      BY <1>1, <2>2 DEF Improves
    <3> QED
      BY <1>2, <3>1, NotAboveReflexive
  <2> QED
    BY <2>1, <2>2
<1>8. \/ has2 = has
      \/ /\ 1 \in W /\ has2 = messageQueue[1].vector
         /\ \A i \in V : i \in 1 .. L => i + s # 1
  <2>1. CASE x # n
    BY <2>1 DEF Improves
  <2>2. CASE x = n
    <3>1. \A i \in V : x \in messageQueue'[i].neighbors
      BY DEF Waiting
    <3>2. \/ has2 = has
          \/ /\ 1 \in W /\ has2 = messageQueue[1].vector
             /\ \A i \in 1 .. L : i + s = 1 => n \notin messageQueue'[i].neighbors
      BY <1>1, <2>2 DEF Improves
    <3> QED
      BY <2>2, <3>1, <3>2
  <2> QED
    BY <2>1, <2>2
<1>0. L + 1 \notin 1 .. L
  OBVIOUS
<1> HIDE DEF W, V, now, now2, has, has2
<1>9. NotAbove(now, has2) /\ \A i \in V : i \in 1 .. L => NotAbove(messageQueue[i + s].vector, has2)
  <2>1. CASE has2 = has
    <3>1. ASSUME NEW i \in V, i \in 1 .. L PROVE NotAbove(messageQueue[i + s].vector, has)
      <4>1. i + s \in W
        BY <1>0, <1>6, <3>1
      <4> QED
        BY <1>3, <4>1
    <3> QED
      BY <1>3, <2>1, <3>1
  <2>2. CASE has2 # has
    <3>1. 1 \in W /\ has2 = messageQueue[1].vector
      BY <1>8, <2>2
    <3>2. ASSUME NEW i \in V, i \in 1 .. L PROVE NotAbove(messageQueue[i + s].vector, has2)
      <4>1. i + s \in W
        BY <1>0, <1>6, <3>2
      <4>2. 1 <= i + s
        BY <3>2
      <4> QED
        BY <1>3, <3>1, <4>1, <4>2
    <3> QED
      BY <1>3, <3>1, <3>2
  <2> QED
    BY <2>1, <2>2
<1>10. NotAbove(now2, has2)
  BY <1>2, <1>7, <1>9, NotAboveTransitive
<1>11. ASSUME NEW i \in V
       PROVE  /\ messageQueue'[i].vector \in Vectors
              /\ NotAbove(now2, messageQueue'[i].vector)
              /\ NotAbove(messageQueue'[i].vector, has2)
  <2>1. CASE i \in 1 .. L
    <3>1. i + s \in W /\ messageQueue'[i].vector = messageQueue[i + s].vector
      BY <1>0, <1>6, <2>1
    <3>2. NotAbove(now, messageQueue[i + s].vector) /\ messageQueue[i + s].vector \in Vectors
      BY <1>3, <1>4, <1>5, <3>1
    <3>3. NotAbove(now2, messageQueue[i + s].vector)
      BY <1>2, <1>7, <3>2, NotAboveTransitive
    <3> QED
      BY <1>9, <2>1, <3>1, <3>2, <3>3
  <2>2. CASE i \notin 1 .. L
    <3>1. messageQueue'[i].vector = now2
      BY <1>6, <2>2
    <3>2. NotAbove(now2, now2)
      BY <1>2, NotAboveReflexive
    <3> QED
      BY <1>2, <1>10, <3>1, <3>2
  <2> QED
    BY <2>1, <2>2
<1>12. ASSUME NEW i \in V, NEW j \in V, i <= j
       PROVE  NotAbove(messageQueue'[j].vector, messageQueue'[i].vector)
  <2>1. CASE j \in 1 .. L
    <3>1. i \in 1 .. L
      BY <1>5, <1>6, <1>12, <2>1
    <3>2. /\ i + s \in W /\ messageQueue'[i].vector = messageQueue[i + s].vector
          /\ j + s \in W /\ messageQueue'[j].vector = messageQueue[j + s].vector
      BY <1>0, <1>6, <2>1, <3>1
    <3>3. i + s <= j + s
      BY <1>12, <2>1, <3>1
    <3> QED
      BY <1>3, <3>2, <3>3
  <2>2. CASE j \notin 1 .. L
    BY <1>6, <1>11, <2>2
  <2> QED
    BY <2>1, <2>2
<1>13. /\ NotAbove(now2, has2)
       /\ \A i \in V :
            /\ NotAbove(now2, messageQueue'[i].vector)
            /\ NotAbove(messageQueue'[i].vector, has2)
            /\ \A j \in V : i <= j => NotAbove(messageQueue'[j].vector, messageQueue'[i].vector)
  BY <1>10, <1>11, <1>12
<1> QED
  BY <1>13 DEF Improving, NotAbove, V, now2, has2

\* updateSelfDistanceVector of n, which knows the vectors in view: its own, and of
\* the others what it had or what the first message says.
Updates(n, view, s, L) ==
  /\ disVectors'[n] = [view EXCEPT ![n] = SelfVector(n, view)]
  /\ forwardingTable'[n] = SelfTable(n, view, forwardingTable[n])
  /\ \A m \in Nodes \ {n} :
       /\ disVectors'[m] = disVectors[m]
       /\ forwardingTable'[m] = forwardingTable[m]
  /\ view[n] = disVectors[n][n]
  /\ \A m \in Nodes \ {n} :
       \/ view[m] = disVectors[n][m]
       \/ /\ 1 \in Waiting(n, m) /\ view[m] = messageQueue[1].vector
          /\ \A i \in 1 .. L : i + s = 1 => n \notin messageQueue'[i].neighbors

LEMMA UnheardKept ==
  ASSUME IsGraph(costToNeighbors), costToNeighbors' = costToNeighbors,
         messageQueue \in Seq(Messages), messageQueue' \in Seq(Messages),
         NEW n \in Nodes, NEW view \in [Nodes -> Vectors],
         NEW s \in {0, 1}, NEW L \in Nat, L + s = Len(messageQueue),
         QueueMoves(n, s, L), Updates(n, view, s, L),
         NEW g \in Nodes, Unheard(g)
  PROVE  Unheard(g)'
<1> SUFFICES ASSUME DOMAIN costToNeighbors[g] = {}
             PROVE  /\ \A x \in Nodes \ {g}, m \in Nodes : disVectors'[x][m][g] = INFINI
                    /\ \A i \in 1 .. Len(messageQueue') :
                         messageQueue'[i].neighbors # {} => messageQueue'[i].vector[g] = INFINI
  BY DEF Unheard
<1>1. /\ \A x \in Nodes \ {g}, m \in Nodes : disVectors[x][m][g] = INFINI
      /\ \A i \in 1 .. Len(messageQueue) :
           messageQueue[i].neighbors # {} => messageQueue[i].vector[g] = INFINI
  BY DEF Unheard
<1>2. n # g => /\ disVectors'[n][n][g] = INFINI
               /\ \A m \in Nodes : disVectors'[n][m][g] = INFINI
  <2> SUFFICES ASSUME n # g
               PROVE  /\ disVectors'[n][n][g] = INFINI
                      /\ \A m \in Nodes : disVectors'[n][m][g] = INFINI
    OBVIOUS
  <2>1. view[n][g] = INFINI
    BY <1>1 DEF Updates
  <2>2. ASSUME NEW m \in Nodes \ {n} PROVE view[m][g] = INFINI
    <3>1. CASE view[m] = disVectors[n][m]
      BY <1>1, <3>1
    <3>2. CASE 1 \in Waiting(n, m) /\ view[m] = messageQueue[1].vector
      BY <1>1, <3>2 DEF Waiting
    <3> QED
      BY <3>1, <3>2 DEF Updates
  <2>3. SelfVector(n, view)[g] = INFINI
    BY <2>1, <2>2, NoWayToUnlinked
  <2>4. disVectors'[n] = [view EXCEPT ![n] = SelfVector(n, view)]
    BY DEF Updates
  <2> QED
    BY <2>2, <2>3, <2>4
<1>3. ASSUME NEW x \in Nodes \ {g}, NEW m \in Nodes PROVE disVectors'[x][m][g] = INFINI
  <2>1. CASE x = n
    BY <1>2, <2>1
  <2>2. CASE x # n
    <3>1. disVectors'[x] = disVectors[x]
      BY <2>2 DEF Updates
    <3> QED
      BY <1>1, <3>1
  <2> QED
    BY <2>1, <2>2
<1>4. ASSUME NEW i \in 1 .. Len(messageQueue'), messageQueue'[i].neighbors # {}
      PROVE  messageQueue'[i].vector[g] = INFINI
  <2>1. CASE i \in 1 .. L
    <3>1. i + s \in 1 .. Len(messageQueue)
      BY <2>1
    <3>2. /\ messageQueue'[i].vector = messageQueue[i + s].vector
          /\ messageQueue'[i].neighbors \subseteq messageQueue[i + s].neighbors
      BY <2>1 DEF QueueMoves
    <3> QED
      BY <1>1, <1>4, <3>1, <3>2
  <2>2. CASE i \notin 1 .. L
    <3>1. /\ messageQueue'[i].vector = disVectors'[n][n]
          /\ messageQueue'[i].neighbors = DOMAIN costToNeighbors[n]
      BY <2>2 DEF QueueMoves
    <3>2. n # g
      BY <1>4, <3>1
    <3> QED
      BY <1>2, <3>1, <3>2
  <2> QED
    BY <2>1, <2>2
<1> QED
  BY <1>3, <1>4

LEMMA UpdatesFirst ==
  ASSUME IsGraph(costToNeighbors), costToNeighbors' = costToNeighbors,
         disVectors \in [Nodes -> [Nodes -> Vectors]],
         disVectors' \in [Nodes -> [Nodes -> Vectors]],
         forwardingTable \in [Nodes -> [Nodes -> Nodes \cup {NOHOP}]],
         messageQueue \in Seq(Messages), messageQueue' \in Seq(Messages),
         changesLeft' = changesLeft, UnreachableAgree,
         NEW n \in Nodes, NEW view \in [Nodes -> Vectors],
         NEW s \in {0, 1}, NEW L \in Nat, L + s = Len(messageQueue),
         QueueMoves(n, s, L), Updates(n, view, s, L), FirstInv
  PROVE  FirstInv'
<1> SUFFICES ASSUME changesLeft = MaxChanges
             PROVE  \A x \in Nodes :
                      /\ HopsOK(costToNeighbors', x, disVectors'[x], forwardingTable'[x])
                      /\ \A m \in DOMAIN costToNeighbors'[x] : Improving(x, m)'
                      /\ Unheard(x)'
  BY DEF FirstInv
<1>1. /\ AllImproving
      /\ \A x \in Nodes : /\ HopsOK(costToNeighbors, x, disVectors[x], forwardingTable[x])
                           /\ Unheard(x)
  BY DEF FirstInv, AllImproving
<1>2. ASSUME NEW m \in Neighbors(n) PROVE NotAbove(view[m], disVectors[n][m])
  <2>1. m \in Nodes \ {n} /\ m \in DOMAIN costToNeighbors[n]
    BY GraphProperties DEF Neighbors
  <2>2. CASE view[m] = disVectors[n][m]
    BY <2>1, <2>2, NotAboveReflexive
  <2>3. CASE 1 \in Waiting(n, m) /\ view[m] = messageQueue[1].vector
    BY <1>1, <2>1, <2>3 DEF AllImproving, Improving
  <2> QED
    BY <2>1, <2>2, <2>3 DEF Updates
<1>3. /\ NotAbove(SelfVector(n, view), disVectors[n][n])
      /\ HopsOK(costToNeighbors, n, [view EXCEPT ![n] = SelfVector(n, view)],
                SelfTable(n, view, forwardingTable[n]))
  <2>1. view[n] = disVectors[n][n]
    BY DEF Updates
  <2>2. \A d \in Nodes : forwardingTable[n][d] = NOHOP <=> disVectors[n][n][d] = INFINI
    BY DEF UnreachableAgree
  <2>3. disVectors[n] \in [Nodes -> Vectors] /\ forwardingTable[n] \in [Nodes -> Nodes \cup {NOHOP}]
    OBVIOUS
  <2> QED
    BY <1>1, <1>2, <2>1, <2>2, <2>3, BetterHops
<1>4. Improves(n, s, L)
  <2>1. disVectors'[n] = [view EXCEPT ![n] = SelfVector(n, view)]
    BY DEF Updates
  <2>2. /\ disVectors'[n][n] = SelfVector(n, view)
        /\ \A m \in Nodes \ {n} : disVectors'[n][m] = view[m]
    BY <2>1
  <2> QED
    BY <1>3, <2>2 DEF Improves, Updates
<1>5. AllImproving'
  BY <1>1, <1>4, QueueImproves
<1>6. ASSUME NEW x \in Nodes
      PROVE  HopsOK(costToNeighbors', x, disVectors'[x], forwardingTable'[x])
  BY <1>1, <1>3 DEF Updates
<1>7. \A x \in Nodes : Unheard(x)'
  BY <1>1, UnheardKept
<1> QED
  BY <1>5, <1>6, <1>7 DEF AllImproving

LEMMA InitFirst == Init => FirstInv
<1> SUFFICES ASSUME Init PROVE FirstInv
  OBVIOUS
<1> DEFINE none == [d \in Nodes |-> NOHOP]
<1>1. /\ IsGraph(costToNeighbors) /\ Len(messageQueue) = 0
      /\ disVectors = [n \in Nodes |-> [NoView EXCEPT ![n] = SelfVector(n, NoView)]]
      /\ forwardingTable = [n \in Nodes |-> SelfTable(n, NoView, none)]
  BY TopologyAssumption DEF Init
<1>2. /\ NoVector \in Vectors /\ NoView \in [Nodes -> Vectors]
      /\ none \in [Nodes -> Nodes \cup {NOHOP}]
      /\ \A n, d \in Nodes : NoView[n] = NoVector /\ NoView[n][d] = INFINI /\ none[d] = NOHOP
  BY TopologyAssumption DEF NoView, NoVector, Vectors
<1> HIDE DEF none
<1>3. ASSUME NEW n \in Nodes
      PROVE  HopsOK(costToNeighbors, n, disVectors[n], forwardingTable[n])
  <2>1. \A m \in Neighbors(n) : NotAbove(NoView[m], NoView[m])
    <3>1. Neighbors(n) \subseteq Nodes
      BY <1>1, NeighborMap DEF Neighbors
    <3> QED
      BY <1>2, <3>1, NotAboveReflexive
  <2>2. HopsOK(costToNeighbors, n, NoView, none)
    BY <1>2 DEF HopsOK
  <2>3. HopsOK(costToNeighbors, n, [NoView EXCEPT ![n] = SelfVector(n, NoView)],
               SelfTable(n, NoView, none))
    BY <1>1, <1>2, <2>1, <2>2, BetterHops
  <2> QED
    BY <1>1, <2>3
<1>4. ASSUME NEW n \in Nodes, NEW m \in DOMAIN costToNeighbors[n]
      PROVE  Improving(n, m)
  <2>1. m \in Nodes /\ m # n
    BY <1>1, GraphProperties
  <2>2. Waiting(n, m) = {}
    BY <1>1 DEF Waiting
  <2>3. disVectors[n][m] = NoVector /\ disVectors[m][m] = SelfVector(m, NoView)
    BY <1>1, <1>2, <2>1
  <2>4. SelfVector(m, NoView) \in Vectors
    BY <1>1, <1>2, <2>1, SelfVectorType
  <2>5. NotAbove(disVectors[m][m], disVectors[n][m])
    BY <2>3, <2>4, TopologyAssumption DEF NotAbove, NoVector, Vectors
  <2> QED
    BY <2>2, <2>5 DEF Improving
<1>5. ASSUME NEW g \in Nodes PROVE Unheard(g)
  <2> SUFFICES ASSUME DOMAIN costToNeighbors[g] = {}, NEW n \in Nodes \ {g}, NEW m \in Nodes
               PROVE  disVectors[n][m][g] = INFINI
    BY <1>1 DEF Unheard
  <2>1. SelfVector(n, NoView)[g] = INFINI
    BY <1>1, <1>2, NoWayToUnlinked
  <2>2. CASE m = n
    BY <1>1, <1>2, <2>1, <2>2
  <2>3. CASE m # n
    BY <1>1, <1>2, <2>3
  <2> QED
    BY <2>2, <2>3
<1> QED
  BY <1>3, <1>4, <1>5 DEF FirstInv

LEMMA StartNodeFirst == Inv /\ FirstInv /\ StartNode => FirstInv'
<1> SUFFICES ASSUME Inv, FirstInv, StartNode PROVE FirstInv'
  OBVIOUS
<1> DEFINE n == order[turn]
           vector == SelfVector(n, disVectors[n])
           mesg == Message(n, vector)
<1>1. /\ IsGraph(costToNeighbors) /\ disVectors \in [Nodes -> [Nodes -> Vectors]]
      /\ forwardingTable \in [Nodes -> [Nodes -> Nodes \cup {NOHOP}]]
      /\ messageQueue \in Seq(Messages) /\ UnreachableAgree
      /\ order \in Orders /\ turn \in 1 .. Len(order)
  BY DEF Inv, TypeOK
<1>2. /\ disVectors' = [disVectors EXCEPT ![n][n] = vector]
      /\ forwardingTable' =
              [forwardingTable EXCEPT ![n] = SelfTable(n, disVectors[n], @)]
      /\ messageQueue' = Append(messageQueue, mesg)
      /\ UNCHANGED <<costToNeighbors, changesLeft>>
  BY DEF StartNode
<1>3. n \in Nodes
  BY <1>1, OrderProperties
<1>4. vector \in Vectors
  BY <1>1, <1>3, SelfVectorType
<1>5. /\ mesg \in Messages /\ mesg.owner = n /\ mesg.vector = vector
      /\ mesg.neighbors = DOMAIN costToNeighbors[n]
  BY <1>1, <1>3, <1>4, NeighborMap DEF Message, Messages, Neighbors
<1> HIDE DEF n, vector, mesg
<1>6. /\ messageQueue' \in Seq(Messages) /\ Len(messageQueue) \in Nat
      /\ Len(messageQueue') = Len(messageQueue) + 1
      /\ \A i \in 1 .. Len(messageQueue) : messageQueue'[i] = messageQueue[i]
      /\ messageQueue'[Len(messageQueue) + 1] = mesg
  BY <1>1, <1>2, <1>5, AppendProperties
<1>7. /\ disVectors' \in [Nodes -> [Nodes -> Vectors]] /\ disVectors'[n][n] = vector
      /\ disVectors'[n] = [disVectors[n] EXCEPT ![n] = vector]
      /\ \A m \in Nodes \ {n} : disVectors'[m] = disVectors[m]
      /\ forwardingTable'[n] = SelfTable(n, disVectors[n], forwardingTable[n])
      /\ \A m \in Nodes \ {n} : forwardingTable'[m] = forwardingTable[m]
  BY <1>1, <1>2, <1>3, <1>4
<1>8. QueueMoves(n, 0, Len(messageQueue))
  <2>1. \A i \in 1 .. Len(messageQueue) : i + 0 = i
    OBVIOUS
  <2> QED
    BY <1>5, <1>6, <1>7, <2>1 DEF QueueMoves
<1>9. Updates(n, disVectors[n], 0, Len(messageQueue))
  BY <1>7 DEF Updates, vector
<1>10. disVectors[n] \in [Nodes -> Vectors] /\ Len(messageQueue) + 0 = Len(messageQueue)
  BY <1>1, <1>3, <1>6
<1>11. UNCHANGED costToNeighbors /\ changesLeft' = changesLeft
  BY <1>2
<1> QED
  BY <1>1, <1>3, <1>6, <1>7, <1>8, <1>9, <1>10, <1>11, UpdatesFirst

LEMMA ReceiveVectorFirst == Inv /\ FirstInv /\ ReceiveVector => FirstInv'
<1> SUFFICES ASSUME Inv, FirstInv, ReceiveVector PROVE FirstInv'
  OBVIOUS
<1> DEFINE mesg == Head(messageQueue)
           n == SetMin(mesg.neighbors)
           o == mesg.owner
           view == [disVectors[n] EXCEPT ![o] = mesg.vector]
           vector == SelfVector(n, view)
           changed == vector # view[n]
           new == Message(n, vector)
           s == Shift(n)
           L == Len(messageQueue) - s
<1>1. /\ IsGraph(costToNeighbors) /\ disVectors \in [Nodes -> [Nodes -> Vectors]]
      /\ forwardingTable \in [Nodes -> [Nodes -> Nodes \cup {NOHOP}]]
      /\ messageQueue \in Seq(Messages) /\ UnreachableAgree
      /\ messageQueue # <<>> /\ mesg.neighbors # {}
  BY DEF Inv, TypeOK, ReceiveVector
<1>2. /\ disVectors' = [disVectors EXCEPT ![n] = [view EXCEPT ![n] = vector]]
      /\ forwardingTable' = [forwardingTable EXCEPT ![n] = SelfTable(n, view, @)]
      /\ changed => messageQueue' = Append(Delivered(n), new)
      /\ ~ changed => messageQueue' = Delivered(n)
      /\ UNCHANGED <<costToNeighbors, changesLeft>>
  BY DEF ReceiveVector
<1>3. /\ Len(messageQueue) \in Nat /\ Len(messageQueue) >= 1 /\ mesg = messageQueue[1]
      /\ mesg \in Messages
  BY <1>1, EmptySeq, ElementOfSeq
<1>4. /\ o \in Nodes /\ mesg.vector \in Vectors /\ mesg.neighbors \subseteq Nodes
      /\ mesg.neighbors \subseteq DOMAIN costToNeighbors[o]
  BY <1>3 DEF Messages, Inv, QueueOK
<1>5. n \in mesg.neighbors /\ n \in Nodes /\ n # o
  <2>1. o \notin mesg.neighbors
    BY <1>1, <1>4, GraphProperties
  <2>2. n \in mesg.neighbors
    BY <1>1, <1>4, SetMinProperties, TopologyAssumption
  <2> QED
    BY <1>4, <2>1, <2>2
<1> HIDE DEF mesg, n, o
<1>6. /\ view \in [Nodes -> Vectors] /\ view[n] = disVectors[n][n]
      /\ view[o] = mesg.vector
      /\ \A m \in Nodes \ {o} : view[m] = disVectors[n][m]
  BY <1>1, <1>4, <1>5
<1> HIDE DEF view
<1>7. vector \in Vectors
  BY <1>1, <1>5, <1>6, SelfVectorType
<1>8. /\ new \in Messages /\ new.owner = n /\ new.vector = vector
      /\ new.neighbors = DOMAIN costToNeighbors[n]
  BY <1>1, <1>5, <1>7, NeighborMap DEF Message, Messages, Neighbors
<1> HIDE DEF vector, new, changed
<1>9. /\ Delivered(n) \in Seq(Messages) /\ Len(Delivered(n)) = L
      /\ \A i \in 1 .. L :
           /\ Delivered(n)[i].owner = messageQueue[i + s].owner
           /\ Delivered(n)[i].vector = messageQueue[i + s].vector
           /\ Delivered(n)[i].neighbors =
                IF i + s = 1 THEN mesg.neighbors \ {n} ELSE messageQueue[i + s].neighbors
  BY <1>1, <1>3, <1>5, DeliveredProperties DEF mesg
<1>10. s \in {0, 1} /\ L \in Nat /\ L + s = Len(messageQueue)
  BY <1>3 DEF Shift
<1> HIDE DEF s, L
<1>11. /\ messageQueue' \in Seq(Messages)
       /\ \A i \in 1 .. L : messageQueue'[i] = Delivered(n)[i]
       /\ changed => Len(messageQueue') = L + 1 /\ messageQueue'[L + 1] = new
       /\ ~ changed => Len(messageQueue') = L
  <2>1. CASE changed
    <3>1. messageQueue' = Append(Delivered(n), new)
      BY <1>2, <2>1
    <3> QED
      BY <1>8, <1>9, <2>1, <3>1, AppendProperties
  <2>2. CASE ~ changed
    BY <1>2, <1>9, <2>2
  <2> QED
    BY <2>1, <2>2
<1>12. /\ disVectors' \in [Nodes -> [Nodes -> Vectors]] /\ disVectors'[n][n] = vector
       /\ disVectors'[n] = [view EXCEPT ![n] = vector]
       /\ \A m \in Nodes \ {n} : disVectors'[m] = disVectors[m]
       /\ forwardingTable'[n] = SelfTable(n, view, forwardingTable[n])
       /\ \A m \in Nodes \ {n} : forwardingTable'[m] = forwardingTable[m]
  BY <1>1, <1>2, <1>5, <1>6, <1>7
<1>13. ASSUME NEW i \in 1 .. L
       PROVE  /\ messageQueue'[i].owner = messageQueue[i + s].owner
              /\ messageQueue'[i].vector = messageQueue[i + s].vector
              /\ messageQueue'[i].neighbors \subseteq messageQueue[i + s].neighbors
              /\ i + s = 1 => n \notin messageQueue'[i].neighbors
  BY <1>3, <1>9, <1>11
<1>14. QueueMoves(n, s, L)
  BY <1>8, <1>11, <1>12, <1>13 DEF QueueMoves
<1>15. 1 \in Waiting(n, o) /\ view[o] = messageQueue[1].vector
  BY <1>3, <1>5, <1>6 DEF Waiting, o
<1>16. Updates(n, view, s, L)
  <2>1. SelfVector(n, view) = vector
    BY DEF vector
  <2> QED
    BY <1>6, <1>12, <1>13, <1>15, <2>1 DEF Updates
<1>17. UNCHANGED costToNeighbors /\ changesLeft' = changesLeft
  BY <1>2
<1>18. /\ messageQueue' \in Seq(Messages) /\ n \in Nodes /\ view \in [Nodes -> Vectors]
       /\ disVectors' \in [Nodes -> [Nodes -> Vectors]]
  BY <1>5, <1>6, <1>11, <1>12
<1> QED
  BY <1>1, <1>10, <1>14, <1>16, <1>17, <1>18, UpdatesFirst

\* Disconnecting a node changes nothing that matters: nobody had heard of it.
LEMMA DisconnectNodeFirst == Inv /\ FirstInv /\ DisconnectNode => FirstInv'
<1> SUFFICES ASSUME Inv, FirstInv, DisconnectNode, changesLeft = MaxChanges
             PROVE  FirstInv'
  BY DEF FirstInv, DisconnectNode
<1> DEFINE q == messageQueue
           gone == Head(messageQueue).owner
<1>1. /\ IsGraph(costToNeighbors) /\ disVectors \in [Nodes -> [Nodes -> Vectors]]
      /\ forwardingTable \in [Nodes -> [Nodes -> Nodes \cup {NOHOP}]]
      /\ q \in Seq(Messages) /\ q # <<>> /\ Head(q).neighbors = {} /\ UnreachableAgree
  BY DEF Inv, TypeOK, DisconnectNode
<1>2. /\ disVectors' = [n \in Nodes |-> ViewWithout(n, gone)]
      /\ forwardingTable' = [n \in Nodes |-> TableWithout(n, gone)]
      /\ messageQueue' = [i \in 1 .. Len(q) - 1 |-> [q[i + 1] EXCEPT !.vector[gone] = INFINI]]
      /\ UNCHANGED <<costToNeighbors, changesLeft>>
  BY DEF DisconnectNode, QueueWithout
<1>3. /\ Len(q) \in Nat /\ Len(q) >= 1 /\ Head(q) = q[1]
      /\ \A i \in 1 .. Len(q) : q[i] \in Messages
  BY <1>1, EmptySeq, ElementOfSeq
<1>4. gone \in Nodes /\ DOMAIN costToNeighbors[gone] = {}
  <2>1. 1 \in 1 .. Len(q) /\ q[1] \in Messages
    BY <1>3
  <2> QED
    BY <1>1, <1>3, <2>1 DEF Messages, Inv, QueueOK
<1>5. /\ \A n \in Nodes \ {gone}, m \in Nodes : disVectors[n][m][gone] = INFINI
      /\ \A i \in 1 .. Len(q) : q[i].neighbors # {} => q[i].vector[gone] = INFINI
  BY <1>4 DEF FirstInv, Unheard
<1> HIDE DEF gone
<1>6. disVectors' = disVectors
  <2>1. ASSUME NEW n \in Nodes PROVE ViewWithout(n, gone) = disVectors[n]
    <3>1. CASE n = gone
      BY <3>1 DEF ViewWithout
    <3>2. CASE n # gone
      <4>1. ASSUME NEW m \in Nodes
            PROVE  [disVectors[n][m] EXCEPT ![gone] = INFINI] = disVectors[n][m]
        <5>1. disVectors[n][m] \in Vectors /\ disVectors[n][m][gone] = INFINI
          BY <1>1, <1>5, <3>2
        <5> QED
          BY <5>1 DEF Vectors
      <4>2. ViewWithout(n, gone) = [m \in Nodes |-> disVectors[n][m]]
        BY <3>2, <4>1 DEF ViewWithout
      <4> QED
        BY <1>1, <4>2
    <3> QED
      BY <3>1, <3>2
  <2>2. disVectors' = [n \in Nodes |-> disVectors[n]]
    BY <1>2, <2>1
  <2> QED
    BY <1>1, <2>2
<1>7. forwardingTable' = forwardingTable
  <2>1. ASSUME NEW n \in Nodes PROVE TableWithout(n, gone) = forwardingTable[n]
    <3>1. CASE n = gone
      BY <3>1 DEF TableWithout
    <3>2. CASE n # gone
      <4>1. forwardingTable[n][gone] = NOHOP
        BY <1>1, <1>4, <1>5, <3>2 DEF UnreachableAgree
      <4>2. forwardingTable[n] \in [Nodes -> Nodes \cup {NOHOP}]
        BY <1>1
      <4> QED
        BY <3>2, <4>1, <4>2 DEF TableWithout
    <3> QED
      BY <3>1, <3>2
  <2>2. forwardingTable' = [n \in Nodes |-> forwardingTable[n]]
    BY <1>2, <2>1
  <2> QED
    BY <1>1, <2>2
\* The queue without its first message, which was for nobody.
<1>8. /\ Len(messageQueue') = Len(q) - 1
      /\ \A i \in 1 .. Len(q) - 1 :
           /\ messageQueue'[i].owner = q[i + 1].owner
           /\ messageQueue'[i].neighbors = q[i + 1].neighbors
           /\ q[i + 1].neighbors # {} => messageQueue'[i].vector = q[i + 1].vector
  <2>1. ASSUME NEW i \in 1 .. Len(q) - 1
        PROVE  /\ messageQueue'[i].owner = q[i + 1].owner
               /\ messageQueue'[i].neighbors = q[i + 1].neighbors
               /\ q[i + 1].neighbors # {} => messageQueue'[i].vector = q[i + 1].vector
    <3>1. i + 1 \in 1 .. Len(q) /\ q[i + 1] \in Messages
      BY <1>3
    <3>2. messageQueue'[i] = [q[i + 1] EXCEPT !.vector[gone] = INFINI]
      BY <1>2
    <3>3. /\ messageQueue'[i].owner = q[i + 1].owner
          /\ messageQueue'[i].neighbors = q[i + 1].neighbors
          /\ messageQueue'[i].vector = [q[i + 1].vector EXCEPT ![gone] = INFINI]
      BY <3>1, <3>2 DEF Messages
    <3>4. ASSUME q[i + 1].neighbors # {}
          PROVE  [q[i + 1].vector EXCEPT ![gone] = INFINI] = q[i + 1].vector
      <4>1. q[i + 1].vector \in Vectors
        BY <3>1 DEF Messages
      <4>2. q[i + 1].vector[gone] = INFINI
        BY <1>5, <3>1, <3>4
      <4> QED
        BY <4>1, <4>2 DEF Vectors
    <3> QED
      BY <3>3, <3>4
  <2>2. messageQueue' \in [1 .. Len(q) - 1 -> Messages] /\ Len(q) - 1 \in Nat
    <3>1. INFINI \in 0 .. INFINI
      BY TopologyAssumption
    <3>2. ASSUME NEW m \in Messages PROVE [m EXCEPT !.vector[gone] = INFINI] \in Messages
      BY <3>1 DEF Messages, Vectors
    <3> QED
      BY <1>2, <1>3, <3>2, SMTT(30)
  <2>3. Len(messageQueue') = Len(q) - 1
    BY <2>2, SeqDef, LenProperties
  <2> QED
    BY <2>1, <2>3
<1>9. ASSUME NEW n \in Nodes, NEW m \in DOMAIN costToNeighbors[n]
      PROVE  Improving(n, m)'
  <2>1. ASSUME NEW i \in Waiting(n, m)'
        PROVE  i + 1 \in Waiting(n, m) /\ messageQueue'[i].vector = q[i + 1].vector
    <3>1. /\ i \in 1 .. Len(q) - 1 /\ messageQueue'[i].owner = m
          /\ n \in messageQueue'[i].neighbors
      BY <1>8 DEF Waiting
    <3> QED
      BY <1>3, <1>8, <3>1 DEF Waiting
  <2>2. Improving(n, m)
    BY DEF FirstInv
  <2>3. Waiting(n, m)' \subseteq Int
    BY <1>3, <1>8 DEF Waiting
  <2>4. ASSUME NEW i \in Waiting(n, m)', NEW j \in Waiting(n, m)', i <= j
        PROVE  NotAbove(messageQueue'[j].vector, messageQueue'[i].vector)
    <3>1. i + 1 <= j + 1
      BY <2>3, <2>4
    <3> QED
      BY <2>1, <2>2, <3>1 DEF Improving
  <2>5. /\ NotAbove(disVectors[m][m], disVectors[n][m])
        /\ \A i \in Waiting(n, m)' :
             /\ NotAbove(disVectors[m][m], messageQueue'[i].vector)
             /\ NotAbove(messageQueue'[i].vector, disVectors[n][m])
    BY <2>1, <2>2 DEF Improving
  <2> QED
    BY <1>6, <2>4, <2>5 DEF Improving, NotAbove
<1>10. ASSUME NEW g \in Nodes PROVE Unheard(g)'
  <2> SUFFICES ASSUME DOMAIN costToNeighbors[g] = {}
               PROVE  /\ \A n \in Nodes \ {g}, m \in Nodes : disVectors[n][m][g] = INFINI
                      /\ \A i \in 1 .. Len(messageQueue') :
                           messageQueue'[i].neighbors # {} => messageQueue'[i].vector[g] = INFINI
    BY <1>2, <1>6 DEF Unheard
  <2>1. /\ \A n \in Nodes \ {g}, m \in Nodes : disVectors[n][m][g] = INFINI
        /\ \A i \in 1 .. Len(q) : q[i].neighbors # {} => q[i].vector[g] = INFINI
    BY DEF FirstInv, Unheard
  <2>2. ASSUME NEW i \in 1 .. Len(messageQueue'), messageQueue'[i].neighbors # {}
        PROVE  messageQueue'[i].vector[g] = INFINI
    <3>1. i \in 1 .. Len(q) - 1 /\ i + 1 \in 1 .. Len(q)
      BY <1>3, <1>8
    <3> QED
      BY <1>8, <2>1, <2>2, <3>1
  <2> QED
    BY <2>1, <2>2
<1>11. \A n \in Nodes : HopsOK(costToNeighbors', n, disVectors'[n], forwardingTable'[n])
  BY <1>2, <1>6, <1>7 DEF FirstInv
<1> QED
  BY <1>2, <1>9, <1>10, <1>11 DEF FirstInv

LEMMA FirstInvStep == Inv /\ FirstInv /\ [Next]_vars => FirstInv'
<1> SUFFICES ASSUME Inv, FirstInv, [Next]_vars PROVE FirstInv'
  OBVIOUS
<1>1. CASE StartNode
  BY <1>1, StartNodeFirst
<1>2. CASE ReceiveVector
  BY <1>2, ReceiveVectorFirst
<1>3. CASE DisconnectNode
  BY <1>3, DisconnectNodeFirst
<1>4. CASE \E a, b \in Nodes, cost \in Costs \cup {NoLink} : a # b /\ ApplyChange(a, b, cost)
  <2>1. changesLeft' = changesLeft - 1
    BY <1>4 DEF ApplyChange
  <2>2. changesLeft \in 0 .. MaxChanges /\ MaxChanges \in Nat
    BY TopologyAssumption DEF Inv, TypeOK
  <2>3. changesLeft' # MaxChanges
    BY <2>1, <2>2
  <2> QED
    BY <2>3 DEF FirstInv
<1>5. CASE Converged \/ RoutePacket \/ Hop \/ Finish \/ UNCHANGED vars
  <2>1. UNCHANGED <<costToNeighbors, disVectors, forwardingTable, messageQueue, changesLeft>>
    BY <1>5 DEF Converged, RoutePacket, Hop, Finish, vars
  <2> QED
    BY <2>1 DEF FirstInv, HopsOK, Offer, Improving, Waiting, NotAbove, Unheard
<1> QED
  BY <1>1, <1>2, <1>3, <1>4, <1>5 DEF Next, Done

\* Until the first change the tables lead along shortest paths when the exchange
\* has ended: the next hop is a neighbour from which the rest costs what the link
\* leaves.  Vectors only improve until then, so that a hop whose cost is not
\* changed by an update is still the way that costs it.
THEOREM TablesLeadOn == Spec => []HopMatchesCost
<1>1. Inv /\ FirstInv => HopMatchesCost
  <2> SUFFICES ASSUME Inv, FirstInv, pc = "output", changesLeft = MaxChanges,
                      NEW n \in Nodes, NEW d \in Nodes, n # d,
                      forwardingTable[n][d] # NOHOP
               PROVE  /\ forwardingTable[n][d] \in Neighbors(n)
                      /\ disVectors[n][n][d] = CostVia(n, [m \in Nodes |-> disVectors[m][m]],
                                                      forwardingTable[n][d], d)
    BY DEF HopMatchesCost
  <2> DEFINE hop == forwardingTable[n][d]
  <2>1. /\ hop \in DOMAIN costToNeighbors[n]
        /\ disVectors[n][n][d] = Offer(costToNeighbors, disVectors[n], n, hop, d)
    BY DEF FirstInv, HopsOK
  <2>2. hop \in Nodes
    BY <2>1, NeighborMap DEF Inv, TypeOK
  <2>3. Len(messageQueue) = 0
    BY DEF Inv, PhaseOK
  <2>4. Waiting(n, hop) = {}
    BY <2>3 DEF Waiting
  <2>5. disVectors[n][hop] = disVectors[hop][hop]
    BY <2>1, <2>4 DEF Inv, LatestVectorKnown, Neighbors
  <2> HIDE DEF hop
  <2>6. disVectors[n][n][d] = CostVia(n, [m \in Nodes |-> disVectors[m][m]], hop, d)
    BY <2>1, <2>2, <2>5 DEF CostVia, CostFromNeighbor, Offer
  <2> QED
    BY <2>1, <2>6 DEF Neighbors, hop
<1> QED
  BY <1>1, InitFirst, FirstInvStep, InvHolds, PTL DEF Spec

\* With the packet at a node, what is left to its destination.
Remaining(at, dest) == disVectors[at][at][dest]

\* One pass of the loop of findPath before the first change brings the packet to
\* a node from which the rest costs less, and comes to one without a route only
\* if there was none at the start.
HopNearer ==
  Hop /\ changesLeft = MaxChanges =>
    IF Remaining(packet.at, packet.dest) = INFINI THEN packet'.at = NOHOP
    ELSE /\ packet'.at \in Neighbors(packet.at)
         /\ Remaining(packet'.at, packet.dest) < Remaining(packet.at, packet.dest)

\* Why findPath ends for every packet before the first change (RoutesEnd): what is
\* left is a natural number, and every pass of its loop lowers it.
THEOREM EveryHopNearer == Spec => [][HopNearer]_vars
<1>1. Inv /\ FirstInv /\ [Next]_vars => [HopNearer]_vars
  <2> SUFFICES ASSUME Inv, FirstInv, Hop, changesLeft = MaxChanges
               PROVE  IF Remaining(packet.at, packet.dest) = INFINI THEN packet'.at = NOHOP
                      ELSE /\ packet'.at \in Neighbors(packet.at)
                           /\ Remaining(packet'.at, packet.dest) < Remaining(packet.at, packet.dest)
    BY DEF HopNearer
  <2> DEFINE n == packet.at
             d == packet.dest
             next == forwardingTable[n][d]
  <2>1. /\ pc = "route" /\ packet \in [at : Nodes \cup {NOHOP}, dest : Nodes]
        /\ n \in Nodes /\ d \in Nodes /\ n # d /\ packet'.at = next
    BY DEF Hop, Forward, Inv, PacketOK
  <2>2. /\ IsGraph(costToNeighbors) /\ disVectors \in [Nodes -> [Nodes -> Vectors]]
        /\ forwardingTable[n][d] = NOHOP <=> disVectors[n][n][d] = INFINI
    BY <2>1 DEF Inv, TypeOK, UnreachableAgree
  <2>3. CASE disVectors[n][n][d] = INFINI
    BY <2>1, <2>2, <2>3 DEF Remaining
  <2>4. CASE disVectors[n][n][d] # INFINI
    <3>1. /\ next \in DOMAIN costToNeighbors[n]
          /\ disVectors[n][n][d] = Offer(costToNeighbors, disVectors[n], n, next, d)
      BY <2>1, <2>2, <2>4 DEF FirstInv, HopsOK
    <3>2. next \in Nodes /\ costToNeighbors[n][next] \in Nat /\ costToNeighbors[n][next] >= 1
      BY <2>1, <2>2, <3>1, GraphProperties
    <3>3. Len(messageQueue) = 0
      BY <2>1 DEF Inv, PhaseOK
    <3>4. disVectors[n][next] = disVectors[next][next]
      BY <2>1, <3>1, <3>3 DEF Inv, LatestVectorKnown, Neighbors, Waiting
    <3>5. disVectors[next][next][next] = 0 /\ disVectors[next][next][d] \in Nat
      <4>1. Current(costToNeighbors, disVectors[next], next)
        BY <2>1, <3>2 DEF Inv, VectorsCurrent, Started
      <4> QED
        <5>1. disVectors[next][next] \in Vectors
          BY <2>2, <3>2
        <5>2. disVectors[next][next][d] \in 0 .. INFINI
          BY <2>1, <5>1 DEF Vectors
        <5>3. INFINI \in Nat
          BY TopologyAssumption
        <5> QED
          <6>1. disVectors[next][next][next] = 0
            BY <4>1 DEF Current
          <6>2. \A x \in 0 .. INFINI : x \in Nat
            BY <5>3
          <6> QED
            BY <5>2, <6>1, <6>2, Zenon
    <3> HIDE DEF n, d, next
    <3>6. disVectors[next][next][d] < disVectors[n][n][d]
      BY <3>1, <3>2, <3>4, <3>5 DEF Offer
    <3> QED
      BY <2>1, <2>4, <3>1, <3>6 DEF Remaining, Neighbors, n, d
  <2> QED
    BY <2>3, <2>4
<1> QED
  BY <1>1, InitFirst, FirstInvStep, InvHolds, PTL DEF Spec
=============================================================================
