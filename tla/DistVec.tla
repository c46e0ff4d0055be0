------------------------------ MODULE DistVec -------------------------------
(***************************************************************************)
(* The distance-vector emulation of mp3 (distvec.cpp).  All nodes live in  *)
(* one process and exchange vectors through one queue.  converge() lets    *)
(* every node update and send its vector, in the iteration order of an     *)
(* unordered_map, and then delivers the queue, which grows meanwhile,      *)
(* until it is empty.  Then the routes are written and the next line of    *)
(* the changes file is applied.                                            *)
(***************************************************************************)
EXTENDS Topology

CONSTANT Orders     \* the orders in which nodes_ may iterate

NOHOP == -1

ASSUME DistVecAssumption ==
  \A o \in Orders : /\ o \in Seq(Nodes)
                    /\ \A n \in Nodes : \E i \in 1 .. Len(o) : o[i] = n
                    /\ \A i, j \in 1 .. Len(o) : o[i] = o[j] => i = j

VARIABLES
  costToNeighbors,
  disVectors,       \* disVectors[n][m]: what node n knows of the vector of m;
                    \* an entry that is missing in the code counts as INFINI
  forwardingTable,
  messageQueue,
  order,            \* the iteration order of nodes_
  turn,             \* position of converge() in it
  changesLeft,
  pc,               \* "converge" | "deliver" | "output" | "route" | "done"
  packet            \* the packet being routed, and where findPath is

vars == <<costToNeighbors, disVectors, forwardingTable, messageQueue, order,
          turn, changesLeft, pc, packet>>

SetMin(S) == CHOOSE x \in S : \A y \in S : x <= y
Neighbors(n) == DOMAIN costToNeighbors[n]

-----------------------------------------------------------------------------
(* updateSelfDistanceVector of node n, which knows the vectors in view.    *)

CostFromNeighbor(view, m, d) == IF m = d THEN 0 ELSE view[m][d]
CostVia(n, view, m, d) == costToNeighbors[n][m] + CostFromNeighbor(view, m, d)

\* Mutant: what the neighbours report is not bounded by INFINI.
MinCost_Uncapped(n, view, d) ==
  IF d = n THEN 0
  ELSE IF Neighbors(n) = {} THEN INFINI
  ELSE SetMin({CostVia(n, view, m, d) : m \in Neighbors(n)})

\* getMinCostToDestination: the cost, and the neighbour with the smallest id
\* among those that offer it.
MinCost(n, view, d) ==
  IF d = n THEN 0
  ELSE SetMin({INFINI} \cup {CostVia(n, view, m, d) : m \in Neighbors(n)})

NextHop(n, view, d) ==
  IF d = n THEN n
  ELSE IF MinCost(n, view, d) = INFINI THEN NOHOP
  ELSE SetMin({m \in Neighbors(n) : CostVia(n, view, m, d) = MinCost(n, view, d)})

\* Mutant: a route is replaced only by a cheaper one.
SelfVector_Improves(n, view) ==
  [d \in Nodes |-> SetMin({MinCost(n, view, d), view[n][d]})]

SelfVector(n, view) == [d \in Nodes |-> MinCost(n, view, d)]

\* Mutant: the first next hop found is kept.
SelfTable_FirstHop(n, view, table) ==
  [d \in Nodes |-> IF table[d] = NOHOP THEN NextHop(n, view, d) ELSE table[d]]

\* The table changes only where the cost does.
SelfTable(n, view, table) ==
  [d \in Nodes |-> IF view[n][d] # MinCost(n, view, d) THEN NextHop(n, view, d)
                                                       ELSE table[d]]

Message(n, vector) == [owner |-> n, neighbors |-> Neighbors(n), vector |-> vector]

NoVector == [d \in Nodes |-> INFINI]
NoView == [m \in Nodes |-> NoVector]

Init ==
  /\ costToNeighbors \in Topologies
  /\ disVectors = [n \in Nodes |-> [NoView EXCEPT ![n] = SelfVector(n, NoView)]]
  /\ forwardingTable = [n \in Nodes |-> SelfTable(n, NoView, [d \in Nodes |-> NOHOP])]
  /\ messageQueue = <<>>
  /\ order \in Orders
  /\ turn = 1
  /\ changesLeft = MaxChanges
  /\ pc = "converge"
  /\ packet = <<>>

-----------------------------------------------------------------------------
(* converge()                                                              *)

\* The first loop: the next node updates its vector and sends it in any case.
StartNode ==
  /\ pc = "converge"
  /\ LET n == order[turn]
         vector == SelfVector(n, disVectors[n])
     IN  /\ disVectors' = [disVectors EXCEPT ![n][n] = vector]
         /\ forwardingTable' =
              [forwardingTable EXCEPT ![n] = SelfTable(n, disVectors[n], @)]
         /\ messageQueue' = Append(messageQueue, Message(n, vector))
  /\ IF turn < Len(order)
     THEN turn' = turn + 1 /\ pc' = pc
     ELSE turn' = 1 /\ pc' = "deliver"
  /\ UNCHANGED <<costToNeighbors, order, changesLeft, packet>>

\* The message is popped after its last receiver; until then the neighbours
\* that have it are taken out.
Delivered(n) ==
  LET mesg == Head(messageQueue)
  IN  IF mesg.neighbors = {n}
      THEN Tail(messageQueue)
      ELSE <<[mesg EXCEPT !.neighbors = @ \ {n}]>> \o Tail(messageQueue)

\* recvNewDisVector by the next receiver of the first message: only a vector
\* that changed is sent on.
ReceiveVector ==
  /\ pc = "deliver"
  /\ messageQueue # <<>>
  /\ Head(messageQueue).neighbors # {}
  /\ LET mesg == Head(messageQueue)
         n == SetMin(mesg.neighbors)
         view == [disVectors[n] EXCEPT ![mesg.owner] = mesg.vector]
         vector == SelfVector(n, view)
     IN  /\ disVectors' = [disVectors EXCEPT ![n] = [view EXCEPT ![n] = vector]]
         /\ forwardingTable' = [forwardingTable EXCEPT ![n] = SelfTable(n, view, @)]
         /\ messageQueue' = IF vector # view[n]
                            THEN Append(Delivered(n), Message(n, vector))
                            ELSE Delivered(n)
  /\ UNCHANGED <<costToNeighbors, order, turn, changesLeft, pc, packet>>

\* Mutant: the messages under way keep what they say about the node.
QueueWithout_Kept(gone) == Tail(messageQueue)

\* Mutant: the message is popped only when it had a receiver.
QueueWithout_NotPopped(gone) ==
  [i \in 1 .. Len(messageQueue) |-> [messageQueue[i] EXCEPT !.vector[gone] = INFINI]]

\* The rest of the queue without what it says about a node.
QueueWithout(gone) ==
  [i \in 1 .. Len(messageQueue) - 1 |->
     [messageQueue[i + 1] EXCEPT !.vector[gone] = INFINI]]

\* Mutant: the table keeps its next hop to the node.
TableWithout_Kept(n, gone) == forwardingTable[n]

TableWithout(n, gone) ==
  IF n = gone THEN forwardingTable[n] ELSE [forwardingTable[n] EXCEPT ![gone] = NOHOP]

ViewWithout(n, gone) ==
  IF n = gone THEN disVectors[n]
  ELSE [m \in Nodes |-> [disVectors[n][m] EXCEPT ![gone] = INFINI]]

\* A message without receivers comes from a node that lost its last link:
\* everybody forgets it, and it is forgotten in the messages under way.
DisconnectNode ==
  /\ pc = "deliver"
  /\ messageQueue # <<>>
  /\ Head(messageQueue).neighbors = {}
  /\ LET gone == Head(messageQueue).owner
     IN  /\ disVectors' = [n \in Nodes |-> ViewWithout(n, gone)]
         /\ forwardingTable' = [n \in Nodes |-> TableWithout(n, gone)]
         /\ messageQueue' = QueueWithout(gone)
  /\ UNCHANGED <<costToNeighbors, order, turn, changesLeft, pc, packet>>

Converged ==
  /\ pc = "deliver"
  /\ messageQueue = <<>>
  /\ pc' = "output"
  /\ UNCHANGED <<costToNeighbors, disVectors, forwardingTable, messageQueue,
                 order, turn, changesLeft, packet>>

-----------------------------------------------------------------------------
(* The output, and the changes                                             *)

\* A line of the message file.  Routing it changes nothing else, so that one
\* packet per output stands for any number.
RoutePacket ==
  /\ pc = "output"
  /\ \E src, dest \in Nodes : packet' = [at |-> src, dest |-> dest]
  /\ pc' = "route"
  /\ UNCHANGED <<costToNeighbors, disVectors, forwardingTable, messageQueue,
                 order, turn, changesLeft>>

\* Mutant: the arguments are swapped.
Forward_Swapped(n, dest) == forwardingTable[dest][n]

Forward(n, dest) == forwardingTable[n][dest]

\* One pass of the loop of findPath.
Hop ==
  /\ pc = "route"
  /\ packet.at \notin {packet.dest, NOHOP}
  /\ packet' = [packet EXCEPT !.at = Forward(packet.at, packet.dest)]
  /\ UNCHANGED <<costToNeighbors, disVectors, forwardingTable, messageQueue,
                 order, turn, changesLeft, pc>>

PathFound == pc = "route" /\ packet.at \in {packet.dest, NOHOP}

\* setNeighbor on both sides.
ApplyChange(a, b, cost) ==
  /\ PathFound
  /\ changesLeft > 0
  /\ costToNeighbors' = WithLink(costToNeighbors, a, b, cost)
  /\ IF cost = NoLink
     THEN /\ disVectors' = [disVectors EXCEPT ![a][a][b] = INFINI, ![b][b][a] = INFINI]
          /\ forwardingTable' =
               [forwardingTable EXCEPT ![a][b] = NOHOP, ![b][a] = NOHOP]
     ELSE UNCHANGED <<disVectors, forwardingTable>>
  /\ changesLeft' = changesLeft - 1
  /\ pc' = "converge"
  /\ packet' = <<>>
  /\ UNCHANGED <<messageQueue, order, turn>>

Finish ==
  /\ PathFound
  /\ changesLeft = 0
  /\ pc' = "done"
  /\ packet' = <<>>
  /\ UNCHANGED <<costToNeighbors, disVectors, forwardingTable, messageQueue,
                 order, turn, changesLeft>>

Done == pc = "done" /\ UNCHANGED vars

Next ==
  \/ StartNode
  \/ ReceiveVector
  \/ DisconnectNode
  \/ Converged
  \/ RoutePacket
  \/ Hop
  \/ \E a, b \in Nodes, cost \in Costs \cup {NoLink} : a # b /\ ApplyChange(a, b, cost)
  \/ Finish
  \/ Done

Spec == Init /\ [][Next]_vars /\ WF_vars(Next)
-----------------------------------------------------------------------------
Vectors == [Nodes -> 0 .. INFINI]
Messages == [owner : Nodes, neighbors : SUBSET Nodes, vector : Vectors]

TypeOK ==
  /\ IsGraph(costToNeighbors)
  /\ disVectors \in [Nodes -> [Nodes -> Vectors]]
  /\ forwardingTable \in [Nodes -> [Nodes -> Nodes \cup {NOHOP}]]
  /\ messageQueue \in Seq(Messages)
  /\ order \in Orders
  /\ turn \in 1 .. Len(order)
  /\ changesLeft \in 0 .. MaxChanges
  /\ pc \in {"converge", "deliver", "output", "route", "done"}
  /\ packet \in {<<>>} \cup [at : Nodes \cup {NOHOP}, dest : Nodes]

\* The messages of m that have yet to reach n.
Waiting(n, m) == {i \in 1 .. Len(messageQueue) :
                    messageQueue[i].owner = m /\ n \in messageQueue[i].neighbors}

\* No neighbour is left with an outdated vector: during delivery the last
\* message on its way to a node, or else what the node has, is the vector its
\* neighbour has now, also when updates cross in the queue or a node that was cut
\* off is purged from it.
LatestVectorKnown ==
  pc # "converge" =>
    \A n \in Nodes : \A m \in Neighbors(n) :
      /\ Waiting(n, m) = {} => disVectors[n][m] = disVectors[m][m]
      /\ \A i \in Waiting(n, m) :
           (\A j \in Waiting(n, m) : j <= i) => messageQueue[i].vector = disVectors[m][m]

\* The two outputs agree: the table omits a destination exactly when the packet
\* route prints "infinite hops unreachable", also for nodes that were cut off.
UnreachableAgree ==
  \A n, d \in Nodes : forwardingTable[n][d] = NOHOP <=> disVectors[n][n][d] = INFINI

\* The costs written are those of the shortest paths of the current topology.
Reported == IF pc \in {"converge", "deliver"} THEN <<>>
            ELSE [n \in Nodes |-> disVectors[n][n]]
R == INSTANCE Routing WITH
       links <- costToNeighbors, costs <- Reported, NotReported <- <<>>
ImplementsRouting == R!Spec

\* The exchange ends after every change, though a part that was cut off counts
\* its distances up to INFINI one link at a time.
Converges == pc = "converge" ~> pc = "output"

\* The table leads along a shortest path: the next hop is a neighbour from
\* which the rest costs exactly what the cost of the link leaves.  It does so
\* only until the first change (see Terminates).
HopMatchesCost ==
  pc = "output" /\ changesLeft = MaxChanges =>
    \A n, d \in Nodes : LET hop == forwardingTable[n][d] IN
      n # d /\ hop # NOHOP =>
        /\ hop \in Neighbors(n)
        /\ disVectors[n][n][d] = CostVia(n, [m \in Nodes |-> disVectors[m][m]], hop, d)

\* Before the first change findPath comes to the destination, or to a node that
\* has no route, for every packet.
RoutesEnd == pc = "route" /\ changesLeft = MaxChanges ~> PathFound

\* findPath does so after every change too, so that all packets are routed and
\* the program ends.
Terminates == <>(pc = "done")
=============================================================================
