----------------------------- MODULE LinkState ------------------------------
(***************************************************************************)
(* The link-state program of mp3 (linkstate.cpp).  For the topology, and   *)
(* again after each change, it runs Dijkstra's algorithm from every node   *)
(* in turn, writes the node's table by following the predecessors back to  *)
(* it, and then routes the messages along the same predecessors.           *)
(***************************************************************************)
EXTENDS GraphData

\* The cost of a link is an int below INT_MAX, and so small that the cost of a path,
\* which has fewer links than there are nodes, is one too.
ASSUME LinkStateAssumption ==
  \A c \in Costs : c < INFINI /\ Cardinality(Nodes) * c <= INFINI

VARIABLES
  source,           \* the node dijkstra() and outputTable() run for
  finishedNodes,
  dists,            \* INFINI for INT_MAX
  preds,            \* defined for the nodes reached
  dijkstraMap,      \* the results, by source
  table,            \* the next hops written, by source and destination
  walk,             \* where outputTable or outputMessage is on its way back
  changesLeft,
  pc                \* "dijkstra" | "table" | "messages" | "route" | "change" | "done"

dijkstraVars == <<source, finishedNodes, dists, preds>>
vars == <<graphVars, dijkstraVars, dijkstraMap, table, walk, changesLeft, pc>>

NoResults == [n \in {} |-> 0]
SetMin(S) == CHOOSE x \in S : \A y \in S : x <= y

-----------------------------------------------------------------------------
(* dijkstra()                                                              *)

\* Mutant: the set of finished nodes is not emptied.
FirstFinished_Kept(s) == finishedNodes

FirstFinished(s) == {s}

\* Its start, for the graph as it is.
DijkstraFrom(s) ==
  /\ source' = s
  /\ finishedNodes' = FirstFinished(s)
  /\ dists' = [v \in vertices |-> IF v = s THEN 0
                                  ELSE IF v \in GetNeighbors(s) THEN GetEdgeWeight(s, v)
                                  ELSE INFINI]
  /\ preds' = [v \in {s} \cup GetNeighbors(s) |-> s]

Init ==
  /\ \E g \in Topologies :
       /\ vertices = Nodes
       /\ edges = [n \in Nodes |-> DOMAIN g[n]]
       /\ edgeWeights =
            [k \in {e \in Nodes \X Nodes : e[1] < e[2] /\ e[2] \in DOMAIN g[e[1]]} |->
               g[k[1]][k[2]]]
  /\ source = SetMin(Nodes)
  /\ finishedNodes = {source}
  /\ dists = [v \in Nodes |-> IF v = source THEN 0
                              ELSE IF v \in GetNeighbors(source) THEN GetEdgeWeight(source, v)
                              ELSE INFINI]
  /\ preds = [v \in {source} \cup GetNeighbors(source) |-> source]
  /\ dijkstraMap = NoResults
  /\ table = NoResults
  /\ walk = <<>>
  /\ changesLeft = MaxChanges
  /\ pc = "dijkstra"

\* Mutant: the first open node, whatever its distance.
Nearest_ById == SetMin(vertices \ finishedNodes)

\* The node to finish next: the first one, by id, with the smallest distance.
Nearest ==
  LET open == vertices \ finishedNodes
  IN  SetMin({v \in open : \A u \in open : dists[v] <= dists[u]})

\* What an int holds of a sum of two: above INT_MAX it wraps around.
Wrapped(x) == IF x <= INFINI THEN x ELSE x - 2 * (INFINI + 1)

\* Mutant: without the guard "make sure INT_MAX does not wrap around".
NewDist_Unguarded(s, v) == Wrapped(dists[s] + GetEdgeWeight(s, v))

NewDist(s, v) ==
  IF dists[s] = INFINI THEN INFINI ELSE Wrapped(dists[s] + GetEdgeWeight(s, v))

\* Mutant: without the tie-break.
Closer_FirstFound(s) == {v \in GetNeighbors(s) : NewDist(s, v) < dists[v]}

\* The neighbours whose route now goes through s; among equal distances the
\* smaller predecessor wins.
Closer(s) ==
  {v \in GetNeighbors(s) :
     /\ NewDist(s, v) <= dists[v]
     /\ ~ (NewDist(s, v) = INFINI /\ dists[v] = INFINI)
     /\ ~ (v \in DOMAIN preds /\ preds[v] <= s /\ NewDist(s, v) = dists[v])}

FinishNode ==
  /\ pc = "dijkstra"
  /\ finishedNodes # vertices
  /\ LET s == Nearest
     IN  /\ finishedNodes' = finishedNodes \cup {s}
         /\ dists' = [v \in vertices |-> IF v \in Closer(s) THEN NewDist(s, v) ELSE dists[v]]
         /\ preds' = [v \in DOMAIN preds \cup Closer(s) |->
                        IF v \in Closer(s) THEN s ELSE preds[v]]
  /\ UNCHANGED <<graphVars, source, dijkstraMap, table, walk, changesLeft, pc>>

-----------------------------------------------------------------------------
(* outputTable()                                                           *)

With(f, x, y) == [z \in DOMAIN f \cup {x} |-> IF z = x THEN y ELSE f[z]]
WalkFrom(dest) == [dest |-> dest, at |-> dest]

StartTable ==
  /\ pc = "dijkstra"
  /\ finishedNodes = vertices
  /\ dijkstraMap' = With(dijkstraMap, source, [dists |-> dists, preds |-> preds])
  /\ walk' = WalkFrom(SetMin(DOMAIN preds))
  /\ pc' = "table"
  /\ UNCHANGED <<graphVars, dijkstraVars, table, changesLeft>>

StepBack ==
  /\ pc = "table"
  /\ preds[walk.at] # source
  /\ walk' = [walk EXCEPT !.at = preds[walk.at]]
  /\ UNCHANGED <<graphVars, dijkstraVars, dijkstraMap, table, changesLeft, pc>>

\* The line for one destination; after the last one comes the next source.
WriteEntry ==
  /\ pc = "table"
  /\ preds[walk.at] = source
  /\ table' = With(table, <<source, walk.dest>>, walk.at)
  /\ LET dests == {d \in DOMAIN preds : d > walk.dest}
         sources == {s \in vertices : s > source}
     IN  \/ /\ dests # {}
            /\ walk' = WalkFrom(SetMin(dests))
            /\ UNCHANGED <<dijkstraVars, pc>>
         \/ /\ dests = {} /\ sources # {}
            /\ walk' = <<>>
            /\ DijkstraFrom(SetMin(sources))
            /\ pc' = "dijkstra"
         \/ /\ dests = {} /\ sources = {}
            /\ walk' = <<>>
            /\ pc' = "messages"
            /\ UNCHANGED dijkstraVars
  /\ UNCHANGED <<graphVars, dijkstraMap, changesLeft>>

-----------------------------------------------------------------------------
(* outputMessage(), and the changes                                        *)

\* Mutant: the predecessors found for the last source, not for the sender.
PredsOf_LastSource(s) == [v \in Nodes |-> IF v \in DOMAIN preds THEN preds[v] ELSE v]

PredsOf(s) == dijkstraMap[s].preds

\* A line of the message file.  Routing it changes nothing else, so that one
\* message per output stands for any number.
RouteMessage ==
  /\ pc = "messages"
  /\ \E from, dest \in Nodes :
       IF dest \in DOMAIN PredsOf(from)
       THEN walk' = [from |-> from, at |-> dest] /\ pc' = "route"
       ELSE walk' = <<>> /\ pc' = "change"
  /\ UNCHANGED <<graphVars, dijkstraVars, dijkstraMap, table, changesLeft>>

RouteBack ==
  /\ pc = "route"
  /\ walk.at # walk.from
  /\ walk' = [walk EXCEPT !.at = PredsOf(walk.from)[walk.at]]
  /\ UNCHANGED <<graphVars, dijkstraVars, dijkstraMap, table, changesLeft, pc>>

Routed ==
  /\ pc = "route"
  /\ walk.at = walk.from
  /\ walk' = <<>>
  /\ pc' = "change"
  /\ UNCHANGED <<graphVars, dijkstraVars, dijkstraMap, table, changesLeft>>

\* The results of the old graph are thrown away and the sources are taken in
\* turn again; the first dijkstra() starts in the step that follows.
ApplyChange(a, b, cost) ==
  /\ pc = "change"
  /\ changesLeft > 0
  /\ ChangeEdge(a, b, cost)
  /\ dijkstraMap' = NoResults
  /\ table' = NoResults
  /\ changesLeft' = changesLeft - 1
  /\ pc' = "restart"
  /\ UNCHANGED <<dijkstraVars, walk>>

Restart ==
  /\ pc = "restart"
  /\ DijkstraFrom(SetMin(vertices))
  /\ pc' = "dijkstra"
  /\ UNCHANGED <<graphVars, dijkstraMap, table, walk, changesLeft>>

Finish ==
  /\ pc = "change"
  /\ changesLeft = 0
  /\ pc' = "done"
  /\ UNCHANGED <<graphVars, dijkstraVars, dijkstraMap, table, walk, changesLeft>>

Done == pc = "done" /\ UNCHANGED vars

Next ==
  \/ FinishNode
  \/ StartTable \/ StepBack \/ WriteEntry
  \/ RouteMessage \/ RouteBack \/ Routed
  \/ \E a, b \in Nodes, cost \in Costs \cup {NoLink} : a # b /\ ApplyChange(a, b, cost)
  \/ Restart
  \/ Finish
  \/ Done

Spec == Init /\ [][Next]_vars /\ WF_vars(Next)
-----------------------------------------------------------------------------
Distances == 0 .. INFINI

LinkStateTypeOK ==
  /\ GraphTypeOK /\ vertices = Nodes
  /\ source \in Nodes
  /\ finishedNodes \subseteq Nodes
  /\ dists \in [Nodes -> Distances]
  /\ DOMAIN preds \subseteq Nodes
  /\ preds \in [DOMAIN preds -> Nodes]
  /\ DOMAIN dijkstraMap \subseteq Nodes
  /\ DOMAIN table \subseteq Nodes \X Nodes
  /\ changesLeft \in 0 .. MaxChanges
  /\ pc \in {"dijkstra", "table", "messages", "route", "change", "restart", "done"}

\* While dijkstra() runs, a distance is the cheapest way through the finished
\* nodes, and no open node is nearer than a finished one.  At the end this is
\* what makes the distances shortest.
ViaFinished(v) ==
  {dists[u] + GetEdgeWeight(u, v) : u \in {w \in finishedNodes \cap GetNeighbors(v) :
                                             dists[w] < INFINI}}
NearestFirst ==
  pc \in {"dijkstra", "table"} =>
    /\ \A u \in finishedNodes, v \in vertices \ finishedNodes : dists[u] <= dists[v]
    /\ \A v \in vertices \ {source} : dists[v] = SetMin({INFINI} \cup ViaFinished(v))

\* "tiebreak by choosing path with smaller node id" (linkstate.cpp:86): the
\* predecessor is the smallest of all nodes through which a shortest path
\* comes, whatever the order in which they were finished.
SmallestPredecessor ==
  pc = "table" =>
    \A v \in DOMAIN preds \ {source} :
      preds[v] = SetMin({u \in GetNeighbors(v) :
                           dists[u] < INFINI /\ dists[u] + GetEdgeWeight(u, v) = dists[v]})

\* The tables, which come from separate runs of dijkstra(), fit together: the
\* next hop of a node is a neighbour that is closer to the destination by the
\* cost of the link, so that hop-by-hop forwarding follows a shortest path.
TablesLeadToDestination ==
  pc = "messages" =>
    \A s, d \in Nodes : <<s, d>> \in DOMAIN table /\ s # d =>
      LET hop == table[<<s, d>>]
      IN  /\ hop \in GetNeighbors(s)
          /\ dijkstraMap[s].dists[d] = GetEdgeWeight(s, hop) + dijkstraMap[hop].dists[d]

\* The distances reported are the costs of the shortest paths.
Links == [n \in Nodes |-> [m \in GetNeighbors(n) |-> GetEdgeWeight(n, m)]]
Reported == IF pc \in {"dijkstra", "table", "restart"} THEN <<>>
            ELSE [n \in Nodes |-> dijkstraMap[n].dists]
R == INSTANCE Routing WITH
       links <- Links, costs <- Reported, NotReported <- <<>>
ImplementsRouting == R!Spec

\* Every walk along the predecessors comes to its source, so that the tables
\* and the routes are written and the program ends.
Terminates == <>(pc = "done")
=============================================================================
