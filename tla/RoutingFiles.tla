---------------------------- MODULE RoutingFiles ----------------------------
(***************************************************************************)
(* The two programs of mp3 read the same files, and neither checks them.   *)
(* linkstate keeps its links in a GraphData, distvec in the Nodes of its   *)
(* nodes_; this module follows both through the lines of a topology file   *)
(* and then, one line at a time, of a changes file, with an output after   *)
(* each.  A file may list a link twice, leave out an id or, in a change or *)
(* a message, name a node the topology file does not have.                 *)
(***************************************************************************)
EXTENDS GraphData

CONSTANT MaxLines   \* bound: different lines of the topology file

ASSUME RoutingFilesAssumption == MaxLines \in Nat /\ 0 \notin Nodes

VARIABLES
  lines,            \* of the topology file, as read so far: <<link, cost>>
  changed,          \* the links that lines of the changes file have named
  changesLeft,
  costToNeighbors,  \* distvec: for each id in nodes_
  sources,          \* linkstate: vertices in main
  ended,            \* the programs that ended with an exception or a fault
  pc                \* "read" | "output" | "change" | "done"

vars == <<graphVars, lines, changed, changesLeft, costToNeighbors, sources, ended, pc>>

Running(program) == program \notin ended
Ids == DOMAIN costToNeighbors

Init ==
  /\ GraphInit
  /\ lines = {}
  /\ changed = {}
  /\ changesLeft = MaxChanges
  /\ costToNeighbors = [n \in {} |-> {}]
  /\ sources = {}
  /\ ended = {}
  /\ pc = "read"

NeighborsOf(n) == IF n \in Ids THEN costToNeighbors[n] ELSE [m \in {} |-> 0]

\* Mutant: only the first node of the line learns of the link.
BothKnow_OneSide(a, b, cost) ==
  costToNeighbors' = [n \in Ids \cup {a, b} |->
     IF n = a THEN WithNeighbor(NeighborsOf(n), b, cost) ELSE NeighborsOf(n)]

\* setNeighbor on both sides, of nodes that getNode makes if need be.
BothKnow(a, b, cost) ==
  costToNeighbors' = [n \in Ids \cup {a, b} |->
     IF n = a THEN WithNeighbor(NeighborsOf(n), b, cost)
     ELSE IF n = b THEN WithNeighbor(NeighborsOf(n), a, cost)
     ELSE NeighborsOf(n)]

\* A line of the topology file, in both programs.
ReadLine(a, b, cost) ==
  /\ pc = "read"
  /\ lines' = lines \cup {<<{a, b}, cost>>}
  /\ Cardinality(lines') <= MaxLines
  /\ InsertEdge(a, b, cost)
  /\ BothKnow(a, b, cost)
  /\ UNCHANGED <<changed, changesLeft, sources, ended, pc>>

EndOfTopology ==
  /\ pc = "read"
  /\ sources' = vertices
  /\ pc' = "output"
  /\ UNCHANGED <<graphVars, lines, changed, changesLeft, costToNeighbors, ended>>

\* An id between the smallest and the largest that no line has.
Gap == \E n \in Nodes \ Ids : \E a, b \in Ids : a < n /\ n < b

\* The tables, and a message or none.  distvec goes through all ids and follows
\* next hops, each time through nodes_[id]; linkstate looks for the sender in
\* dijkstraMap, and prints a receiver it does not know as unreachable.
Output ==
  /\ pc = "output"
  /\ \E message \in {<<>>} \cup (Nodes \X Nodes) :
       ended' = ended
         \cup {p \in {"distvec"} : Gap \/ \E i \in DOMAIN message : message[i] \notin Ids}
         \cup {p \in {"linkstate"} : message # <<>> /\ message[1] \notin sources}
  /\ pc' = IF changesLeft > 0 THEN "change" ELSE "done"
  /\ UNCHANGED <<graphVars, lines, changed, changesLeft, costToNeighbors, sources>>

\* Mutant: a change makes the nodes it names, as the topology file does.
Null_Made(n) == FALSE

\* nodes_[n] is a null pointer.
Null(n) == n \notin Ids

\* A line of the changes file.
ChangeLine(a, b, cost) ==
  /\ pc = "change"
  /\ IF Running("linkstate") THEN ChangeEdge(a, b, cost) ELSE UNCHANGED graphVars
  /\ IF Running("distvec") /\ ~ Null(a) /\ ~ Null(b)
     THEN BothKnow(a, b, cost) /\ UNCHANGED ended
     ELSE ended' = ended \cup {"distvec"} /\ UNCHANGED costToNeighbors
  /\ changed' = changed \cup {{a, b}}
  /\ changesLeft' = changesLeft - 1
  /\ pc' = "output"
  /\ UNCHANGED <<lines, sources>>

Done == pc = "done" /\ UNCHANGED vars

Next ==
  \/ \E a, b \in Nodes : a # b /\
       \/ \E cost \in Costs : ReadLine(a, b, cost)
       \/ \E cost \in Costs \cup {NoLink} : ChangeLine(a, b, cost)
  \/ EndOfTopology
  \/ Output
  \/ Done

Spec == Init /\ [][Next]_vars
-----------------------------------------------------------------------------
\* The topology file gave the link two costs, and no change has named it since.
Ambiguous(link) ==
  /\ link \notin changed
  /\ \E x, y \in lines : x[1] = link /\ y[1] = link /\ x[2] # y[2]

\* As long as both run, they have the same network, whatever the files say and
\* in whatever order, and in distvec the two ends of a link agree.  Only the
\* cost of a link that was listed twice may differ (the first counts in one
\* program, the last in the other), until a change names it.
SameNetwork ==
  Running("distvec") /\ Running("linkstate") =>
    /\ Ids = vertices
    /\ \A n \in Ids : DOMAIN costToNeighbors[n] = GetNeighbors(n)
    /\ \A n \in Ids : \A m \in GetNeighbors(n) :
         /\ costToNeighbors[n][m] = costToNeighbors[m][n]
         /\ Ambiguous({n, m}) \/ costToNeighbors[n][m] = GetEdgeWeight(n, m)

\* linkstate takes the nodes it starts from before the changes.  They are all
\* the nodes, unless a change has named a new one: then distvec has ended.  So
\* linkstate never ends on a message that distvec survives.
SourcesComplete ==
  pc # "read" =>
    /\ Running("distvec") => sources = vertices
    /\ Running("distvec") => Running("linkstate")
=============================================================================
