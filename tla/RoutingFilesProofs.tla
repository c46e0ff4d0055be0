------------------------- MODULE RoutingFilesProofs -------------------------
(***************************************************************************)
(* Proofs about the input files of mp3, for any nodes, any lines of the    *)
(* two files and any messages: linkstate and distvec hold the same network *)
(* while both run.                                                         *)
(***************************************************************************)
EXTENDS RoutingFiles, TLAPS

\* The costs the programs hold for a link: those of its last change, or, as long
\* as none has named it, each that of a line of the topology file.
CostsAgree(n, m) ==
  LET known == costToNeighbors[n][m]
      weight == edgeWeights[Key(n, m)]
  IN  IF {n, m} \in changed THEN known = weight
      ELSE <<{n, m}, known>> \in lines /\ <<{n, m}, weight>> \in lines

\* The three copies of the network: distvec's, and the two of linkstate.
Agree ==
  /\ vertices \subseteq Nodes /\ Ids = vertices
  /\ edges \in [vertices -> SUBSET vertices]
  /\ DOMAIN edgeWeights \subseteq vertices \X vertices
  /\ edgeWeights \in [DOMAIN edgeWeights -> Costs]
  /\ \A n \in vertices : n \notin edges[n] /\ DOMAIN costToNeighbors[n] = edges[n]
  /\ \A n, m \in vertices : n # m => (m \in edges[n] <=> Key(n, m) \in DOMAIN edgeWeights)
  /\ \A n \in vertices : \A m \in edges[n] :
       costToNeighbors[n][m] = costToNeighbors[m][n] /\ CostsAgree(n, m)

\* distvec ends first, and as long as it runs a change has named no new node.
FilesInv ==
  /\ pc = "read" => ended = {} /\ changed = {}
  /\ Running("distvec") =>
       Running("linkstate") /\ Agree /\ (pc # "read" => sources = vertices)

-----------------------------------------------------------------------------
(* Keys, and the two ends of a link                                        *)

LEMMA KeyOfLink ==
  ASSUME NEW a \in Nodes, NEW b \in Nodes, a # b
  PROVE  /\ Key(a, b) = Key(b, a)
         /\ Key(a, b) \in {<<a, b>>, <<b, a>>}
         /\ \A c, d \in Nodes : c # d => (Key(a, b) = Key(c, d) <=> {a, b} = {c, d})
<1>1. Nodes \subseteq Nat
  BY TopologyAssumption
<1>2. ASSUME NEW c \in Nodes, NEW d \in Nodes, c # d
      PROVE  Key(a, b) = Key(c, d) <=> {a, b} = {c, d}
  <2>1. Key(a, b) = Key(c, d) <=> (a = c /\ b = d) \/ (a = d /\ b = c)
    BY <1>1, <1>2 DEF Key
  <2>2. {a, b} = {c, d} <=> (a = c /\ b = d) \/ (a = d /\ b = c)
    BY <1>2
  <2> QED
    BY <2>1, <2>2
<1> QED
  BY <1>1, <1>2 DEF Key

\* The other end of the link of a and b, for one of the two.
Other(n, a, b) == IF n = a THEN {b} ELSE IF n = b THEN {a} ELSE {}

LEMMA OtherEnd ==
  ASSUME NEW a, NEW b, a # b, NEW n, NEW m, n # m
  PROVE  m \in Other(n, a, b) <=> {n, m} = {a, b}
BY DEF Other

LEMMA NoLinkIsNoCost == NoLink \notin Costs /\ -1 \notin Costs
BY TopologyAssumption DEF NoLink

-----------------------------------------------------------------------------
(* What an operation does to a copy of the network                         *)

\* distvec's copy, when a link is set: the two ends know it at the same cost.
LinkKnown(a, b, cost) ==
  /\ Ids' = Ids \cup {a, b}
  /\ \A n \in Ids' :
       DOMAIN costToNeighbors'[n] = DOMAIN NeighborsOf(n) \cup Other(n, a, b)
  /\ \A n \in Ids' : \A m \in DOMAIN costToNeighbors'[n] : n # m =>
       costToNeighbors'[n][m] = IF {n, m} = {a, b} THEN cost ELSE NeighborsOf(n)[m]

LEMMA KnowsLink ==
  ASSUME NEW a \in Nodes, NEW b \in Nodes, a # b, NEW cost \in Costs, BothKnow(a, b, cost)
  PROVE  LinkKnown(a, b, cost)
<1>1. cost # NoLink
  BY NoLinkIsNoCost
<1>2. costToNeighbors' = [n \in Ids \cup {a, b} |->
        IF n = a THEN WithNeighbor(NeighborsOf(n), b, cost)
        ELSE IF n = b THEN WithNeighbor(NeighborsOf(n), a, cost)
        ELSE NeighborsOf(n)]
  BY DEF BothKnow
<1>4. Ids' = Ids \cup {a, b}
  BY <1>2 DEF Ids
<1>5. ASSUME NEW n \in Ids'
      PROVE  /\ DOMAIN costToNeighbors'[n] = DOMAIN NeighborsOf(n) \cup Other(n, a, b)
             /\ \A m \in DOMAIN costToNeighbors'[n] : n # m =>
                  costToNeighbors'[n][m] = IF {n, m} = {a, b} THEN cost ELSE NeighborsOf(n)[m]
  <2>1. CASE n = a
    <3>1. costToNeighbors'[n] = WithNeighbor(NeighborsOf(n), b, cost)
      BY <1>2, <1>4, <2>1
    <3>2. \A m : {n, m} = {a, b} <=> m = b
      BY <2>1
    <3> QED
      <4>1. /\ DOMAIN costToNeighbors'[n] = DOMAIN NeighborsOf(n) \cup {b}
            /\ \A m \in DOMAIN NeighborsOf(n) \cup {b} :
                 costToNeighbors'[n][m] = IF m = b THEN cost ELSE NeighborsOf(n)[m]
        BY <1>1, <3>1 DEF WithNeighbor
      <4>2. Other(n, a, b) = {b}
        BY <2>1 DEF Other
      <4> QED
        BY <3>2, <4>1, <4>2
  <2>2. CASE n = b
    <3>1. costToNeighbors'[n] = WithNeighbor(NeighborsOf(n), a, cost)
      BY <1>2, <1>4, <2>2
    <3>2. \A m : {n, m} = {a, b} <=> m = a
      BY <2>2
    <3> QED
      <4>1. /\ DOMAIN costToNeighbors'[n] = DOMAIN NeighborsOf(n) \cup {a}
            /\ \A m \in DOMAIN NeighborsOf(n) \cup {a} :
                 costToNeighbors'[n][m] = IF m = a THEN cost ELSE NeighborsOf(n)[m]
        BY <1>1, <3>1 DEF WithNeighbor
      <4>2. Other(n, a, b) = {a}
        BY <2>2 DEF Other
      <4> QED
        BY <3>2, <4>1, <4>2
  <2>3. CASE n # a /\ n # b
    <3>1. costToNeighbors'[n] = NeighborsOf(n)
      BY <1>2, <1>4, <2>3
    <3>2. \A m : {n, m} # {a, b}
      BY <2>3
    <3> QED
      BY <2>3, <3>1, <3>2 DEF Other
  <2> QED
    BY <2>1, <2>2, <2>3
<1> QED
  BY <1>4, <1>5 DEF LinkKnown

\* distvec, when a link between two nodes it has is deleted.
LEMMA ForgetsLink ==
  ASSUME NEW a \in Ids, NEW b \in Ids, a # b, BothKnow(a, b, NoLink)
  PROVE  /\ Ids' = Ids
         /\ \A n \in Ids :
              /\ DOMAIN costToNeighbors'[n] = DOMAIN costToNeighbors[n] \ Other(n, a, b)
              /\ \A m \in DOMAIN costToNeighbors'[n] :
                   costToNeighbors'[n][m] = costToNeighbors[n][m]
<1>1. \A n \in Ids : NeighborsOf(n) = costToNeighbors[n]
  BY DEF NeighborsOf
<1>2. /\ Ids \cup {a, b} = Ids
      /\ costToNeighbors' = [n \in Ids |->
           IF n = a THEN WithNeighbor(NeighborsOf(n), b, NoLink)
           ELSE IF n = b THEN WithNeighbor(NeighborsOf(n), a, NoLink)
           ELSE NeighborsOf(n)]
  BY DEF BothKnow
<1>4. Ids' = Ids
  BY <1>2 DEF Ids
<1>5. ASSUME NEW n \in Ids
      PROVE  /\ DOMAIN costToNeighbors'[n] = DOMAIN costToNeighbors[n] \ Other(n, a, b)
             /\ \A m \in DOMAIN costToNeighbors'[n] :
                  costToNeighbors'[n][m] = costToNeighbors[n][m]
  <2>1. CASE n = a
    <3>1. costToNeighbors'[n] = WithNeighbor(costToNeighbors[n], b, NoLink)
      BY <1>1, <1>2, <2>1
    <3> QED
      <4>1. /\ DOMAIN costToNeighbors'[n] = DOMAIN costToNeighbors[n] \ {b}
            /\ \A m \in DOMAIN costToNeighbors[n] \ {b} :
                 costToNeighbors'[n][m] = costToNeighbors[n][m]
        BY <1>1, <3>1 DEF WithNeighbor
      <4>2. Other(n, a, b) = {b}
        BY <2>1 DEF Other
      <4> QED
        BY <4>1, <4>2
  <2>2. CASE n = b
    <3>1. costToNeighbors'[n] = WithNeighbor(costToNeighbors[n], a, NoLink)
      BY <1>1, <1>2, <2>2
    <3> QED
      <4>1. /\ DOMAIN costToNeighbors'[n] = DOMAIN costToNeighbors[n] \ {a}
            /\ \A m \in DOMAIN costToNeighbors[n] \ {a} :
                 costToNeighbors'[n][m] = costToNeighbors[n][m]
        BY <1>1, <3>1 DEF WithNeighbor
      <4>2. Other(n, a, b) = {a}
        BY <2>2 DEF Other
      <4> QED
        BY <4>1, <4>2
  <2>3. CASE n # a /\ n # b
    <3>1. costToNeighbors'[n] = costToNeighbors[n]
      BY <1>1, <1>2, <2>3
    <3> QED
      BY <2>3, <3>1 DEF Other
  <2> QED
    BY <2>1, <2>2, <2>3
<1> QED
  BY <1>4, <1>5

\* linkstate, when an edge is inserted: one that is there keeps its weight.
LEMMA InsertsEdge ==
  ASSUME Agree, NEW a \in Nodes, NEW b \in Nodes, a # b, NEW cost \in Costs,
         InsertEdge(a, b, cost)
  PROVE  /\ vertices' = vertices \cup {a, b} /\ vertices' \subseteq Nodes
         /\ edges' \in [vertices' -> SUBSET vertices']
         /\ \A n \in vertices' : edges'[n] = DOMAIN NeighborsOf(n) \cup Other(n, a, b)
         /\ DOMAIN edgeWeights' = DOMAIN edgeWeights \cup {Key(a, b)}
         /\ DOMAIN edgeWeights' \subseteq vertices' \X vertices'
         /\ edgeWeights' \in [DOMAIN edgeWeights' -> Costs]
         /\ \A k \in DOMAIN edgeWeights' :
              edgeWeights'[k] = IF k \in DOMAIN edgeWeights THEN edgeWeights[k] ELSE cost
<1>1. /\ vertices \subseteq Nodes /\ edges \in [vertices -> SUBSET vertices]
      /\ DOMAIN edgeWeights \subseteq vertices \X vertices
      /\ edgeWeights \in [DOMAIN edgeWeights -> Costs]
      /\ Ids = vertices
  BY DEF Agree
<1>2. /\ vertices' = vertices \cup {a, b}
      /\ edges' = [n \in vertices \cup {a, b} |->
                    GetNeighbors(n) \cup {m \in {a, b} : n \in {a, b} \ {m}}]
      /\ edgeWeights' = [k \in DOMAIN edgeWeights \cup {Key(a, b)} |->
                           IF k \in DOMAIN edgeWeights THEN edgeWeights[k] ELSE cost]
  BY <1>1 DEF InsertEdge
<1>3. \A n \in vertices' : GetNeighbors(n) = DOMAIN NeighborsOf(n) /\ GetNeighbors(n) \subseteq vertices
  BY <1>1 DEF GetNeighbors, NeighborsOf, Agree
<1>4. \A n : {m \in {a, b} : n \in {a, b} \ {m}} = Other(n, a, b)
  BY DEF Other
<1>5. \A n \in vertices' : edges'[n] = DOMAIN NeighborsOf(n) \cup Other(n, a, b)
  BY <1>2, <1>3, <1>4
<1>6. edges' \in [vertices' -> SUBSET vertices']
  BY <1>2, <1>3
<1>7. Key(a, b) \in vertices' \X vertices'
  BY <1>2, KeyOfLink
<1> QED
  BY <1>1, <1>2, <1>5, <1>6, <1>7

\* linkstate's copy and the lines read, when a link is set: what becomes of the
\* link's weight depends on whether a change has named the link.
LinkWritten(a, b, cost) ==
  /\ vertices' = vertices \cup {a, b}
  /\ edges' \in [vertices' -> SUBSET vertices']
  /\ \A n \in vertices' : edges'[n] = DOMAIN NeighborsOf(n) \cup Other(n, a, b)
  /\ DOMAIN edgeWeights' = DOMAIN edgeWeights \cup {Key(a, b)}
  /\ edgeWeights' \in [DOMAIN edgeWeights' -> Costs]
  /\ \A k \in DOMAIN edgeWeights \ {Key(a, b)} : edgeWeights'[k] = edgeWeights[k]
  /\ lines \subseteq lines'
  /\ \A link : link # {a, b} => (link \in changed' <=> link \in changed)
  /\ IF {a, b} \in changed' THEN edgeWeights'[Key(a, b)] = cost
     ELSE /\ <<{a, b}, cost>> \in lines'
          /\ <<{a, b}, edgeWeights'[Key(a, b)]>> \in lines'

\* All three copies, when a link is set.
LEMMA LinkSet ==
  ASSUME Agree, NEW a \in Nodes, NEW b \in Nodes, a # b, NEW cost \in Costs,
         LinkKnown(a, b, cost), LinkWritten(a, b, cost)
  PROVE  Agree'
<1>other. \A n, m : n # m => (m \in Other(n, a, b) <=> {n, m} = {a, b})
  BY OtherEnd
<1>key. \A n, m \in Nodes : n # m => (Key(n, m) = Key(a, b) <=> {n, m} = {a, b})
  BY KeyOfLink
<1> USE DEF LinkWritten
<1>1. /\ Ids' = vertices'
      /\ \A n \in vertices' : DOMAIN costToNeighbors'[n] = edges'[n]
      /\ \A n \in vertices' : \A m \in edges'[n] : n # m =>
           costToNeighbors'[n][m] = IF {n, m} = {a, b} THEN cost ELSE NeighborsOf(n)[m]
  <2>2. Ids' = vertices'
    BY DEF Agree, LinkKnown
  <2>3. \A n \in vertices' : DOMAIN costToNeighbors'[n] = edges'[n]
    BY <2>2 DEF LinkKnown
  <2> QED
    BY <2>2, <2>3 DEF LinkKnown
<1>2. vertices' \subseteq Nodes /\ DOMAIN edgeWeights' \subseteq vertices' \X vertices'
  BY KeyOfLink DEF Agree
<1>3. \A n \in Nodes : DOMAIN NeighborsOf(n) = IF n \in vertices THEN edges[n] ELSE {}
  BY DEF NeighborsOf, Agree
<1>4. ASSUME NEW n \in vertices', NEW m \in vertices'
      PROVE  m \in edges'[n] <=> (n \in vertices /\ m \in edges[n]) \/ m \in Other(n, a, b)
  BY <1>2, <1>3
<1>5. \A n \in vertices' : n \notin edges'[n]
  BY <1>4 DEF Agree, Other
<1>6. ASSUME NEW n \in vertices', NEW m \in vertices', n # m
      PROVE  m \in edges'[n] <=> Key(n, m) \in DOMAIN edgeWeights'
  <2>1. n \in Nodes /\ m \in Nodes
    BY <1>2
  <2>2. Key(n, m) = Key(a, b) <=> m \in Other(n, a, b)
    <3>1. Key(n, m) = Key(a, b) <=> {n, m} = {a, b}
      BY <1>6, <2>1, KeyOfLink, SMTT(30)
    <3>2. m \in Other(n, a, b) <=> {n, m} = {a, b}
      BY <1>6, <1>other
    <3> QED
      BY <3>1, <3>2
  <2>3. n \in vertices /\ m \in edges[n] <=> Key(n, m) \in DOMAIN edgeWeights
    <3>1. Key(n, m) \in DOMAIN edgeWeights => n \in vertices /\ m \in vertices
      BY <1>6, <2>1, KeyOfLink DEF Agree
    <3>2. n \in vertices /\ m \in edges[n] => m \in vertices
      BY DEF Agree
    <3> QED
      BY <1>6, <3>1, <3>2 DEF Agree
  <2> QED
    BY <1>4, <2>2, <2>3
<1>7. ASSUME NEW n \in vertices', NEW m \in edges'[n]
      PROVE  costToNeighbors'[n][m] = costToNeighbors'[m][n] /\ CostsAgree(n, m)'
  <2>1. m \in vertices' /\ n # m /\ n \in Nodes /\ m \in Nodes
    BY <1>2, <1>5
  <2>2. n \in edges'[m]
    BY <1>6, <2>1, KeyOfLink
  <2>3. {n, m} = {m, n}
    OBVIOUS
  <2>4. CASE {n, m} = {a, b}
    <3>1. costToNeighbors'[n][m] = cost /\ costToNeighbors'[m][n] = cost
      <4> HIDE DEF LinkWritten
      <4>1. {m, n} = {a, b} /\ m # n
        BY <2>1, <2>4
      <4>2. costToNeighbors'[n][m] = cost
        BY <1>1, <1>7, <2>1, <2>4, Zenon
      <4>3. costToNeighbors'[m][n] = cost
        BY <1>1, <2>1, <2>2, <4>1, Zenon
      <4> QED
        BY <4>2, <4>3
    <3>2. Key(n, m) = Key(a, b)
      BY <1>key, <2>1, <2>4
    <3>3. Key(n, m)' = Key(n, m)
      BY DEF Key
    <3> QED
      BY <2>4, <3>1, <3>2, <3>3 DEF CostsAgree
  <2>5. CASE {n, m} # {a, b}
    <3>1. /\ n \in vertices /\ m \in edges[n] /\ m \in vertices /\ n \in edges[m]
      <4>1. n \in vertices /\ m \in edges[n]
        <5>1. m \notin Other(n, a, b)
          BY <2>1, <2>5, <1>other
        <5> QED
          BY <1>4, <2>1, <5>1
      <4>2. m \in vertices /\ n \in edges[m]
        <5>1. n \notin Other(m, a, b)
          BY <2>1, <2>3, <2>5, <1>other
        <5> QED
          BY <1>4, <2>1, <2>2, <5>1
      <4> QED
        BY <4>1, <4>2
    <3>2. NeighborsOf(n) = costToNeighbors[n] /\ NeighborsOf(m) = costToNeighbors[m]
      BY <3>1 DEF NeighborsOf, Agree
    <3>3. /\ costToNeighbors'[n][m] = costToNeighbors[n][m]
          /\ costToNeighbors'[m][n] = costToNeighbors[m][n]
      <4>1. costToNeighbors'[n][m] = NeighborsOf(n)[m]
        BY <1>1, <2>1, <2>5
      <4>2. costToNeighbors'[m][n] = NeighborsOf(m)[n]
        <5>1. costToNeighbors'[m][n] = IF {m, n} = {a, b} THEN cost ELSE NeighborsOf(m)[n]
          BY <1>1, <2>1, <2>2
        <5> QED
          BY <2>3, <2>5, <5>1
      <4> QED
        BY <3>2, <4>1, <4>2
    <3>4. costToNeighbors[n][m] = costToNeighbors[m][n] /\ CostsAgree(n, m)
      BY <3>1 DEF Agree
    <3>5. Key(n, m) \in DOMAIN edgeWeights /\ Key(n, m) # Key(a, b)
      BY <2>1, <2>5, <3>1, KeyOfLink DEF Agree
    <3>6. Key(n, m)' = Key(n, m) /\ edgeWeights'[Key(n, m)] = edgeWeights[Key(n, m)]
      BY <3>5 DEF Key
    <3>7. {n, m} \in changed' <=> {n, m} \in changed
      BY <2>5
    <3> QED
      BY <3>3, <3>4, <3>6, <3>7 DEF CostsAgree
  <2> QED
    BY <2>4, <2>5
<1>8. \A n \in vertices' : \A m \in vertices' : Key(n, m)' = Key(n, m)
  BY DEF Key
<1> QED
  BY <1>1, <1>2, <1>5, <1>6, <1>7, <1>8 DEF Agree

\* All three copies, when a link between known nodes is deleted.
LEMMA LinkDeleted ==
  ASSUME Agree, NEW a \in vertices, NEW b \in vertices, a # b,
         BothKnow(a, b, NoLink), DeleteEdge(a, b), lines' = lines,
         \A link : link # {a, b} => (link \in changed' <=> link \in changed)
  PROVE  Agree'
<1>1. /\ vertices \subseteq Nodes /\ Ids = vertices
      /\ edges \in [vertices -> SUBSET vertices]
      /\ DOMAIN edgeWeights \subseteq vertices \X vertices
      /\ edgeWeights \in [DOMAIN edgeWeights -> Costs]
  BY DEF Agree
<1>2. /\ Ids' = vertices
      /\ \A n \in vertices :
           /\ DOMAIN costToNeighbors'[n] = edges[n] \ Other(n, a, b)
           /\ \A m \in DOMAIN costToNeighbors'[n] : costToNeighbors'[n][m] = costToNeighbors[n][m]
  BY <1>1, ForgetsLink DEF Agree
<1>3. Key(a, b) \in DOMAIN edgeWeights <=> GetEdgeWeight(a, b) # -1
  BY <1>1, NoLinkIsNoCost DEF GetEdgeWeight
<1>4. /\ vertices' = vertices
      /\ edges' \in [vertices -> SUBSET vertices]
      /\ \A n \in vertices : edges'[n] = edges[n] \ Other(n, a, b)
      /\ DOMAIN edgeWeights' = DOMAIN edgeWeights \ {Key(a, b)}
      /\ edgeWeights' \in [DOMAIN edgeWeights' -> Costs]
      /\ \A k \in DOMAIN edgeWeights' : edgeWeights'[k] = edgeWeights[k]
  <2>1. CASE GetEdgeWeight(a, b) = -1
    <3>1. UNCHANGED <<vertices, edges, edgeWeights>> /\ Key(a, b) \notin DOMAIN edgeWeights
      BY <1>3, <2>1 DEF DeleteEdge, graphVars
    <3>2. b \notin edges[a] /\ a \notin edges[b]
      BY <1>1, <3>1, KeyOfLink DEF Agree
    <3>3. \A n \in vertices : edges[n] = edges[n] \ Other(n, a, b)
      BY <3>2 DEF Other
    <3> QED
      BY <1>1, <3>1, <3>3
  <2>2. CASE GetEdgeWeight(a, b) # -1
    <3>1. /\ edges' = [edges EXCEPT ![a] = @ \ {b}, ![b] = @ \ {a}]
          /\ edgeWeights' = [k \in DOMAIN edgeWeights \ {Key(a, b)} |-> edgeWeights[k]]
          /\ vertices' = vertices
      BY <2>2 DEF DeleteEdge, WithoutEdge
    <3>2. \A n \in vertices : edges'[n] = edges[n] \ Other(n, a, b)
      BY <1>1, <3>1 DEF Other
    <3>3. edges' \in [vertices -> SUBSET vertices]
      BY <1>1, <3>1
    <3> QED
      BY <1>1, <3>1, <3>2, <3>3
  <2> QED
    BY <2>1, <2>2
<1>5. \A n, m : Key(n, m)' = Key(n, m)
  BY DEF Key
<1>6. ASSUME NEW n \in vertices, NEW m \in vertices, n # m
      PROVE  m \in edges'[n] <=> Key(n, m) \in DOMAIN edgeWeights'
  <2>1. Key(n, m) = Key(a, b) <=> m \in Other(n, a, b)
    <3>1. Key(n, m) = Key(a, b) <=> {n, m} = {a, b}
      <4>1. n \in Nodes /\ m \in Nodes /\ n # m /\ a \in Nodes /\ b \in Nodes /\ a # b
        BY <1>1, <1>6
      <4> QED
        BY <4>1, KeyOfLink
    <3>2. m \in Other(n, a, b) <=> {n, m} = {a, b}
      BY <1>6, OtherEnd
    <3> QED
      BY <3>1, <3>2
  <2> QED
    BY <1>4, <1>6, <2>1 DEF Agree
<1>7. ASSUME NEW n \in vertices, NEW m \in edges'[n]
      PROVE  costToNeighbors'[n][m] = costToNeighbors'[m][n] /\ CostsAgree(n, m)'
  <2>1. m \in edges[n] /\ m \in vertices /\ n # m /\ m \notin Other(n, a, b)
    BY <1>1, <1>4 DEF Agree
  <2>2. {n, m} # {a, b} /\ {n, m} = {m, n}
    BY <2>1, OtherEnd
  <2>3. n \in edges'[m]
    <3>1. n \in edges[m]
      BY <1>1, <2>1, KeyOfLink DEF Agree
    <3>2. n \notin Other(m, a, b)
      BY <2>1, <2>2, OtherEnd
    <3> QED
      BY <1>4, <2>1, <3>1, <3>2
  <2>4. /\ costToNeighbors'[n][m] = costToNeighbors[n][m]
        /\ costToNeighbors'[m][n] = costToNeighbors[m][n]
    BY <1>2, <1>4, <2>1, <2>3
  <2>5. costToNeighbors[n][m] = costToNeighbors[m][n] /\ CostsAgree(n, m)
    BY <2>1 DEF Agree
  <2>6. edgeWeights'[Key(n, m)] = edgeWeights[Key(n, m)]
    BY <1>4, <1>6, <2>1
  <2>7. {n, m} \in changed' <=> {n, m} \in changed
    BY <2>2
  <2> QED
    BY <1>5, <2>4, <2>5, <2>6, <2>7 DEF CostsAgree
<1>8. \A n \in vertices : n \notin edges'[n] /\ DOMAIN costToNeighbors'[n] = edges'[n]
  BY <1>2, <1>4 DEF Agree
<1>9. DOMAIN edgeWeights' \subseteq vertices \X vertices
  BY <1>1, <1>4
<1> QED
  BY <1>1, <1>2, <1>4, <1>5, <1>6, <1>7, <1>8, <1>9 DEF Agree

-----------------------------------------------------------------------------
(* The lines of the files                                                  *)

LEMMA ReadLineAgrees ==
  ASSUME Agree, changed = {}, NEW a \in Nodes, NEW b \in Nodes, a # b, NEW cost \in Costs,
         ReadLine(a, b, cost)
  PROVE  Agree'
<1>1. /\ InsertEdge(a, b, cost) /\ BothKnow(a, b, cost)
      /\ lines' = lines \cup {<<{a, b}, cost>>} /\ changed' = {}
  BY DEF ReadLine
<1>2. /\ vertices' = vertices \cup {a, b}
      /\ edges' \in [vertices' -> SUBSET vertices']
      /\ \A n \in vertices' : edges'[n] = DOMAIN NeighborsOf(n) \cup Other(n, a, b)
      /\ DOMAIN edgeWeights' = DOMAIN edgeWeights \cup {Key(a, b)}
      /\ edgeWeights' \in [DOMAIN edgeWeights' -> Costs]
      /\ \A k \in DOMAIN edgeWeights' :
           edgeWeights'[k] = IF k \in DOMAIN edgeWeights THEN edgeWeights[k] ELSE cost
  BY <1>1, InsertsEdge
<1>3. Key(a, b) \in DOMAIN edgeWeights => <<{a, b}, edgeWeights[Key(a, b)]>> \in lines
  <2> SUFFICES ASSUME Key(a, b) \in DOMAIN edgeWeights
               PROVE  <<{a, b}, edgeWeights[Key(a, b)]>> \in lines
    OBVIOUS
  <2>1. a \in vertices /\ b \in vertices
    BY KeyOfLink DEF Agree
  <2>2. CostsAgree(a, b)
    BY <2>1 DEF Agree
  <2> QED
    BY <2>2 DEF CostsAgree
<1>4. <<{a, b}, cost>> \in lines' /\ <<{a, b}, edgeWeights'[Key(a, b)]>> \in lines'
  BY <1>1, <1>2, <1>3
<1> QED
  BY <1>1, <1>2, <1>4, KnowsLink, LinkSet DEF LinkWritten

LEMMA ChangeLineAgrees ==
  ASSUME Agree, NEW a \in vertices, NEW b \in vertices, a # b,
         NEW cost \in Costs \cup {NoLink},
         ChangeEdge(a, b, cost), BothKnow(a, b, cost),
         changed' = changed \cup {{a, b}}, lines' = lines
  PROVE  Agree' /\ vertices' = vertices
<1>1. /\ a \in Nodes /\ b \in Nodes /\ Ids = vertices
      /\ edges \in [vertices -> SUBSET vertices]
      /\ edgeWeights \in [DOMAIN edgeWeights -> Costs]
  BY DEF Agree
<1>2. \A link : link # {a, b} => (link \in changed' <=> link \in changed)
  OBVIOUS
<1>3. CASE cost = NoLink
  <2>1. DeleteEdge(a, b)
    BY <1>3 DEF ChangeEdge
  <2>2. vertices' = vertices
    BY <2>1 DEF DeleteEdge, graphVars
  <2> QED
    BY <1>2, <1>3, <2>1, <2>2, LinkDeleted
<1>4. CASE cost # NoLink
  <2>1. cost \in Costs
    BY <1>4
  <2>2. Key(a, b) \in DOMAIN edgeWeights <=> GetEdgeWeight(a, b) # -1
    BY <1>1, NoLinkIsNoCost DEF GetEdgeWeight
  <2>3. CASE GetEdgeWeight(a, b) # -1
    <3>1. /\ edgeWeights' = [edgeWeights EXCEPT ![Key(a, b)] = cost]
          /\ vertices' = vertices /\ edges' = edges
      BY <1>4, <2>3 DEF ChangeEdge, UpdateEdge
    <3>2. b \in edges[a] /\ a \in edges[b]
      BY <1>1, <2>2, <2>3, KeyOfLink DEF Agree
    <3>3. \A n \in vertices : edges[n] = DOMAIN NeighborsOf(n) \cup Other(n, a, b)
      BY <3>2 DEF Agree, NeighborsOf, Other
    <3>4. /\ DOMAIN edgeWeights' = DOMAIN edgeWeights \cup {Key(a, b)}
          /\ edgeWeights' \in [DOMAIN edgeWeights' -> Costs]
          /\ \A k \in DOMAIN edgeWeights \ {Key(a, b)} : edgeWeights'[k] = edgeWeights[k]
          /\ edgeWeights'[Key(a, b)] = cost
      BY <1>1, <2>1, <2>2, <2>3, <3>1
    <3> QED
      <4>1. /\ vertices' = vertices \cup {a, b}
            /\ edges' \in [vertices' -> SUBSET vertices']
            /\ \A n \in vertices' : edges'[n] = DOMAIN NeighborsOf(n) \cup Other(n, a, b)
        BY <1>1, <3>1, <3>3
      <4>2. {a, b} \in changed' /\ lines \subseteq lines'
        OBVIOUS
      <4> QED
        BY <1>1, <1>2, <2>1, <3>1, <3>4, <4>1, <4>2, KnowsLink, LinkSet DEF LinkWritten
  <2>4. CASE GetEdgeWeight(a, b) = -1
    <3>1. InsertEdge(a, b, cost)
      BY <1>4, <2>4 DEF ChangeEdge
    <3>2. /\ vertices' = vertices \cup {a, b}
          /\ edges' \in [vertices' -> SUBSET vertices']
          /\ \A n \in vertices' : edges'[n] = DOMAIN NeighborsOf(n) \cup Other(n, a, b)
          /\ DOMAIN edgeWeights' = DOMAIN edgeWeights \cup {Key(a, b)}
          /\ edgeWeights' \in [DOMAIN edgeWeights' -> Costs]
          /\ \A k \in DOMAIN edgeWeights' :
               edgeWeights'[k] = IF k \in DOMAIN edgeWeights THEN edgeWeights[k] ELSE cost
      BY <1>1, <2>1, <3>1, InsertsEdge
    <3>3. edgeWeights'[Key(a, b)] = cost
      BY <2>2, <2>4, <3>2
    <3>4. vertices' = vertices
      BY <3>2
    <3> QED
      BY <1>1, <1>2, <2>1, <3>2, <3>3, <3>4, KnowsLink, LinkSet DEF LinkWritten
  <2> QED
    BY <2>3, <2>4
<1> QED
  BY <1>3, <1>4

-----------------------------------------------------------------------------
(* The theorems                                                            *)

LEMMA FilesInit == Init => FilesInv
BY DEF Init, GraphInit, FilesInv, Agree, Running, Ids

LEMMA FilesStep == FilesInv /\ [Next]_vars => FilesInv'
<1> SUFFICES ASSUME FilesInv, [Next]_vars PROVE FilesInv'
  OBVIOUS
<1>1. ASSUME UNCHANGED <<graphVars, lines, changed, costToNeighbors>>, Agree
      PROVE  Agree'
  <2>1. Ids' = Ids /\ UNCHANGED <<vertices, edges, edgeWeights>>
    BY <1>1 DEF graphVars, Ids
  <2>2. \A n, m : Key(n, m)' = Key(n, m) /\ (CostsAgree(n, m)' <=> CostsAgree(n, m))
    BY <1>1, <2>1 DEF Key, CostsAgree
  <2> QED
    BY <1>1, <2>1, <2>2 DEF Agree
<1>2. ASSUME NEW a \in Nodes, NEW b \in Nodes, a # b, NEW cost \in Costs, ReadLine(a, b, cost)
      PROVE  FilesInv'
  <2>1. pc = "read" /\ ended = {} /\ changed = {} /\ Agree
    BY <1>2 DEF ReadLine, FilesInv, Running
  <2>2. Agree'
    BY <1>2, <2>1, ReadLineAgrees
  <2> QED
    BY <1>2, <2>1, <2>2 DEF ReadLine, FilesInv, Running
<1>3. CASE EndOfTopology
  <2>1. /\ pc = "read" /\ sources' = vertices /\ pc' = "output" /\ ended' = ended
        /\ UNCHANGED <<graphVars, lines, changed, costToNeighbors>>
    BY <1>3 DEF EndOfTopology
  <2> QED
    BY <1>1, <2>1 DEF FilesInv, Running, graphVars
<1>4. CASE Output
  <2>1. /\ pc = "output" /\ pc' \in {"change", "done"} /\ sources' = sources
        /\ UNCHANGED <<graphVars, lines, changed, costToNeighbors>>
    BY <1>4 DEF Output
  <2>2. PICK message \in {<<>>} \cup (Nodes \X Nodes) :
          ended' = ended
            \cup {p \in {"distvec"} : Gap \/ \E i \in DOMAIN message : message[i] \notin Ids}
            \cup {p \in {"linkstate"} : message # <<>> /\ message[1] \notin sources}
    BY <1>4 DEF Output
  <2> SUFFICES ASSUME "distvec" \notin ended'
               PROVE  "linkstate" \notin ended' /\ Agree' /\ sources' = vertices'
    BY <2>1 DEF FilesInv, Running
  <2>3. Agree /\ sources = vertices /\ "linkstate" \notin ended
    BY <2>1, <2>2 DEF FilesInv, Running
  <2>4. message # <<>> => message[1] \in Ids
    <3> SUFFICES ASSUME message \in Nodes \X Nodes PROVE message[1] \in Ids
      BY <2>2
    <3>1. 1 \in DOMAIN message
      OBVIOUS
    <3> QED
      BY <2>2, <3>1
  <2>5. "linkstate" \notin ended'
    BY <2>2, <2>3, <2>4 DEF Agree
  <2> QED
    BY <1>1, <2>1, <2>3, <2>5 DEF graphVars
<1>5. ASSUME NEW a \in Nodes, NEW b \in Nodes, a # b, NEW cost \in Costs \cup {NoLink},
             ChangeLine(a, b, cost)
      PROVE  FilesInv'
  <2>1. /\ pc = "change" /\ pc' = "output" /\ sources' = sources /\ lines' = lines
        /\ changed' = changed \cup {{a, b}}
    BY <1>5 DEF ChangeLine
  <2> SUFFICES ASSUME "distvec" \notin ended'
               PROVE  "linkstate" \notin ended' /\ Agree' /\ sources' = vertices'
    BY <2>1 DEF FilesInv, Running
  <2>2. /\ Running("distvec") /\ a \in Ids /\ b \in Ids
        /\ BothKnow(a, b, cost) /\ ended' = ended
    BY <1>5 DEF ChangeLine, Null
  <2>3. Agree /\ sources = vertices /\ Running("linkstate")
    BY <2>1, <2>2 DEF FilesInv
  <2>4. ChangeEdge(a, b, cost) /\ a \in vertices /\ b \in vertices
    BY <1>5, <2>2, <2>3 DEF ChangeLine, Agree
  <2>5. Agree' /\ vertices' = vertices
    BY <1>5, <2>1, <2>2, <2>3, <2>4, ChangeLineAgrees
  <2> QED
    BY <2>1, <2>2, <2>3, <2>5 DEF Running
<1>6. CASE UNCHANGED vars
  BY <1>1, <1>6 DEF vars, FilesInv, Running, graphVars
<1> QED
  BY <1>2, <1>3, <1>4, <1>5, <1>6 DEF Next, Done

LEMMA FilesInvAlways == Spec => []FilesInv
BY FilesInit, FilesStep, PTL DEF Spec

\* Whatever lines the topology file and the changes file have and in whatever
\* order, linkstate and distvec have the same network as long as both run, but
\* for the cost of a link that the topology file gave twice.
THEOREM NetworksAgree == Spec => []SameNetwork
<1>1. FilesInv => SameNetwork
  <2> SUFFICES ASSUME FilesInv, Running("distvec"), Running("linkstate")
               PROVE  /\ Ids = vertices
                      /\ \A n \in Ids : DOMAIN costToNeighbors[n] = GetNeighbors(n)
                      /\ \A n \in Ids : \A m \in GetNeighbors(n) :
                           /\ costToNeighbors[n][m] = costToNeighbors[m][n]
                           /\ Ambiguous({n, m}) \/ costToNeighbors[n][m] = GetEdgeWeight(n, m)
    BY DEF SameNetwork
  <2>1. Agree
    BY DEF FilesInv
  <2>2. Ids = vertices /\ \A n \in vertices : GetNeighbors(n) = edges[n]
    BY <2>1 DEF Agree, GetNeighbors
  <2>3. ASSUME NEW n \in vertices, NEW m \in edges[n]
        PROVE  Ambiguous({n, m}) \/ costToNeighbors[n][m] = GetEdgeWeight(n, m)
    <3>1. n # m /\ m \in vertices /\ CostsAgree(n, m)
      BY <2>1 DEF Agree
    <3>2. GetEdgeWeight(n, m) = edgeWeights[Key(n, m)]
      BY <2>1, <3>1 DEF Agree, GetEdgeWeight
    <3> QED
      BY <3>1, <3>2 DEF CostsAgree, Ambiguous
  <2> QED
    BY <2>1, <2>2, <2>3 DEF Agree
<1> QED
  BY <1>1, FilesInvAlways, PTL

\* The nodes linkstate starts from are all the nodes while distvec runs, and
\* linkstate never ends before distvec.
THEOREM AllSources == Spec => []SourcesComplete
<1>1. FilesInv => SourcesComplete
  BY DEF FilesInv, SourcesComplete
<1> QED
  BY <1>1, FilesInvAlways, PTL
=============================================================================
