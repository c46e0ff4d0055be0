---------------------------- MODULE ServerProofs ----------------------------
(***************************************************************************)
(* Proofs about the servers of mp0 and mp1 and what their clients get, for *)
(* any number of clients, any files, any failures of connections, forks    *)
(* and reads, and any pieces TCP makes of an answer.  The first part is    *)
(* about what the two servers share, with children that go through labels  *)
(* of their own; the second is about mp1, the third about mp0.             *)
(***************************************************************************)
EXTENDS HTTP, FilePush, NatSets, SequenceTheorems, TLAPS

-----------------------------------------------------------------------------
(* ForkingServer                                                           *)

\* A child at work, in one program or the other.
AtWork == {"child", "answer", "body"}

\* What a child does between fork and exit, as far as the server is concerned.
ChildMoves(c) ==
  /\ c \in Clients
  /\ pc[c] \in AtWork
  /\ \E to \in AtWork \cup {"close", "exit"} : pc' = [pc EXCEPT ![c] = to]
  /\ UNCHANGED <<parent, fdVars, signalVars, clientPC, backlog, broken>>

\* What a client does once it is connected.
ClientMoves(c) ==
  /\ clientPC[c] # "connect"
  /\ clientPC' = clientPC \/ \E label : label # "connect" /\ Goto(c, label)
  /\ UNCHANGED <<backlog, broken, processVars>>

TypesOK ==
  /\ pc \in [Processes -> {"none", "accept", "fork", "close", "exit", "zombie", "gone"}
                          \cup AtWork]
  /\ parent \in [Processes -> Processes]
  /\ sockets \in [Processes -> SUBSET Clients]
  /\ newFd \in [Processes -> Processes]
  /\ DOMAIN clientPC = Clients
  /\ backlog \in Seq(Clients) /\ Len(backlog) <= BACKLOG
  /\ broken \subseteq Clients
  /\ signalled \cup handling \subseteq {Main}

\* Connections wait for accept once, and before they have a child.
BacklogOK ==
  /\ \A i \in 1 .. Len(backlog) : clientPC[backlog[i]] # "connect" /\ pc[backlog[i]] = "none"
  /\ \A i, j \in 1 .. Len(backlog) : backlog[i] = backlog[j] => i = j

\* The main process alone listens.  Between accept and close it has the one
\* connection open that it accepted, which is no longer waiting.
MainOK ==
  /\ listening = {Main}
  /\ pc[Main] \in {"accept", "fork", "close"}
  /\ sockets[Main] = IF pc[Main] = "accept" THEN {} ELSE {newFd[Main]}
  /\ pc[Main] # "accept" =>
       /\ newFd[Main] \in Clients
       /\ clientPC[newFd[Main]] # "connect"
       /\ \A i \in 1 .. Len(backlog) : backlog[i] # newFd[Main]
  /\ pc[Main] = "fork" => pc[newFd[Main]] = "none"

\* A child has its own connection open, from the fork until it exits or leaves
\* its branch.
ChildrenOK ==
  \A c \in Clients :
    /\ pc[c] # "fork" /\ newFd[c] = c
    /\ sockets[c] = IF pc[c] \in {"none", "accept", "zombie", "gone"} THEN {} ELSE {c}
    /\ pc[c] # "none" => parent[c] = Main /\ clientPC[c] # "connect"

ServerInv == TypesOK /\ BacklogOK /\ MainOK /\ ChildrenOK /\ DeadChildrenAnnounced

LEMMA MainIsNoClient == Main \in Processes /\ Main \notin Clients /\ Clients \subseteq Processes
BY ServerAssumption DEF Processes

LEMMA ServerInitInv == ConnectionsInit /\ ServerInit => ServerInv
BY MainIsNoClient, EmptySeq, ConnectionsAssumption
DEF ConnectionsInit, ServerInit, ServerInv, TypesOK, BacklogOK, MainOK, ChildrenOK,
    DeadChildrenAnnounced, Processes

LEMMA ClientMovesInv ==
  ASSUME ServerInv, NEW c \in Clients, ClientMoves(c)
  PROVE  ServerInv'
<1>1. /\ DOMAIN clientPC' = Clients
      /\ \A d \in Clients : clientPC[d] # "connect" => clientPC'[d] # "connect"
  BY DEF ClientMoves, Goto, ServerInv, TypesOK
<1>2. UNCHANGED <<backlog, broken, pc, parent, listening, sockets, newFd, signalled, handling>>
  BY DEF ClientMoves, processVars, fdVars, signalVars
<1>3. \A i \in 1 .. Len(backlog) : backlog[i] \in Clients
  BY ElementOfSeq DEF ServerInv, TypesOK
<1>4. TypesOK'
  BY <1>1, <1>2 DEF ServerInv, TypesOK
<1>5. BacklogOK'
  BY <1>1, <1>2, <1>3 DEF ServerInv, BacklogOK
<1>6. MainOK'
  BY <1>1, <1>2, MainIsNoClient DEF ServerInv, MainOK
<1>7. ChildrenOK'
  BY <1>1, <1>2 DEF ServerInv, ChildrenOK
<1>8. DeadChildrenAnnounced'
  BY <1>2 DEF ServerInv, DeadChildrenAnnounced
<1> QED
  BY <1>4, <1>5, <1>6, <1>7, <1>8 DEF ServerInv

LEMMA ConnectInv ==
  ASSUME ServerInv, NEW c \in Clients, NEW label, label # "connect", Connect(c, label),
         UNCHANGED processVars
  PROVE  ServerInv'
<1>1. /\ DOMAIN clientPC' = Clients /\ clientPC[c] = "connect" /\ clientPC'[c] # "connect"
      /\ \A d \in Clients : clientPC[d] # "connect" => clientPC'[d] # "connect"
  BY DEF Connect, Goto, ServerInv, TypesOK
<1>2. UNCHANGED <<broken, pc, parent, listening, sockets, newFd, signalled, handling>>
  BY DEF Connect, processVars, fdVars, signalVars
<1>3. /\ backlog' \in Seq(Clients) /\ Len(backlog') = Len(backlog) + 1
      /\ Len(backlog) \in Nat
      /\ \A i \in 1 .. Len(backlog) : backlog'[i] = backlog[i] /\ backlog[i] \in Clients
      /\ backlog'[Len(backlog) + 1] = c
  BY AppendProperties, LenProperties, ElementOfSeq DEF Connect, ServerInv, TypesOK
<1>4. Len(backlog') <= BACKLOG
  BY <1>3, ConnectionsAssumption DEF Connect
<1>5. pc[c] = "none" /\ \A i \in 1 .. Len(backlog) : backlog[i] # c
  <2>1. pc[c] = "none"
    BY <1>1 DEF ServerInv, ChildrenOK
  <2> QED
    BY <1>1, <2>1 DEF ServerInv, BacklogOK
<1>6. BacklogOK'
  BY <1>1, <1>2, <1>3, <1>5 DEF ServerInv, BacklogOK
<1>7. pc[Main] # "accept" => newFd[Main] # c
  BY <1>1 DEF ServerInv, MainOK
<1>8. MainOK'
  BY <1>1, <1>2, <1>3, <1>7 DEF ServerInv, MainOK
<1> QED
  BY <1>1, <1>2, <1>3, <1>4, <1>6, <1>8
  DEF ServerInv, TypesOK, ChildrenOK, DeadChildrenAnnounced

LEMMA BreakInv ==
  ASSUME ServerInv, NEW c \in Clients, Break(c), UNCHANGED processVars
  PROVE  ServerInv'
<1>1. UNCHANGED <<clientPC, backlog, pc, parent, listening, sockets, newFd, signalled,
                  handling>> /\ broken' \subseteq Clients
  BY DEF Break, processVars, fdVars, signalVars, ServerInv, TypesOK
<1>2. TypesOK'
  BY <1>1 DEF ServerInv, TypesOK
<1>3. BacklogOK' /\ MainOK'
  BY <1>1 DEF ServerInv, BacklogOK, MainOK
<1> QED
  BY <1>1, <1>2, <1>3 DEF ServerInv, ChildrenOK, DeadChildrenAnnounced

LEMMA ChildMovesInv ==
  ASSUME ServerInv, NEW c \in Clients, ChildMoves(c)
  PROVE  ServerInv'
<1> USE MainIsNoClient
<1>1. PICK to \in AtWork \cup {"close", "exit"} : pc' = [pc EXCEPT ![c] = to]
  BY DEF ChildMoves
<1>2. UNCHANGED <<clientPC, backlog, broken, parent, listening, sockets, newFd, signalled,
                  handling>> /\ pc[c] \in AtWork
  BY DEF ChildMoves, fdVars, signalVars
<1>3. TypesOK'
  BY <1>1, <1>2 DEF ServerInv, TypesOK
<1>4. /\ pc'[c] = to /\ pc'[Main] = pc[Main]
      /\ \A d \in Clients : pc'[d] = pc[d] \/ (d = c /\ pc'[d] = to)
      /\ to \notin {"none", "accept", "fork", "zombie", "gone"}
  BY <1>1 DEF ServerInv, TypesOK, AtWork
<1>5. BacklogOK' /\ MainOK'
  <2>1. \A i \in 1 .. Len(backlog) : backlog[i] # c
    BY <1>2 DEF ServerInv, BacklogOK, AtWork
  <2>2. \A i \in 1 .. Len(backlog) : backlog[i] \in Clients
    BY ElementOfSeq DEF ServerInv, TypesOK
  <2>3. pc[Main] = "fork" => newFd[Main] \in Clients /\ newFd[Main] # c
    BY <1>2 DEF ServerInv, MainOK, AtWork
  <2>4. BacklogOK'
    BY <1>2, <1>4, <2>1, <2>2 DEF ServerInv, BacklogOK
  <2> QED
    BY <1>2, <1>4, <2>3, <2>4 DEF ServerInv, MainOK
<1>6. ChildrenOK'
  BY <1>2, <1>4 DEF ServerInv, ChildrenOK, AtWork
<1>7. DeadChildrenAnnounced'
  BY <1>2, <1>4 DEF ServerInv, DeadChildrenAnnounced
<1> QED
  BY <1>3, <1>5, <1>6, <1>7 DEF ServerInv

LEMMA AcceptInv ==
  ASSUME ServerInv, NEW p \in Processes, Accept(p), UNCHANGED <<signalVars, clientPC, stream, broken>>
  PROVE  ServerInv'
<1> USE MainIsNoClient
<1> DEFINE c == Head(backlog)
<1>1. /\ p = Main /\ backlog # <<>> /\ backlog' = Tail(backlog)
      /\ pc[Main] = "accept" /\ pc' = [pc EXCEPT ![Main] = "fork"]
      /\ newFd' = [newFd EXCEPT ![Main] = c]
      /\ sockets' = [sockets EXCEPT ![Main] = @ \cup {c}]
  BY DEF Accept, Step, ServerInv, MainOK
<1>2. UNCHANGED <<clientPC, broken, parent, listening, signalled, handling>>
  BY DEF Accept, signalVars
<1>3. /\ c \in Clients /\ c = backlog[1] /\ 1 \in 1 .. Len(backlog)
      /\ Len(backlog) \in Nat /\ backlog' \in Seq(Clients)
      /\ Len(backlog') = Len(backlog) - 1
      /\ \A i \in 1 .. Len(backlog) - 1 :
           backlog'[i] = backlog[i + 1] /\ i + 1 \in 1 .. Len(backlog) /\ backlog[i + 1] \in Clients
  <2>1. backlog \in Seq(Clients) /\ Len(backlog) \in Nat \ {0}
    BY <1>1, EmptySeq DEF ServerInv, TypesOK
  <2> QED
    BY <1>1, <2>1, HeadTailProperties, ElementOfSeq
<1>4. TypesOK'
  <2>1. Len(backlog') <= BACKLOG
    BY <1>3, ConnectionsAssumption DEF ServerInv, TypesOK
  <2> QED
    BY <1>1, <1>2, <1>3, <2>1 DEF ServerInv, TypesOK
<1>5. /\ pc'[Main] = "fork" /\ newFd'[Main] = c /\ sockets'[Main] = {c}
      /\ \A d \in Clients : pc'[d] = pc[d] /\ newFd'[d] = newFd[d] /\ sockets'[d] = sockets[d]
  BY <1>1 DEF ServerInv, TypesOK, MainOK
<1>6. clientPC[c] # "connect" /\ pc[c] = "none"
  BY <1>3 DEF ServerInv, BacklogOK
<1>7. \A i \in 1 .. Len(backlog') : backlog'[i] # c
  BY <1>3 DEF ServerInv, BacklogOK
<1>8. BacklogOK'
  <2>1. \A i \in 1 .. Len(backlog') : /\ clientPC'[backlog'[i]] # "connect"
                                     /\ pc'[backlog'[i]] = "none"
    BY <1>2, <1>3, <1>5 DEF ServerInv, BacklogOK
  <2>2. \A i, j \in 1 .. Len(backlog') : backlog'[i] = backlog'[j] => i = j
    <3> SUFFICES ASSUME NEW i \in 1 .. Len(backlog'), NEW j \in 1 .. Len(backlog'),
                        backlog'[i] = backlog'[j]
                 PROVE  i = j
      OBVIOUS
    <3>1. /\ i + 1 \in 1 .. Len(backlog) /\ j + 1 \in 1 .. Len(backlog)
          /\ backlog[i + 1] = backlog[j + 1]
      BY <1>3
    <3>2. i + 1 = j + 1
      BY <3>1 DEF ServerInv, BacklogOK
    <3> QED
      BY <3>2
  <2> QED
    BY <2>1, <2>2 DEF BacklogOK
<1>9. MainOK'
  BY <1>2, <1>3, <1>5, <1>6, <1>7 DEF ServerInv, MainOK
<1> QED
  BY <1>2, <1>4, <1>5, <1>8, <1>9 DEF ServerInv, ChildrenOK, DeadChildrenAnnounced

LEMMA ForkInv ==
  ASSUME ServerInv, NEW p \in Processes, Fork(p), UNCHANGED <<signalVars, clientPC, stream, broken>>
  PROVE  ServerInv'
<1> USE MainIsNoClient
<1> DEFINE c == newFd[Main]
<1>1. p = Main /\ pc[Main] = "fork"
  BY DEF Fork, ServerInv, ChildrenOK, Processes
<1>2. /\ c \in Clients /\ pc[c] = "none" /\ clientPC[c] # "connect"
      /\ \A i \in 1 .. Len(backlog) : backlog[i] # c
      /\ sockets[Main] = {c}
  BY <1>1 DEF ServerInv, MainOK
<1>3. /\ pc' = [pc EXCEPT ![Main] = "close", ![c] = "child"]
      /\ parent' = [parent EXCEPT ![c] = Main]
      /\ sockets' = [sockets EXCEPT ![c] = {c}]
      /\ newFd' = [newFd EXCEPT ![c] = c]
      /\ UNCHANGED <<listening, clientPC, backlog, broken, signalled, handling>>
  BY <1>1, <1>2 DEF Fork, WithoutListener, signalVars
<1>4. /\ pc'[Main] = "close" /\ pc'[c] = "child" /\ parent'[c] = Main
      /\ sockets'[c] = {c} /\ sockets'[Main] = {c} /\ newFd'[Main] = c /\ newFd'[c] = c
      /\ \A d \in Clients : d # c => /\ pc'[d] = pc[d] /\ parent'[d] = parent[d]
                                     /\ sockets'[d] = sockets[d] /\ newFd'[d] = newFd[d]
  BY <1>2, <1>3 DEF ServerInv, TypesOK
<1>5. TypesOK'
  BY <1>2, <1>3 DEF ServerInv, TypesOK, AtWork
<1>6. BacklogOK'
  <2>1. \A i \in 1 .. Len(backlog) : backlog[i] \in Clients
    BY ElementOfSeq DEF ServerInv, TypesOK
  <2>2. \A i \in 1 .. Len(backlog) : pc'[backlog[i]] = pc[backlog[i]]
    BY <1>2, <1>4, <2>1
  <2> QED
    BY <1>3, <2>2 DEF ServerInv, BacklogOK
<1>7. MainOK'
  BY <1>2, <1>3, <1>4 DEF ServerInv, MainOK
<1>8. ChildrenOK'
  <2> SUFFICES ASSUME NEW d \in Clients
               PROVE  /\ pc'[d] # "fork" /\ newFd'[d] = d
                      /\ sockets'[d] = IF pc'[d] \in {"none", "accept", "zombie", "gone"}
                                       THEN {} ELSE {d}
                      /\ pc'[d] # "none" => parent'[d] = Main /\ clientPC'[d] # "connect"
    BY DEF ChildrenOK
  <2>1. CASE d = c
    BY <1>2, <1>3, <1>4, <2>1
  <2>2. CASE d # c
    <3>1. /\ pc'[d] = pc[d] /\ newFd'[d] = newFd[d] /\ sockets'[d] = sockets[d]
          /\ parent'[d] = parent[d] /\ clientPC'[d] = clientPC[d]
      BY <1>3, <1>4, <2>2
    <3>2. /\ pc[d] # "fork" /\ newFd[d] = d
          /\ sockets[d] = IF pc[d] \in {"none", "accept", "zombie", "gone"} THEN {} ELSE {d}
          /\ pc[d] # "none" => parent[d] = Main /\ clientPC[d] # "connect"
      BY DEF ServerInv, ChildrenOK
    <3> QED
      BY <3>1, <3>2
  <2> QED
    BY <2>1, <2>2
<1> QED
  BY <1>3, <1>4, <1>5, <1>6, <1>7, <1>8 DEF ServerInv, DeadChildrenAnnounced

LEMMA ForkFailsInv ==
  ASSUME ServerInv, NEW p \in Processes, ForkFails(p),
         UNCHANGED <<signalVars, clientPC, stream, broken>>
  PROVE  ServerInv'
<1> USE MainIsNoClient
<1>1. p = Main /\ pc[Main] = "fork"
  BY DEF ForkFails, Step, ServerInv, ChildrenOK, Processes
<1>2. /\ pc' = [pc EXCEPT ![Main] = "close"]
      /\ UNCHANGED <<parent, listening, sockets, newFd, clientPC, backlog, broken, signalled,
                     handling>>
  BY <1>1 DEF ForkFails, Step, fdVars, signalVars
<1>3. pc'[Main] = "close" /\ \A d \in Clients : pc'[d] = pc[d]
  BY <1>2 DEF ServerInv, TypesOK
<1>4. TypesOK'
  BY <1>2 DEF ServerInv, TypesOK
<1>5. \A i \in 1 .. Len(backlog) : backlog[i] \in Clients
  BY ElementOfSeq DEF ServerInv, TypesOK
<1>6. BacklogOK'
  BY <1>2, <1>3, <1>5 DEF ServerInv, BacklogOK
<1>7. MainOK'
  BY <1>1, <1>2, <1>3 DEF ServerInv, MainOK
<1> QED
  BY <1>2, <1>3, <1>4, <1>6, <1>7 DEF ServerInv, ChildrenOK, DeadChildrenAnnounced

LEMMA CloseInv ==
  ASSUME ServerInv, NEW p \in Processes, Close(p), UNCHANGED <<signalVars, clientPC, stream, broken>>
  PROVE  ServerInv'
<1> USE MainIsNoClient
<1>1. /\ pc[p] = "close" /\ pc' = [pc EXCEPT ![p] = "accept"]
      /\ sockets' = [sockets EXCEPT ![p] = sockets[p] \ {newFd[p]}]
      /\ UNCHANGED <<parent, listening, newFd, clientPC, backlog, broken, signalled, handling>>
  BY DEF Close, Step, WithoutNewFd, signalVars
<1>2. sockets[p] = {newFd[p]}
  BY <1>1 DEF ServerInv, MainOK, ChildrenOK, Processes
<1>3. /\ pc'[p] = "accept" /\ sockets'[p] = {}
      /\ \A q \in Processes : q # p => pc'[q] = pc[q] /\ sockets'[q] = sockets[q]
  BY <1>1, <1>2 DEF ServerInv, TypesOK
<1>4. TypesOK'
  BY <1>1 DEF ServerInv, TypesOK
<1>5. BacklogOK'
  <2>1. \A i \in 1 .. Len(backlog) : backlog[i] \in Clients /\ backlog[i] # p
    BY <1>1, ElementOfSeq DEF ServerInv, TypesOK, BacklogOK
  <2> QED
    BY <1>1, <1>3, <2>1 DEF ServerInv, BacklogOK
<1>6. MainOK'
  <2>1. CASE p = Main
    BY <1>1, <1>3, <2>1 DEF ServerInv, MainOK
  <2>2. CASE p # Main
    <3>1. pc[Main] = "fork" => newFd[Main] \in Clients /\ newFd[Main] # p
      BY <1>1 DEF ServerInv, MainOK
    <3> QED
      BY <1>1, <1>3, <2>2, <3>1 DEF ServerInv, MainOK
  <2> QED
    BY <2>1, <2>2
<1>7. ChildrenOK'
  <2> SUFFICES ASSUME NEW d \in Clients
               PROVE  /\ pc'[d] # "fork" /\ newFd'[d] = d
                      /\ sockets'[d] = IF pc'[d] \in {"none", "accept", "zombie", "gone"}
                                       THEN {} ELSE {d}
                      /\ pc'[d] # "none" => parent'[d] = Main /\ clientPC'[d] # "connect"
    BY DEF ChildrenOK
  <2> QED
    BY <1>1, <1>3 DEF ServerInv, ChildrenOK
<1> QED
  BY <1>1, <1>3, <1>4, <1>5, <1>6, <1>7 DEF ServerInv, DeadChildrenAnnounced

LEMMA ExitInv ==
  ASSUME ServerInv, NEW p \in Processes, Exit(p)
  PROVE  ServerInv'
<1> USE MainIsNoClient
<1>1. pc[p] = "exit" /\ p \in Clients /\ parent[p] = Main
  BY DEF Exit, Step, ServerInv, MainOK, ChildrenOK, Processes
<1>2. /\ pc' = [pc EXCEPT ![p] = "zombie"]
      /\ sockets' = [sockets EXCEPT ![p] = {}]
      /\ listening' = listening /\ signalled' = signalled \cup {Main}
      /\ UNCHANGED <<parent, newFd, handling, clientPC, backlog, broken>>
  BY <1>1 DEF Exit, Step, connectionVars, ServerInv, MainOK
<1>3. /\ pc'[p] = "zombie" /\ sockets'[p] = {}
      /\ \A q \in Processes : q # p => pc'[q] = pc[q] /\ sockets'[q] = sockets[q]
  BY <1>2 DEF ServerInv, TypesOK
<1>4. TypesOK'
  BY <1>2 DEF ServerInv, TypesOK
<1>5. BacklogOK'
  <2>1. \A i \in 1 .. Len(backlog) : backlog[i] \in Clients /\ backlog[i] # p
    BY <1>1, ElementOfSeq DEF ServerInv, TypesOK, BacklogOK
  <2> QED
    BY <1>2, <1>3, <2>1 DEF ServerInv, BacklogOK
<1>6. MainOK'
  <2>1. pc[Main] = "fork" => newFd[Main] \in Clients /\ newFd[Main] # p
    BY <1>1 DEF ServerInv, MainOK
  <2> QED
    BY <1>1, <1>2, <1>3, <2>1 DEF ServerInv, MainOK
<1>7. ChildrenOK'
  <2> SUFFICES ASSUME NEW d \in Clients
               PROVE  /\ pc'[d] # "fork" /\ newFd'[d] = d
                      /\ sockets'[d] = IF pc'[d] \in {"none", "accept", "zombie", "gone"}
                                       THEN {} ELSE {d}
                      /\ pc'[d] # "none" => parent'[d] = Main /\ clientPC'[d] # "connect"
    BY DEF ChildrenOK
  <2> QED
    BY <1>1, <1>2, <1>3 DEF ServerInv, ChildrenOK
<1>8. DeadChildrenAnnounced'
  BY <1>1, <1>2, <1>3 DEF ServerInv, DeadChildrenAnnounced
<1> QED
  BY <1>4, <1>5, <1>6, <1>7, <1>8 DEF ServerInv

LEMMA HandlerInv ==
  ASSUME ServerInv, NEW p \in Processes, Handler(p)
  PROVE  ServerInv'
<1> USE MainIsNoClient
<1>1. UNCHANGED <<parent, listening, sockets, newFd, clientPC, backlog, broken>>
  BY DEF Handler, fdVars, connectionVars
<1>2. CASE Signal(p) \/ EndHandler(p)
  <2>1. p = Main /\ UNCHANGED pc
    BY <1>2 DEF Signal, EndHandler, ServerInv, TypesOK
  <2>2. TypesOK'
    BY <1>1, <1>2 DEF Signal, EndHandler, ServerInv, TypesOK
  <2>3. BacklogOK' /\ MainOK'
    BY <1>1, <2>1 DEF ServerInv, BacklogOK, MainOK
  <2>5. ChildrenOK'
    BY <1>1, <2>1 DEF ServerInv, ChildrenOK
  <2>4. DeadChildrenAnnounced'
    BY <1>1, <1>2, <2>1
    DEF Signal, EndHandler, LoopEnds, DeadChildren, ServerInv, DeadChildrenAnnounced
  <2> QED
    BY <2>2, <2>3, <2>4, <2>5 DEF ServerInv
<1>3. CASE Reap(p)
  <2>1. PICK z \in DeadChildren(p) : pc' = [pc EXCEPT ![z] = "gone"]
    BY <1>3 DEF Reap
  <2>2. /\ z \in Clients /\ pc[z] = "zombie" /\ UNCHANGED <<signalled, handling>>
    BY <1>3, <2>1 DEF DeadChildren, Reap, signalVars
  <2>3. pc'[z] = "gone" /\ \A q \in Processes : q # z => pc'[q] = pc[q]
    BY <2>1, <2>2 DEF ServerInv, TypesOK
  <2>4. TypesOK'
    BY <1>1, <2>1, <2>2 DEF ServerInv, TypesOK
  <2>5. BacklogOK'
    <3>1. \A i \in 1 .. Len(backlog) : backlog[i] \in Clients /\ backlog[i] # z
      BY <2>2, ElementOfSeq DEF ServerInv, TypesOK, BacklogOK
    <3> QED
      BY <1>1, <2>3, <3>1 DEF ServerInv, BacklogOK
  <2>6. MainOK'
    <3>1. pc[Main] = "fork" => newFd[Main] \in Clients /\ newFd[Main] # z
      BY <2>2 DEF ServerInv, MainOK
    <3> QED
      BY <1>1, <2>2, <2>3, <3>1 DEF ServerInv, MainOK
  <2>7. ChildrenOK'
    <3> SUFFICES ASSUME NEW d \in Clients
                 PROVE  /\ pc'[d] # "fork" /\ newFd'[d] = d
                        /\ sockets'[d] = IF pc'[d] \in {"none", "accept", "zombie", "gone"}
                                         THEN {} ELSE {d}
                        /\ pc'[d] # "none" => parent'[d] = Main /\ clientPC'[d] # "connect"
      BY DEF ChildrenOK
    <3> QED
      BY <1>1, <2>2, <2>3 DEF ServerInv, ChildrenOK
  <2>8. DeadChildrenAnnounced'
    BY <1>1, <2>2, <2>3 DEF ServerInv, DeadChildrenAnnounced
  <2> QED
    BY <2>4, <2>5, <2>6, <2>7, <2>8 DEF ServerInv
<1> QED
  BY <1>2, <1>3 DEF Handler

LEMMA LoopInv ==
  ASSUME ServerInv, NEW p \in Processes, Loop(p)
  PROVE  ServerInv'
BY AcceptInv, ForkInv, ForkFailsInv, CloseInv DEF Loop

\* What the invariant says of the properties.
LEMMA ServerInvSafe == ServerInv => NoSocketLeaks /\ OnlyMainServes /\ DeadChildrenAnnounced
<1> SUFFICES ASSUME ServerInv PROVE NoSocketLeaks /\ OnlyMainServes
  BY DEF ServerInv
<1>1. OnlyMainServes
  BY DEF ServerInv, ChildrenOK, OnlyMainServes
<1>2. ASSUME NEW p \in Processes, NEW c \in sockets[p]
      PROVE  /\ c = newFd[p]
             /\ pc[p] \notin {"none", "accept", "zombie", "gone"}
             /\ pc[p] \in {"fork", "close"} \/ p = c
  <2>1. CASE p = Main
    BY <1>2, <2>1 DEF ServerInv, MainOK
  <2>2. CASE p \in Clients
    <3>1. /\ newFd[p] = p
          /\ sockets[p] = IF pc[p] \in {"none", "accept", "zombie", "gone"} THEN {} ELSE {p}
      BY <2>2 DEF ServerInv, ChildrenOK
    <3> QED
      BY <1>2, <3>1
  <2> QED
    BY <2>1, <2>2 DEF Processes
<1> QED
  BY <1>1, <1>2 DEF NoSocketLeaks

-----------------------------------------------------------------------------
(* HTTP: the units of an answer, in pieces                                 *)

\* The units of a file behind position a up to position b.
Units(a, b) == [i \in 1 .. b - a |-> a + i]

LEMMA UnitsProperties ==
  ASSUME NEW a \in Nat, NEW b \in Nat, a <= b
  PROVE  /\ Units(a, b) \in Seq(Nat)
         /\ Len(Units(a, b)) = b - a
         /\ \A i \in 1 .. b - a : Units(a, b)[i] = a + i
         /\ a = b => Units(a, b) = <<>>
<1>1. b - a \in Nat /\ \A i \in 1 .. b - a : a + i \in Nat
  OBVIOUS
<1>2. Units(a, b) \in [1 .. b - a -> Nat]
  BY <1>1 DEF Units
<1>3. Units(a, b) \in Seq(Nat) /\ Len(Units(a, b)) = b - a
  BY <1>1, <1>2
<1> QED
  BY <1>3, EmptySeq DEF Units

LEMMA IsUnits ==
  ASSUME NEW a \in Nat, NEW b \in Nat, a <= b, NEW s \in Seq(Nat), Len(s) = b - a,
         \A i \in 1 .. b - a : s[i] = a + i
  PROVE  s = Units(a, b)
<1>1. /\ Units(a, b) \in Seq(Nat) /\ Len(Units(a, b)) = b - a
      /\ \A i \in 1 .. b - a : Units(a, b)[i] = a + i
  BY UnitsProperties
<1> QED
  BY <1>1, SeqEqual

\* A file from its beginning.
LEMMA UnitsFromZero ==
  ASSUME NEW b \in Nat
  PROVE  /\ Units(0, b) \in Seq(Nat)
         /\ Len(Units(0, b)) = b
         /\ \A i \in 1 .. b : Units(0, b)[i] = i
         /\ Units(0, 0) = <<>>
         /\ \A s \in Seq(Nat) : Len(s) = b /\ (\A i \in 1 .. b : s[i] = i) => s = Units(0, b)
<1>1. 0 \in Nat /\ 0 <= b /\ b - 0 = b /\ \A i \in 1 .. b : 0 + i = i
  OBVIOUS
<1>2. /\ Units(0, b) \in Seq(Nat) /\ Len(Units(0, b)) = b
      /\ \A i \in 1 .. b : Units(0, b)[i] = i
  <2>1. /\ Units(0, b) \in Seq(Nat) /\ Len(Units(0, b)) = b - 0
        /\ \A i \in 1 .. b - 0 : Units(0, b)[i] = 0 + i
    BY <1>1, UnitsProperties
  <2> QED
    BY <1>1, <2>1
<1>3. Units(0, 0) = <<>>
  <2>1. 0 \in Nat /\ 0 <= 0
    OBVIOUS
  <2> QED
    BY <2>1, UnitsProperties
<1> QED
  BY <1>2, <1>3, SeqEqual

\* A piece received, and what is left.
LEMMA UnitsPieces ==
  ASSUME NEW a \in Nat, NEW b \in Nat, a <= b, NEW k \in 0 .. b - a
  PROVE  /\ SubSeq(Units(a, b), 1, k) = Units(a, a + k)
         /\ SubSeq(Units(a, b), k + 1, Len(Units(a, b))) = Units(a + k, b)
<1> DEFINE s == Units(a, b)
           mid == a + k
<1>1. /\ s \in Seq(Nat) /\ Len(s) = b - a
      /\ \A i \in 1 .. b - a : s[i] = a + i /\ s[i] \in Nat
  <2>1. \A i \in 1 .. b - a : a + i \in Nat
    OBVIOUS
  <2> QED
    BY <2>1, UnitsProperties
<1>2. mid \in Nat /\ a <= mid /\ mid <= b /\ mid - a = k
  OBVIOUS
<1> HIDE DEF s
<1>3. /\ SubSeq(s, 1, k) \in Seq(Nat) /\ Len(SubSeq(s, 1, k)) = k
      /\ \A i \in 1 .. k : SubSeq(s, 1, k)[i] = s[i]
  BY <1>1, SubSeqProperties
<1>4. /\ SubSeq(s, k + 1, b - a) \in Seq(Nat)
      /\ Len(SubSeq(s, k + 1, b - a)) = b - mid
      /\ \A i \in 1 .. b - mid : SubSeq(s, k + 1, b - a)[i] = s[k + i]
  BY <1>1, SubSeqProperties
<1>5. \A i \in 1 .. b - mid : k + i \in 1 .. b - a /\ s[k + i] = mid + i
  BY <1>1
<1>6. \A i \in 1 .. mid - a : SubSeq(s, 1, k)[i] = a + i
  BY <1>1, <1>2, <1>3
<1> HIDE DEF mid
<1>7. SubSeq(s, 1, k) = Units(a, mid)
  BY <1>2, <1>3, <1>6, IsUnits
<1>8. SubSeq(s, k + 1, b - a) = Units(mid, b)
  BY <1>2, <1>4, <1>5, IsUnits
<1> QED
  BY <1>1, <1>7, <1>8 DEF s, mid

LEMMA UnitsJoin ==
  ASSUME NEW a \in Nat, NEW b \in Nat, NEW d \in Nat, a <= b, b <= d
  PROVE  Units(a, b) \o Units(b, d) = Units(a, d)
<1>1. /\ Units(a, b) \in Seq(Nat) /\ Len(Units(a, b)) = b - a
      /\ \A i \in 1 .. b - a : Units(a, b)[i] = a + i
  BY UnitsProperties
<1>2. /\ Units(b, d) \in Seq(Nat) /\ Len(Units(b, d)) = d - b
      /\ \A i \in 1 .. d - b : Units(b, d)[i] = b + i
  BY UnitsProperties
<1> DEFINE s == Units(a, b) \o Units(b, d)
<1>3. /\ s \in Seq(Nat) /\ Len(s) = Len(Units(a, b)) + Len(Units(b, d))
      /\ \A i \in 1 .. Len(Units(a, b)) + Len(Units(b, d)) :
           s[i] = IF i <= Len(Units(a, b)) THEN Units(a, b)[i]
                  ELSE Units(b, d)[i - Len(Units(a, b))]
  BY <1>1, <1>2, ConcatProperties
<1>4. Len(s) = d - a
  BY <1>1, <1>2, <1>3
<1>5. ASSUME NEW i \in 1 .. d - a PROVE s[i] = a + i
  <2>1. i \in 1 .. Len(Units(a, b)) + Len(Units(b, d))
    BY <1>1, <1>2
  <2>2. CASE i <= b - a
    BY <1>1, <1>3, <2>1, <2>2
  <2>3. CASE ~ (i <= b - a)
    <3>1. i - (b - a) \in 1 .. d - b
      BY <2>3
    <3> QED
      BY <1>1, <1>2, <1>3, <2>1, <2>3, <3>1
  <2> QED
    BY <2>2, <2>3
<1> HIDE DEF s
<1>6. s = Units(a, d)
  BY <1>3, <1>4, <1>5, IsUnits, SMTT(30)
<1> QED
  BY <1>6 DEF s

LEMMA HeaderProperties ==
  /\ Header \in Seq(Nat) /\ Len(Header) = HeaderLen /\ HeaderLen \in Nat \ {0}
  /\ Header \in Seq({HeaderUnit})
<1>1. HeaderLen \in Nat \ {0} /\ HeaderUnit \in Nat
  BY RequestsAssumption DEF HeaderUnit
<1>2. Header \in [1 .. HeaderLen -> Nat] /\ Header \in [1 .. HeaderLen -> {HeaderUnit}]
  BY <1>1 DEF Header
<1> QED
  BY <1>1, <1>2

\* An answer whose file was sent up to position p: what the first recv keeps of
\* its first k units, and what is left when they end behind the header.
LEMMA AnswerPieces ==
  ASSUME NEW p \in Nat, NEW k \in 1 .. HeaderLen + p
  PROVE  /\ Len(Header \o Units(0, p)) = HeaderLen + p
         /\ k <= HeaderLen => SubSeq(Header \o Units(0, p), HeaderLen + 1, k) = <<>>
         /\ k >= HeaderLen =>
              /\ SubSeq(Header \o Units(0, p), HeaderLen + 1, k) = Units(0, k - HeaderLen)
              /\ SubSeq(Header \o Units(0, p), k + 1, HeaderLen + p) = Units(k - HeaderLen, p)
<1> DEFINE s == Header \o Units(0, p)
           H == HeaderLen
<1>1. Header \in Seq(Nat) /\ Len(Header) = H /\ H \in Nat \ {0}
  BY HeaderProperties
<1>2. /\ Units(0, p) \in Seq(Nat) /\ Len(Units(0, p)) = p
      /\ \A i \in 1 .. p : Units(0, p)[i] = i
  BY UnitsFromZero
<1>3. /\ s \in Seq(Nat) /\ Len(s) = H + p
      /\ \A i \in 1 .. H + p : s[i] = IF i <= H THEN Header[i] ELSE Units(0, p)[i - H]
  BY <1>1, <1>2, ConcatProperties
<1>4. \A i \in 1 .. H + p : s[i] \in Nat
  BY <1>3, ElementOfSeq
<1>5. \A i \in 1 .. p : H + i \in 1 .. H + p /\ s[H + i] = i
  BY <1>1, <1>2, <1>3, SMTT(30)
<1> HIDE DEF s, H
<1>6. k <= H => SubSeq(s, H + 1, k) = <<>>
  BY <1>1, SubSeqEmpty
<1>7. k \in 1 .. H + p
  BY DEF H
<1>8. ASSUME k >= H
      PROVE  SubSeq(s, H + 1, k) = Units(0, k - H) /\ SubSeq(s, k + 1, H + p) = Units(k - H, p)
  <2> DEFINE j == k - H
  <2>1. j \in Nat /\ j <= p /\ k = H + j
    BY <1>1, <1>7, <1>8
  <2>2. /\ SubSeq(s, H + 1, k) \in Seq(Nat) /\ Len(SubSeq(s, H + 1, k)) = j
        /\ \A i \in 1 .. j : SubSeq(s, H + 1, k)[i] = s[H + i]
    BY <1>1, <1>4, <1>7, <2>1, SubSeqProperties
  <2> HIDE DEF j
  <2>3. /\ SubSeq(s, k + 1, H + p) \in Seq(Nat) /\ Len(SubSeq(s, k + 1, H + p)) = p - j
        /\ \A i \in 1 .. p - j : SubSeq(s, k + 1, H + p)[i] = s[H + (j + i)]
    <3>1. k + 1 \in Int /\ H + p \in Int /\ \A i \in k + 1 .. H + p : s[i] \in Nat
      BY <1>1, <1>4, <1>7
    <3>2. /\ SubSeq(s, k + 1, H + p) \in Seq(Nat)
          /\ Len(SubSeq(s, k + 1, H + p)) =
               IF k + 1 <= H + p THEN (H + p) - (k + 1) + 1 ELSE 0
          /\ \A i \in 1 .. (H + p) - (k + 1) + 1 :
               SubSeq(s, k + 1, H + p)[i] = s[(k + 1) + i - 1]
      BY <3>1, SubSeqProperties
    <3>3. (H + p) - (k + 1) + 1 = p - j /\ (k + 1 <= H + p \/ p - j = 0)
      BY <1>1, <2>1
    <3>4. \A i \in 1 .. p - j : (k + 1) + i - 1 = H + (j + i)
      BY <1>1, <2>1
    <3> QED
      BY <3>2, <3>3, <3>4
  <2>4. \A i \in 1 .. p - j : SubSeq(s, k + 1, H + p)[i] = j + i
    <3>1. \A i \in 1 .. p - j : j + i \in 1 .. p
      BY <2>1
    <3> QED
      BY <1>5, <2>3, <3>1
  <2>5. \A i \in 1 .. j : SubSeq(s, H + 1, k)[i] = i
    <3>1. \A i \in 1 .. j : i \in 1 .. p
      BY <2>1
    <3> QED
      BY <1>5, <2>2, <3>1
  <2>6. SubSeq(s, H + 1, k) = Units(0, j)
    BY <2>1, <2>2, <2>5, UnitsFromZero
  <2>7. SubSeq(s, k + 1, H + p) = Units(j, p)
    BY <2>1, <2>3, <2>4, IsUnits
  <2> QED
    BY <2>6, <2>7 DEF j
<1> QED
  BY <1>3, <1>6, <1>8 DEF s, H

-----------------------------------------------------------------------------
(* HTTP: what is on its way and what has arrived                           *)

\* What there is to send for c.
Size(c) == IF length[c] = Missing THEN 0 ELSE length[c]

\* The labels of a child that has sent nothing, and of one that has ended.
Silent == {"none", "child", "answer", "close", "accept"}
Ended == {"exit", "zombie", "gone"}

HTTPTypes ==
  /\ length \in Files
  /\ requested \subseteq Clients
  /\ clientPC \in [Clients -> {"connect", "write", "open", "first", "rest", "done"}]
  /\ file \in [Clients -> Seq(Nat)]
  /\ position \in [Clients -> Nat]
  /\ stream \in [Clients -> Seq(Nat)]

\* The units of the file of c that were sent are, in their order, those in its
\* output file and those on their way, behind the header while that was not
\* received; and unless the connection failed or the client left, a child that
\* has ended has sent them all.
Delivery(c) ==
  /\ position[c] \in 0 .. Size(c)
  /\ stream[c] \in Seq({HeaderUnit} \cup 1 .. length[c])
  /\ pc[c] \in Silent => stream[c] = <<>> /\ position[c] = 0
  /\ pc[c] = "body" => length[c] # Missing
  /\ clientPC[c] \notin {"rest", "done"} =>
       /\ file[c] = <<>>
       /\ \/ pc[c] \notin Silent /\ stream[c] = Header \o Units(0, position[c])
          \/ pc[c] # "body" /\ stream[c] = <<>>
  /\ clientPC[c] = "rest" =>
       /\ pc[c] \notin Silent
       /\ \E k \in 0 .. position[c] : /\ file[c] = Units(0, k)
                                      /\ stream[c] = Units(k, position[c])
  /\ c \notin broken /\ clientPC[c] # "done" /\ pc[c] \in Ended => position[c] = Size(c)

HTTPInv == ServerInv /\ HTTPTypes /\ \A c \in Clients : Delivery(c)

LEMMA SizeProperties ==
  ASSUME HTTPTypes, NEW c \in Clients
  PROVE  Size(c) \in Nat /\ length[c] \in Nat \cup {Missing}
BY RequestsAssumption DEF Size, HTTPTypes

\* A step that leaves c alone, but for a failure of its connection, or that
\* only takes its child on among the silent labels or the last ones.
LEMMA DeliveryFrame ==
  ASSUME NEW c \in Clients, Delivery(c),
         length' = length, file'[c] = file[c], stream'[c] = stream[c],
         position'[c] = position[c], clientPC'[c] = clientPC[c], broken \subseteq broken',
         \/ pc'[c] = pc[c]
         \/ pc[c] \in Silent /\ pc'[c] \in Silent
         \/ pc[c] \in Ended /\ pc'[c] \in Ended
  PROVE  Delivery(c)'
<1>1. /\ Size(c)' = Size(c)
      /\ pc'[c] \in Silent <=> pc[c] \in Silent
      /\ pc'[c] \in Ended <=> pc[c] \in Ended
      /\ pc'[c] = "body" <=> pc[c] = "body"
      /\ c \notin broken' => c \notin broken
  BY DEF Size, Silent, Ended
<1>2. Units(0, position[c])' = Units(0, position[c])
      /\ \A k \in 0 .. position[c] : Units(k, position[c])' = Units(k, position[c])
  BY DEF Units
<1> QED
  BY <1>1, <1>2 DEF Delivery

LEMMA HTTPInitInv == Init => HTTPInv
<1> SUFFICES ASSUME Init PROVE HTTPInv
  OBVIOUS
<1> USE DEF Init, ConnectionsInit, RequestsInit, FileInit, ServerInit, PositionInit
<1>1. ServerInv
  BY ServerInitInv
<1>2. <<>> \in Seq(Nat) /\ \A c \in Clients : <<>> \in Seq({HeaderUnit} \cup 1 .. length[c])
  BY EmptySeq
<1>3. HTTPTypes
  BY <1>2 DEF HTTPTypes
<1>4. \A c \in Clients : pc[c] = "none" /\ Size(c) \in Nat
  BY <1>3, MainIsNoClient, SizeProperties
<1>5. ASSUME NEW c \in Clients PROVE Delivery(c)
  <2>1. /\ stream[c] = <<>> /\ position[c] = 0 /\ file[c] = <<>> /\ pc[c] = "none"
        /\ clientPC[c] = "connect" /\ pc[c] \notin Ended
    BY <1>4 DEF Ended
  <2>2. position[c] \in 0 .. Size(c)
    <3>1. Size(c) \in Nat /\ position[c] = 0
      BY <1>4, <2>1, Zenon
    <3> QED
      BY ONLY <3>1
  <2>3. stream[c] \in Seq({HeaderUnit} \cup 1 .. length[c])
    BY <1>2, <2>1, Zenon
  <2> QED
    BY <2>1, <2>2, <2>3 DEF Delivery
<1> QED
  BY <1>1, <1>3, <1>5 DEF HTTPInv

\* A step of one client, or of its child.
LEMMA OneDelivery ==
  ASSUME HTTPInv, NEW c \in Clients, ServerInv', HTTPTypes', Delivery(c)',
         length' = length, broken \subseteq broken',
         \A d \in Clients \ {c} : /\ file'[d] = file[d] /\ stream'[d] = stream[d]
                                  /\ position'[d] = position[d] /\ clientPC'[d] = clientPC[d]
                                  /\ pc'[d] = pc[d]
  PROVE  HTTPInv'
<1>1. ASSUME NEW d \in Clients PROVE Delivery(d)'
  BY DeliveryFrame DEF HTTPInv
<1> QED
  BY <1>1 DEF HTTPInv

LEMMA NetworkDelivers ==
  ASSUME HTTPInv, NEW c \in Clients, Network(c)
  PROVE  HTTPInv'
<1>1. UNCHANGED <<length, requested, file, processVars, position>>
  BY DEF Network, requestVars
<1>2. pc' = pc
  BY <1>1 DEF processVars
<1>3. CASE Connect(c, "write")
  <2>1. ServerInv'
    BY <1>1, <1>3, ConnectInv DEF HTTPInv
  <2>2. /\ clientPC[c] = "connect" /\ clientPC' = [clientPC EXCEPT ![c] = "write"]
        /\ UNCHANGED <<stream, broken>>
    BY <1>3 DEF Connect, Goto
  <2>3. HTTPTypes'
    BY <1>1, <2>2 DEF HTTPInv, HTTPTypes
  <2>4. /\ clientPC'[c] = "write"
        /\ \A d \in Clients \ {c} : clientPC'[d] = clientPC[d]
    BY <2>2 DEF HTTPInv, HTTPTypes
  <2>5. Delivery(c)'
    <3>1. Delivery(c)
      BY DEF HTTPInv
    <3>2. Size(c)' = Size(c) /\ Units(0, position[c])' = Units(0, position[c])
      BY <1>1 DEF Size, Units
    <3> QED
      BY <1>1, <1>2, <2>2, <2>4, <3>1, <3>2 DEF Delivery
  <2> QED
    BY <1>1, <1>2, <2>1, <2>2, <2>3, <2>4, <2>5, OneDelivery
<1>4. CASE Break(c)
  <2>1. ServerInv'
    BY <1>1, <1>4, BreakInv DEF HTTPInv
  <2>2. UNCHANGED <<clientPC, stream>> /\ broken \subseteq broken'
    BY <1>4 DEF Break
  <2>3. HTTPTypes'
    BY <1>1, <2>2 DEF HTTPInv, HTTPTypes
  <2>4. Delivery(c)'
    BY <1>1, <1>2, <2>2, DeliveryFrame DEF HTTPInv
  <2> QED
    BY <1>1, <1>2, <2>1, <2>2, <2>3, <2>4, OneDelivery
<1> QED
  BY <1>3, <1>4 DEF Network

\* A client that goes on without receiving.
LEMMA GoOnDelivers ==
  ASSUME HTTPInv, NEW c \in Clients, ClientMoves(c),
         clientPC[c] \in {"write", "open", "first", "rest"},
         NEW label \in {"open", "first", "done"}, Goto(c, label),
         clientPC[c] = "rest" => label = "done",
         UNCHANGED <<file, stream, length, position>>, requested' \subseteq Clients
  PROVE  HTTPInv'
<1>1. ServerInv'
  BY ClientMovesInv DEF HTTPInv
<1>2. UNCHANGED <<pc, broken>> /\ clientPC' = [clientPC EXCEPT ![c] = label]
  BY DEF ClientMoves, processVars, Goto
<1>3. HTTPTypes'
  BY <1>2 DEF HTTPInv, HTTPTypes
<1>4. clientPC'[c] = label /\ \A d \in Clients \ {c} : clientPC'[d] = clientPC[d]
  BY <1>2 DEF HTTPInv, HTTPTypes
<1>5. Delivery(c)'
  <2>1. Delivery(c)
    BY DEF HTTPInv
  <2>2. Size(c)' = Size(c) /\ Units(0, position[c])' = Units(0, position[c])
    BY DEF Size, Units
  <2> QED
    BY <1>2, <1>4, <2>1, <2>2 DEF Delivery
<1> QED
  BY <1>1, <1>2, <1>3, <1>4, <1>5, OneDelivery

\* The lengths of what is received and kept have the types of the state.
LEMMA PieceTypes ==
  ASSUME NEW S, NEW s \in Seq(S), NEW k \in 1 .. Len(s), NEW h \in Nat
  PROVE  /\ SubSeq(s, 1, k) \in Seq(S)
         /\ SubSeq(s, k + 1, Len(s)) \in Seq(S)
         /\ SubSeq(s, h + 1, k) \in Seq(S)
<1>1. Len(s) \in Nat /\ k \in Nat /\ \A i \in 1 .. Len(s) : s[i] \in S
  BY LenProperties, ElementOfSeq
<1>2. /\ \A i \in 1 .. k : s[i] \in S
      /\ \A i \in k + 1 .. Len(s) : s[i] \in S
      /\ \A i \in h + 1 .. k : s[i] \in S
  BY <1>1
<1>3. 1 \in Int /\ k \in Int /\ k + 1 \in Int /\ Len(s) \in Int /\ h + 1 \in Int
  BY <1>1
<1> QED
  BY <1>2, <1>3, SubSeqProperties

LEMMA RecvFirstDelivers ==
  ASSUME HTTPInv, NEW c \in Clients, NEW k, RecvFirst(c, k),
         UNCHANGED <<length, processVars, position>>
  PROVE  /\ HTTPInv'
         /\ k < HeaderLen => file' = file /\ clientPC'[c] = "done"
         /\ k >= HeaderLen => /\ clientPC'[c] = "rest"
                              /\ k - HeaderLen \in 0 .. position[c]
                              /\ file' = [file EXCEPT ![c] = Units(0, k - HeaderLen)]
<1> DEFINE s == stream[c]
           p == position[c]
<1>1. /\ clientPC[c] = "first" /\ k \in 1 .. Len(s)
      /\ stream' = [stream EXCEPT ![c] = SubSeq(s, k + 1, Len(s))]
      /\ file' = [file EXCEPT ![c] = SubSeq(s, HeaderLen + 1, k)]
      /\ clientPC' = [clientPC EXCEPT ![c] = AfterFirst(k)]
      /\ UNCHANGED <<requested, backlog, broken, pc>>
  BY DEF RecvFirst, Received, Goto, processVars
<1>2. Delivery(c) /\ HTTPTypes /\ HeaderLen \in Nat \ {0}
  BY RequestsAssumption DEF HTTPInv
<1>3. s \in Seq(Nat) /\ s # <<>> /\ file[c] = <<>> /\ p \in Nat
  <2>1. s \in Seq(Nat) /\ p \in Nat
    BY <1>2 DEF HTTPTypes
  <2>2. Len(s) # 0
    BY <1>1, <2>1, LenProperties
  <2>3. s # <<>>
    BY <2>2
  <2> QED
    BY <1>1, <1>2, <2>1, <2>3 DEF Delivery
<1>4. pc[c] \notin Silent /\ s = Header \o Units(0, p)
  BY <1>1, <1>2, <1>3 DEF Delivery
<1>5. Len(s) = HeaderLen + p /\ k \in 1 .. HeaderLen + p
  <2>1. p >= 0 /\ 1 \in 1 .. HeaderLen + p
    BY <1>2, <1>3
  <2>2. Len(Header \o Units(0, p)) = HeaderLen + p
    BY <1>3, <2>1, AnswerPieces
  <2> QED
    BY <1>1, <1>4, <2>2
<1>6. /\ k <= HeaderLen => SubSeq(s, HeaderLen + 1, k) = <<>>
      /\ k >= HeaderLen => /\ SubSeq(s, HeaderLen + 1, k) = Units(0, k - HeaderLen)
                           /\ SubSeq(s, k + 1, Len(s)) = Units(k - HeaderLen, p)
  BY <1>3, <1>4, <1>5, AnswerPieces
<1>7. /\ SubSeq(s, k + 1, Len(s)) \in Seq(Nat)
      /\ SubSeq(s, k + 1, Len(s)) \in Seq({HeaderUnit} \cup 1 .. length[c])
      /\ SubSeq(s, HeaderLen + 1, k) \in Seq(Nat)
  BY <1>1, <1>2, <1>3, PieceTypes DEF Delivery
<1>8. AfterFirst(k) = IF k >= HeaderLen THEN "rest" ELSE "done"
  BY DEF AfterFirst
<1>9. HTTPTypes'
  BY <1>1, <1>2, <1>7, <1>8 DEF HTTPTypes
<1>10. ServerInv'
  <2>1. ClientMoves(c)
    BY <1>1, <1>8 DEF ClientMoves, Goto
  <2> QED
    BY <2>1, ClientMovesInv DEF HTTPInv
<1>11. /\ clientPC'[c] = AfterFirst(k) /\ stream'[c] = SubSeq(s, k + 1, Len(s))
       /\ file'[c] = SubSeq(s, HeaderLen + 1, k)
       /\ \A d \in Clients \ {c} : /\ file'[d] = file[d] /\ stream'[d] = stream[d]
                                   /\ clientPC'[d] = clientPC[d]
  BY <1>1, <1>2 DEF HTTPTypes
<1>12. Size(c)' = Size(c) /\ \A j \in 0 .. p : Units(j, p)' = Units(j, p)
  BY DEF Size, Units
<1>13. k >= HeaderLen => k - HeaderLen \in 0 .. p
  BY <1>2, <1>3, <1>5
<1>14. Delivery(c)'
  <2>1. CASE k >= HeaderLen
    <3> DEFINE j == k - HeaderLen
    <3>1. /\ clientPC'[c] = "rest" /\ j \in 0 .. p
          /\ file'[c] = Units(0, j) /\ stream'[c] = Units(j, p)
      BY <1>6, <1>8, <1>11, <1>13, <2>1
    <3> HIDE DEF j
    <3> QED
      BY <1>1, <1>2, <1>4, <1>7, <1>11, <1>12, <3>1 DEF Delivery
  <2>2. CASE ~ (k >= HeaderLen)
    <3>1. clientPC'[c] = "done"
      BY <1>8, <1>11, <2>2
    <3> QED
      BY <1>1, <1>2, <1>4, <1>7, <1>11, <1>12, <3>1 DEF Delivery
  <2> QED
    BY <2>1, <2>2
<1>15. HTTPInv'
  BY <1>1, <1>9, <1>10, <1>11, <1>14, OneDelivery
<1>16. k < HeaderLen => file' = file /\ clientPC'[c] = "done"
  <2> SUFFICES ASSUME k < HeaderLen PROVE file' = file /\ clientPC'[c] = "done"
    OBVIOUS
  <2>1. k <= HeaderLen /\ ~ (k >= HeaderLen)
    BY <1>2, <1>5
  <2>2. file' = [file EXCEPT ![c] = file[c]]
    BY <1>1, <1>3, <1>6, <2>1
  <2> QED
    BY <1>2, <1>8, <1>11, <2>1, <2>2 DEF HTTPTypes
<1> QED
  BY <1>1, <1>6, <1>8, <1>11, <1>13, <1>15, <1>16

LEMMA RecvRestDelivers ==
  ASSUME HTTPInv, NEW c \in Clients, NEW k, RecvRest(c, k),
         UNCHANGED <<length, processVars, position>>
  PROVE  /\ HTTPInv'
         /\ clientPC' = clientPC /\ clientPC[c] = "rest"
         /\ \E j \in 0 .. position[c] : /\ k \in 1 .. position[c] - j
                                        /\ file[c] = Units(0, j)
                                        /\ file' = [file EXCEPT ![c] = Units(0, j + k)]
<1> DEFINE s == stream[c]
           p == position[c]
<1>1. /\ clientPC[c] = "rest" /\ k \in 1 .. Len(s)
      /\ stream' = [stream EXCEPT ![c] = SubSeq(s, k + 1, Len(s))]
      /\ file' = [file EXCEPT ![c] = @ \o SubSeq(s, 1, k)]
      /\ UNCHANGED <<clientPC, requested, backlog, broken, pc>>
  BY DEF RecvRest, Received, processVars
<1>2. Delivery(c) /\ HTTPTypes
  BY DEF HTTPInv
<1>3. s \in Seq(Nat) /\ p \in Nat
  BY <1>2 DEF HTTPTypes
<1>4. PICK j \in 0 .. p : file[c] = Units(0, j) /\ s = Units(j, p)
  BY <1>1, <1>2 DEF Delivery
<1>5. j \in Nat /\ j <= p /\ 0 <= j
  BY <1>3, <1>4
<1>6. Len(s) = p - j
  BY <1>3, <1>4, <1>5, UnitsProperties
<1>7. k \in 1 .. p - j /\ k \in 0 .. p - j /\ j + k \in 0 .. p /\ j <= j + k /\ j + k \in Nat
  BY <1>1, <1>3, <1>5, <1>6
<1>8. SubSeq(s, 1, k) = Units(j, j + k) /\ SubSeq(s, k + 1, Len(s)) = Units(j + k, p)
  <2>1. /\ SubSeq(Units(j, p), 1, k) = Units(j, j + k)
        /\ SubSeq(Units(j, p), k + 1, Len(Units(j, p))) = Units(j + k, p)
    BY <1>3, <1>5, <1>7, UnitsPieces
  <2> QED
    BY <1>4, <2>1
<1>9. Units(0, j) \o Units(j, j + k) = Units(0, j + k) /\ Units(0, j + k) \in Seq(Nat)
  <2>1. 0 \in Nat
    OBVIOUS
  <2>2. Units(0, j) \o Units(j, j + k) = Units(0, j + k)
    BY <1>5, <1>7, <2>1, UnitsJoin
  <2>3. Units(0, j + k) \in Seq(Nat)
    BY <1>7, UnitsFromZero
  <2> QED
    BY <2>2, <2>3
<1>10. /\ SubSeq(s, k + 1, Len(s)) \in Seq(Nat)
       /\ SubSeq(s, k + 1, Len(s)) \in Seq({HeaderUnit} \cup 1 .. length[c])
  BY <1>1, <1>2, <1>3, PieceTypes DEF Delivery
<1>11. file' = [file EXCEPT ![c] = Units(0, j + k)]
  BY <1>1, <1>4, <1>8, <1>9
<1>12. HTTPTypes'
  BY <1>1, <1>2, <1>9, <1>10, <1>11 DEF HTTPTypes
<1>13. ServerInv'
  <2>1. ClientMoves(c)
    BY <1>1 DEF ClientMoves
  <2> QED
    BY <2>1, ClientMovesInv DEF HTTPInv
<1>14. /\ stream'[c] = Units(j + k, p) /\ file'[c] = Units(0, j + k)
       /\ \A d \in Clients \ {c} : file'[d] = file[d] /\ stream'[d] = stream[d]
  BY <1>1, <1>2, <1>8, <1>11 DEF HTTPTypes
<1>15. Size(c)' = Size(c) /\ \A i \in 0 .. p : Units(i, p)' = Units(i, p)
  BY DEF Size, Units
<1>16. Delivery(c)'
  <2>1. stream'[c] \in Seq({HeaderUnit} \cup 1 .. length[c])
    BY <1>8, <1>10, <1>14
  <2> DEFINE m == j + k
  <2>2. m \in 0 .. p /\ stream'[c] = Units(m, p) /\ file'[c] = Units(0, m)
    BY <1>7, <1>14
  <2> HIDE DEF m
  <2> QED
    BY <1>1, <1>2, <1>15, <2>1, <2>2 DEF Delivery
<1>17. HTTPInv'
  BY <1>1, <1>12, <1>13, <1>14, <1>16, OneDelivery
<1> QED
  BY <1>1, <1>4, <1>7, <1>11, <1>17

\* Everything a client does.
LEMMA ClientDelivers ==
  ASSUME HTTPInv, NEW c \in Clients, ClientStep(c)
  PROVE  HTTPInv'
<1>1. UNCHANGED <<length, processVars, position>>
  BY DEF ClientStep
<1>2. requested \subseteq Clients
  BY DEF HTTPInv, HTTPTypes
<1>3. CASE Write(c)
  <2>1. /\ clientPC[c] = "write" /\ Goto(c, "open") /\ requested' \subseteq Clients
        /\ UNCHANGED <<file, stream, backlog, broken>>
    BY <1>2, <1>3 DEF Write
  <2>2. ClientMoves(c)
    BY <1>1, <2>1 DEF ClientMoves
  <2> QED
    BY <1>1, <2>1, <2>2, GoOnDelivers
<1>4. CASE Open(c)
  <2>1. PICK label \in {"first", "done"} : Goto(c, label)
    BY <1>4 DEF Open
  <2>2. /\ clientPC[c] = "open" /\ requested' \subseteq Clients
        /\ UNCHANGED <<file, stream, backlog, broken>>
    BY <1>2, <1>4 DEF Open
  <2>3. ClientMoves(c)
    BY <1>1, <2>1, <2>2 DEF ClientMoves
  <2> QED
    BY <1>1, <2>1, <2>2, <2>3, GoOnDelivers
<1>5. CASE CannotGoOn(c) /\ Leave(c)
  <2>1. /\ clientPC[c] \in {"write", "first", "rest"} /\ Goto(c, "done")
        /\ requested' \subseteq Clients
        /\ UNCHANGED <<file, stream, backlog, broken>>
    BY <1>2, <1>5 DEF Leave
  <2>2. ClientMoves(c)
    BY <1>1, <2>1 DEF ClientMoves
  <2> QED
    BY <1>1, <2>1, <2>2, GoOnDelivers
<1>6. CASE \E k \in 1 .. Len(stream[c]) : RecvFirst(c, k) \/ RecvRest(c, k)
  BY <1>1, <1>6, RecvFirstDelivers, RecvRestDelivers
<1> QED
  BY <1>3, <1>4, <1>5, <1>6 DEF ClientStep

\* What the server does beside its children's answers.
LEMMA ServerDelivers ==
  ASSUME HTTPInv, NEW p \in Processes, Loop(p) \/ Exit(p) \/ Handler(p),
         UNCHANGED <<position, requestVars, file>>
  PROVE  HTTPInv'
<1> USE MainIsNoClient
<1>1. ServerInv'
  BY LoopInv, ExitInv, HandlerInv DEF HTTPInv
<1>2. UNCHANGED <<clientPC, stream, broken>>
  BY DEF Loop, Exit, Handler, connectionVars
<1>3. HTTPTypes'
  BY <1>2 DEF HTTPInv, HTTPTypes, requestVars
<1>4. TypesOK /\ MainOK
  BY DEF HTTPInv, ServerInv
<1>5. ASSUME NEW d \in Clients
      PROVE  \/ pc'[d] = pc[d]
             \/ pc[d] \in Silent /\ pc'[d] \in Silent
             \/ pc[d] \in Ended /\ pc'[d] \in Ended
  <2>1. CASE Accept(p) \/ ForkFails(p) \/ Close(p)
    <3>1. /\ d = p => pc[p] \in Silent
          /\ \E to \in {"fork", "close", "accept"} : /\ pc' = [pc EXCEPT ![p] = to]
                                                     /\ d = p => to \in Silent
      <4>1. pc[d] # "fork"
        BY DEF HTTPInv, ServerInv, ChildrenOK
      <4>2. Accept(p) => p # d
        BY <1>4 DEF Accept, MainOK
      <4> QED
        BY <2>1, <4>1, <4>2 DEF Accept, ForkFails, Close, Step, Silent
    <3>2. PICK to \in {"fork", "close", "accept"} : /\ pc' = [pc EXCEPT ![p] = to]
                                                    /\ d = p => to \in Silent
      BY <3>1
    <3>3. DOMAIN pc = Processes /\ d \in Processes
      BY <1>4 DEF TypesOK
    <3>4. pc'[d] = IF d = p THEN to ELSE pc[d]
      BY <3>2, <3>3
    <3> QED
      BY <3>1, <3>2, <3>4
  <2>2. CASE Fork(p)
    <3>1. p = Main
      BY <2>2 DEF Fork, HTTPInv, ServerInv, ChildrenOK, Processes
    <3>2. pc' = [pc EXCEPT ![Main] = "close", ![newFd[Main]] = "child"]
          /\ pc[newFd[Main]] = "none"
      BY <1>4, <2>2, <3>1 DEF Fork, MainOK
    <3> QED
      BY <1>4, <3>2 DEF TypesOK, Silent
  <2>3. CASE Exit(p)
    BY <1>4, <2>3 DEF Exit, Step, TypesOK, Ended
  <2>4. CASE Handler(p)
    <3>1. pc' = pc \/ \E z \in Clients : pc[z] = "zombie" /\ pc' = [pc EXCEPT ![z] = "gone"]
      BY <2>4 DEF Handler, Signal, EndHandler, Reap, DeadChildren
    <3> QED
      BY <1>4, <3>1 DEF TypesOK, Ended
  <2> QED
    BY <2>1, <2>2, <2>3, <2>4 DEF Loop
<1>6. \A d \in Clients : Delivery(d)'
  BY <1>2, <1>5, DeliveryFrame DEF HTTPInv, requestVars
<1> QED
  BY <1>1, <1>3, <1>6 DEF HTTPInv

\* A child reads the request and answers.
LEMMA ChildDelivers ==
  ASSUME HTTPInv, NEW c \in Clients, Child(c), UNCHANGED <<requestVars, file>>
  PROVE  HTTPInv'
<1> USE MainIsNoClient
<1> DEFINE p == position[c]
<1>1. UNCHANGED <<parent, fdVars, signalVars, clientPC, backlog, broken, length, requested, file>>
  BY DEF Child, requestVars
<1>2. ServerInv /\ TypesOK /\ HTTPTypes /\ Delivery(c)
  BY DEF HTTPInv, ServerInv
<1>3. p \in Nat /\ Size(c) \in Nat /\ p <= Size(c) /\ stream[c] \in Seq(Nat)
  BY <1>2, SizeProperties DEF HTTPTypes, Delivery
<1>4. ASSUME NEW from \in AtWork, NEW to \in AtWork \cup {"close", "exit"}, Step(c, from, to)
      PROVE  /\ ServerInv' /\ pc[c] = from /\ pc'[c] = to
             /\ \A d \in Clients \ {c} : pc'[d] = pc[d]
  <2>1. ChildMoves(c)
    BY <1>1, <1>4 DEF ChildMoves, Step
  <2> QED
    BY <1>2, <1>4, <2>1, ChildMovesInv DEF Step, TypesOK
<1>5. /\ Size(c)' = Size(c) /\ \A i \in Nat : Units(i, p)' = Units(i, position'[c])
  BY <1>1 DEF Size, Units
<1>6. CASE Read(c)
  <2>1. PICK to \in {"answer", "close"} : Step(c, "child", to)
    BY <1>6 DEF Read, AfterFailedRead
  <2>2. ServerInv' /\ pc[c] = "child" /\ pc'[c] = to /\ \A d \in Clients \ {c} : pc'[d] = pc[d]
    BY <1>4, <2>1 DEF AtWork
  <2>3. UNCHANGED <<stream, position>>
    BY <1>6 DEF Read
  <2>4. HTTPTypes'
    BY <1>1, <1>2, <2>3 DEF HTTPTypes
  <2>5. Delivery(c)'
    BY <1>1, <1>2, <2>1, <2>2, <2>3, DeliveryFrame DEF Silent
  <2> QED
    BY <1>1, <2>2, <2>3, <2>4, <2>5, OneDelivery
<1>7. CASE Answer(c)
  <2> DEFINE to == IF length[c] = Missing THEN "exit" ELSE "body"
  <2>1. /\ Step(c, "answer", to) /\ position' = position
        /\ stream' = [stream EXCEPT ![c] = @ \o Header]
    BY <1>7 DEF Answer, Sent
  <2>2. ServerInv' /\ pc[c] = "answer" /\ pc'[c] = to /\ \A d \in Clients \ {c} : pc'[d] = pc[d]
    BY <1>4, <2>1 DEF AtWork
  <2>3. stream[c] = <<>> /\ p = 0 /\ clientPC[c] # "rest"
    BY <1>2, <2>2 DEF Delivery, Silent
  <2>4. stream[c] \o Header = Header /\ Header \o Units(0, p) = Header
    BY <2>3, HeaderProperties, UnitsFromZero, ConcatEmptySeq
  <2>5. stream' = [stream EXCEPT ![c] = Header] /\ Header \in Seq(Nat)
    BY <2>1, <2>4, HeaderProperties
  <2>6. HTTPTypes'
    BY <1>1, <1>2, <2>1, <2>5 DEF HTTPTypes
  <2>7. stream'[c] = Header /\ \A d \in Clients \ {c} : stream'[d] = stream[d]
    BY <1>2, <2>5 DEF HTTPTypes
  <2>8. Header \in Seq({HeaderUnit} \cup 1 .. length[c])
    BY HeaderProperties, SeqMonotonic
  <2>9. Delivery(c)'
    BY <1>1, <1>2, <1>5, <2>1, <2>2, <2>3, <2>4, <2>7, <2>8
    DEF Delivery, Silent, Ended, Size
  <2> QED
    BY <1>1, <2>1, <2>2, <2>6, <2>7, <2>9, OneDelivery
<1>8. CASE SendBlock(c)
  <2> DEFINE b == Block(c)
             q == p + b
             units == [i \in 1 .. b |-> p + i]
  <2>1. /\ Step(c, "body", "body") /\ b > 0 /\ position' = [position EXCEPT ![c] = q]
        /\ stream' = [stream EXCEPT ![c] = @ \o units]
    BY <1>8 DEF SendBlock, Sent
  <2>2. ServerInv' /\ pc[c] = "body" /\ pc'[c] = "body" /\ \A d \in Clients \ {c} : pc'[d] = pc[d]
    BY <1>4, <2>1 DEF AtWork
  <2>3. length[c] = Size(c)
    BY <1>2, <2>2 DEF Delivery, Size
  <2>4. b \in Nat /\ q \in Nat /\ p <= q /\ q <= Size(c) /\ q - p = b
    <3>1. b = IF Size(c) - p < BlockSize THEN Size(c) - p ELSE BlockSize
      BY <2>3 DEF Block
    <3> QED
      BY <1>3, <2>1, <3>1, BlockAssumption
  <2>5. units = Units(p, q)
    BY <2>4 DEF Units
  <2> HIDE DEF b, q, units
  <2>6. Units(p, q) \in Seq(Nat) /\ Units(p, q) \in Seq({HeaderUnit} \cup 1 .. length[c])
    <3>1. /\ Units(p, q) \in Seq(Nat) /\ Len(Units(p, q)) = q - p
          /\ \A i \in 1 .. q - p : Units(p, q)[i] = p + i
      BY <1>3, <2>4, UnitsProperties
    <3>2. \A i \in 1 .. Len(Units(p, q)) : Units(p, q)[i] \in 1 .. length[c]
      BY <1>3, <2>3, <2>4, <3>1, SMTT(30)
    <3> QED
      BY <3>1, <3>2
  <2>7. /\ stream[c] \o Units(p, q) \in Seq(Nat)
        /\ stream[c] \o Units(p, q) \in Seq({HeaderUnit} \cup 1 .. length[c])
    BY <1>2, <1>3, <2>6, ConcatProperties DEF Delivery
  <2>8. HTTPTypes'
    BY <1>1, <1>2, <2>1, <2>4, <2>5, <2>7 DEF HTTPTypes
  <2>9. /\ stream'[c] = stream[c] \o Units(p, q) /\ position'[c] = q
        /\ \A d \in Clients \ {c} : stream'[d] = stream[d] /\ position'[d] = position[d]
    BY <1>2, <2>1, <2>5 DEF HTTPTypes
  <2>10. clientPC[c] \notin {"rest", "done"} => stream'[c] = Header \o Units(0, q)
    <3> SUFFICES ASSUME clientPC[c] \notin {"rest", "done"}
                 PROVE  stream'[c] = Header \o Units(0, q)
      OBVIOUS
    <3>1. stream[c] = Header \o Units(0, p)
      BY <1>2, <2>2 DEF Delivery
    <3>2. Header \in Seq(Nat) /\ Units(0, p) \in Seq(Nat)
      BY <1>3, HeaderProperties, UnitsFromZero
    <3>3. (Header \o Units(0, p)) \o Units(p, q) = Header \o (Units(0, p) \o Units(p, q))
      <4>1. \A r, t, u \in Seq(Nat) : (r \o t) \o u = r \o (t \o u)
        BY ConcatAssociative, SMTT(30)
      <4> QED
        BY <2>6, <3>2, <4>1, Zenon
    <3>4. Units(0, p) \o Units(p, q) = Units(0, q)
      <4>1. 0 \in Nat /\ 0 <= p
        BY <1>3
      <4> QED
        BY <1>3, <2>4, <4>1, UnitsJoin
    <3> QED
      BY <2>9, <3>1, <3>3, <3>4
  <2>11. clientPC[c] = "rest" =>
           \E k \in 0 .. q : file[c] = Units(0, k) /\ stream'[c] = Units(k, q)
    <3> SUFFICES ASSUME clientPC[c] = "rest"
                 PROVE  \E k \in 0 .. q : file[c] = Units(0, k) /\ stream'[c] = Units(k, q)
      OBVIOUS
    <3>1. PICK k \in 0 .. p : file[c] = Units(0, k) /\ stream[c] = Units(k, p)
      BY <1>2 DEF Delivery
    <3>2. k \in Nat /\ k <= p /\ k \in 0 .. q
      BY <1>3, <2>4, <3>1
    <3>3. Units(k, p) \o Units(p, q) = Units(k, q)
      BY <1>3, <2>4, <3>2, UnitsJoin
    <3> QED
      BY <2>9, <3>1, <3>2, <3>3
  <2>12. Delivery(c)'
    <3>1. /\ position'[c] \in 0 .. Size(c)' /\ pc'[c] \notin Silent /\ pc'[c] \notin Ended
          /\ stream'[c] \in Seq({HeaderUnit} \cup 1 .. length'[c])
          /\ length'[c] # Missing
      BY <1>1, <1>2, <1>5, <2>2, <2>4, <2>7, <2>9 DEF Silent, Ended, Delivery
    <3>2. clientPC'[c] \notin {"rest", "done"} =>
            file'[c] = <<>> /\ stream'[c] = Header \o Units(0, position'[c])
      BY <1>1, <1>2, <2>9, <2>10 DEF Delivery
    <3>3. clientPC'[c] = "rest" =>
            \E k \in 0 .. position'[c] : /\ file'[c] = Units(0, k)
                                         /\ stream'[c] = Units(k, position'[c])
      BY <1>1, <2>9, <2>11
    <3>4. \A i : Units(i, position[c])' = Units(i, position'[c])
      BY DEF Units
    <3>5. \A i \in Nat : Units(0, i)' = Units(0, i)
      BY DEF Units
    <3> QED
      BY <3>1, <3>2, <3>3, <3>4, <3>5 DEF Delivery
  <2> QED
    BY <1>1, <2>2, <2>8, <2>9, <2>12, OneDelivery
<1>9. CASE EndOfFile(c) \/ SendFails(c)
  <2>1. PICK from \in {"answer", "body"} : Step(c, from, "exit")
    BY <1>9 DEF EndOfFile, SendFails
  <2>2. ServerInv' /\ pc[c] = from /\ pc'[c] = "exit" /\ \A d \in Clients \ {c} : pc'[d] = pc[d]
    BY <1>4, <2>1 DEF AtWork
  <2>3. UNCHANGED <<stream, position>>
    BY <1>9 DEF EndOfFile, SendFails
  <2>4. HTTPTypes'
    BY <1>1, <1>2, <2>3 DEF HTTPTypes
  <2>5. c \notin broken /\ clientPC[c] # "done" => p = Size(c)
    <3> SUFFICES ASSUME c \notin broken, clientPC[c] # "done" PROVE p = Size(c)
      OBVIOUS
    <3>1. EndOfFile(c) /\ pc[c] = "body"
      BY <1>9 DEF SendFails, Closed, EndOfFile, Step
    <3>2. length[c] = Size(c)
      BY <1>2, <3>1 DEF Delivery, Size
    <3>3. 0 = IF Size(c) - p < BlockSize THEN Size(c) - p ELSE BlockSize
      BY <3>1, <3>2 DEF EndOfFile, Block
    <3> QED
      BY <1>3, <3>3, BlockAssumption
  <2>6. Delivery(c)'
    <3>1. Units(0, position[c])' = Units(0, position[c])
          /\ \A k \in 0 .. p : Units(k, position[c])' = Units(k, position[c])
      BY <2>3 DEF Units
    <3> QED
      BY <1>1, <1>2, <1>5, <2>2, <2>3, <2>5, <3>1 DEF Delivery, Silent, Ended
  <2> QED
    BY <1>1, <2>2, <2>3, <2>4, <2>6, OneDelivery
<1> QED
  BY <1>6, <1>7, <1>8, <1>9 DEF Child

-----------------------------------------------------------------------------
(* HTTP: the theorems                                                      *)

LEMMA HTTPStepInv == HTTPInv /\ [Next]_vars => HTTPInv'
<1> SUFFICES ASSUME HTTPInv, [Next]_vars PROVE HTTPInv'
  OBVIOUS
<1>1. CASE \E c \in Clients : Network(c) \/ ClientStep(c)
  BY <1>1, NetworkDelivers, ClientDelivers
<1>2. CASE \E p \in Processes : ServerStep(p)
  <2>1. PICK p \in Processes : ServerStep(p)
    BY <1>2
  <2>2. CASE Child(p)
    BY <2>1, <2>2, ChildDelivers DEF ServerStep, Child
  <2>3. CASE ~ Child(p)
    BY <2>1, <2>3, ServerDelivers DEF ServerStep
  <2> QED
    BY <2>2, <2>3
<1>3. CASE UNCHANGED vars
  <2>1. UNCHANGED <<clientPC, backlog, stream, broken, length, requested, file, pc, parent,
                    listening, sockets, newFd, signalled, handling, position>>
    BY <1>3 DEF vars, connectionVars, requestVars, processVars, fdVars, signalVars
  <2>2. ServerInv'
    <3>1. TypesOK' /\ BacklogOK' /\ MainOK'
      BY <2>1 DEF HTTPInv, ServerInv, TypesOK, BacklogOK, MainOK
    <3>2. ChildrenOK' /\ DeadChildrenAnnounced'
      BY <2>1 DEF HTTPInv, ServerInv, ChildrenOK, DeadChildrenAnnounced
    <3> QED
      BY <3>1, <3>2 DEF ServerInv
  <2>3. HTTPTypes'
    BY <2>1 DEF HTTPInv, HTTPTypes
  <2>4. \A c \in Clients : Delivery(c)'
    BY <2>1, DeliveryFrame DEF HTTPInv
  <2> QED
    BY <2>2, <2>3, <2>4 DEF HTTPInv
<1> QED
  BY <1>1, <1>2, <1>3 DEF Next

LEMMA HTTPInvAlways == Spec => []HTTPInv
BY HTTPInitInv, HTTPStepInv, PTL DEF Spec

LEMMA HTTPInvTypes == HTTPInv => HTTPTypeOK
<1> SUFFICES ASSUME HTTPInv PROVE HTTPTypeOK
  OBVIOUS
<1> USE MainIsNoClient
<1>1. RequestsTypeOK
  <2>1. ASSUME NEW c \in Clients, NEW i \in 1 .. Len(stream[c])
        PROVE  stream[c][i] \in {HeaderUnit} \cup 1 .. length[c]
    <3>1. stream[c] \in Seq({HeaderUnit} \cup 1 .. length[c])
      BY DEF HTTPInv, Delivery
    <3> QED
      BY <3>1, ElementOfSeq
  <2> QED
    BY <2>1 DEF HTTPInv, HTTPTypes, RequestsTypeOK
<1>2. ClientTypeOK
  BY DEF HTTPInv, HTTPTypes, ClientTypeOK
<1>3. ServerTypeOK({"answer", "body"})
  BY DEF HTTPInv, ServerInv, TypesOK, MainOK, ServerTypeOK, AtWork
<1>4. ASSUME NEW c \in Clients PROVE position[c] \in 0 .. length[c] \cup {0}
  <2>1. position[c] \in 0 .. Size(c) /\ length[c] \in Nat \cup {Missing}
    BY SizeProperties DEF HTTPInv, Delivery
  <2> QED
    BY <2>1 DEF Size
<1> QED
  BY <1>1, <1>2, <1>3, <1>4 DEF HTTPTypeOK

\* The state of mp1's client and server has its type; what is on its way is
\* made of the header and the units of the file asked for, and no child reads
\* behind the end of its file.
THEOREM HTTPTypesCorrect == Spec => []HTTPTypeOK
BY HTTPInvAlways, HTTPInvTypes, PTL

\* mp1's server holds a connection open in the child it belongs to and, until
\* the end of the pass of its loop, in the main process, and nowhere else.
THEOREM HTTPNoSocketLeaks == Spec => []NoSocketLeaks
<1>1. HTTPInv => NoSocketLeaks
  BY ServerInvSafe DEF HTTPInv
<1> QED
  BY <1>1, HTTPInvAlways, PTL

\* In mp1 a child that comes back to accept after a failed read never serves:
\* every child is one of the main process.
THEOREM HTTPOnlyMainServes == Spec => []OnlyMainServes
<1>1. HTTPInv => OnlyMainServes
  BY ServerInvSafe DEF HTTPInv
<1> QED
  BY <1>1, HTTPInvAlways, PTL

\* In mp1 no dead child waits for a SIGCHLD that was merged with another.
THEOREM HTTPDeadChildrenAnnounced == Spec => []DeadChildrenAnnounced
<1>1. HTTPInv => DeadChildrenAnnounced
  BY ServerInvSafe DEF HTTPInv
<1> QED
  BY <1>1, HTTPInvAlways, PTL

-----------------------------------------------------------------------------
(* HTTP: the refinement of Download                                        *)

LEMMA ContentIsUnits ==
  ASSUME HTTPTypes, NEW c \in Clients
  PROVE  /\ Content(c) = Units(0, Size(c))
         /\ Len(Content(c)) = Size(c)
         /\ \A n \in 0 .. Size(c) : SubSeq(Content(c), 1, n) = Units(0, n)
<1>1. Size(c) \in Nat /\ length[c] \in Nat \cup {Missing}
  BY SizeProperties
<1>2. /\ Units(0, Size(c)) \in Seq(Nat) /\ Len(Units(0, Size(c))) = Size(c)
      /\ Units(0, 0) = <<>>
  BY <1>1, UnitsFromZero
<1>3. Content(c) = Units(0, Size(c))
  <2>1. CASE length[c] = Missing
    BY <1>2, <2>1 DEF Content, Size
  <2>2. CASE length[c] # Missing
    <3>1. \A i \in 1 .. Size(c) : i = 0 + i
      BY <1>1
    <3>2. Size(c) - 0 = Size(c) /\ Size(c) = length[c]
      BY <1>1, <2>2 DEF Size
    <3> QED
      BY <2>2, <3>1, <3>2 DEF Content, Units
  <2> QED
    BY <2>1, <2>2
<1>4. ASSUME NEW n \in 0 .. Size(c) PROVE SubSeq(Units(0, Size(c)), 1, n) = Units(0, n)
  <2>1. n \in 0 .. Size(c) - 0 /\ 0 <= Size(c) /\ 0 + n = n
    BY <1>1
  <2>2. SubSeq(Units(0, Size(c)), 1, n) = Units(0, 0 + n)
    BY <1>1, <2>1, UnitsPieces
  <2> QED
    BY <2>1, <2>2
<1> QED
  BY <1>2, <1>3, <1>4

\* A client that is left with nothing, with everything, or with a failed
\* connection may leave.
LEMMA LeavesComplete ==
  ASSUME HTTPInv, NEW c \in Clients, clientPC[c] \in {"write", "open", "first", "rest"},
         clientPC[c] = "rest" => CannotGoOn(c)
  PROVE  c \in broken \/ file[c] \in {<<>>, Content(c)}
<1> SUFFICES ASSUME c \notin broken, clientPC[c] = "rest" PROVE file[c] = Content(c)
  BY DEF HTTPInv, Delivery
<1>1. Delivery(c) /\ HTTPTypes /\ ChildrenOK
  BY DEF HTTPInv, ServerInv
<1>2. stream[c] = <<>> /\ c \notin sockets[c]
  BY MainIsNoClient DEF CannotGoOn, EndOfStream
<1>3. pc[c] \in Ended
  BY <1>1, <1>2 DEF ChildrenOK, Delivery, Silent, Ended
<1>4. position[c] = Size(c)
  BY <1>1, <1>3 DEF Delivery
<1>5. PICK k \in 0 .. position[c] : file[c] = Units(0, k) /\ stream[c] = Units(k, position[c])
  BY <1>1 DEF Delivery
<1>6. position[c] \in Nat /\ k \in Nat /\ k <= position[c]
  BY <1>1, <1>5 DEF HTTPTypes
<1>7. position[c] - k = 0
  <2>1. Len(Units(k, position[c])) = position[c] - k
    BY <1>6, UnitsProperties
  <2>2. Len(Units(k, position[c])) = 0
    BY <1>2, <1>5
  <2> QED
    BY <2>1, <2>2
<1>8. k = Size(c)
  BY <1>4, <1>6, <1>7
<1> QED
  BY <1>1, <1>5, <1>8, ContentIsUnits

LEMMA ClosedChanges ==
  ASSUME HTTPTypes, NEW c \in Clients, NEW label, Goto(c, label), clientPC[c] # "done"
  PROVE  /\ c \notin Closed
         /\ label = "done" => Closed' = Closed \cup {c}
         /\ label # "done" => Closed' = Closed
BY DEF HTTPTypes, Goto, Closed

LEMMA ClientStepRefines ==
  ASSUME HTTPInv, NEW c \in Clients, ClientStep(c)
  PROVE  D!Save(c) \/ D!End(c) \/ UNCHANGED <<[d \in Clients |-> Content(d)], file, Closed, broken>>
<1> DEFINE content_ == [d \in Clients |-> Content(d)]
<1> SUFFICES D!Save(c) \/ D!End(c) \/ UNCHANGED <<content_, file, Closed, broken>>
  OBVIOUS
<1>1. HTTPTypes /\ Delivery(c) /\ Size(c) \in Nat
  BY SizeProperties DEF HTTPInv
<1>2. content_' = content_
  BY DEF ClientStep, Content
<1>3. content_[c] = Content(c)
  OBVIOUS
<1> HIDE DEF content_
<1>4. ASSUME NEW label, Goto(c, label), clientPC[c] \in {"write", "open", "first", "rest"},
             clientPC[c] = "rest" => CannotGoOn(c), UNCHANGED <<file, broken>>
      PROVE  D!End(c) \/ UNCHANGED <<content_, file, Closed, broken>>
  <2>1. CASE label = "done"
    <3>1. c \notin Closed /\ Closed' = Closed \cup {c}
      BY <1>1, <1>4, <2>1, ClosedChanges
    <3>2. c \in broken \/ file[c] \in {<<>>, Content(c)}
      BY <1>4, LeavesComplete
    <3> QED
      BY <1>2, <1>3, <1>4, <3>1, <3>2 DEF D!End, content_
  <2>2. CASE label # "done"
    <3>1. Closed' = Closed
      BY <1>1, <1>4, <2>2, ClosedChanges
    <3> QED
      BY <1>2, <1>4, <3>1
  <2> QED
    BY <2>1, <2>2
<1>5. ASSUME NEW n \in 1 .. Size(c), NEW m \in 0 .. Size(c), m < n,
             file[c] = Units(0, m), file' = [file EXCEPT ![c] = Units(0, n)],
             clientPC[c] # "done", Closed' = Closed, broken' = broken
      PROVE  D!Save(c)
  <2>1. c \notin Closed /\ m \in Nat /\ n \in Nat /\ n \in 0 .. Size(c)
    BY <1>1, <1>5 DEF Closed
  <2>2. Len(file[c]) = m /\ Len(Content(c)) = Size(c)
    BY <1>1, <1>5, <2>1, UnitsFromZero, ContentIsUnits
  <2>3. n \in Len(file[c]) + 1 .. Len(Content(c)) /\ SubSeq(Content(c), 1, n) = Units(0, n)
    BY <1>1, <1>5, <2>1, <2>2, ContentIsUnits
  <2> QED
    BY <1>2, <1>3, <1>5, <2>1, <2>3 DEF D!Save, content_
<1>6. CASE Write(c) \/ Open(c) \/ (CannotGoOn(c) /\ Leave(c))
  BY <1>4, <1>6 DEF Write, Open, Leave, content_
<1>7. ASSUME NEW k \in 1 .. Len(stream[c]), RecvFirst(c, k)
      PROVE  D!Save(c) \/ D!End(c) \/ UNCHANGED <<content_, file, Closed, broken>>
  <2>1. /\ k < HeaderLen => file' = file /\ clientPC'[c] = "done"
        /\ k >= HeaderLen => /\ clientPC'[c] = "rest"
                             /\ k - HeaderLen \in 0 .. position[c]
                             /\ file' = [file EXCEPT ![c] = Units(0, k - HeaderLen)]
    BY <1>7, RecvFirstDelivers DEF ClientStep
  <2>2. clientPC[c] = "first" /\ Goto(c, AfterFirst(k)) /\ broken' = broken
    BY <1>7 DEF RecvFirst, Received
  <2>3. CASE ~ (k >= HeaderLen)
    <3>1. k < HeaderLen
      <4>1. k \in Int /\ HeaderLen \in Int
        BY RequestsAssumption
      <4> QED
        BY <2>3, <4>1
    <3> QED
      BY <1>4, <2>1, <2>2, <3>1
  <2>4. CASE k >= HeaderLen
    <3> DEFINE n == k - HeaderLen
    <3>1. n \in 0 .. position[c] /\ file' = [file EXCEPT ![c] = Units(0, n)]
      BY <2>1, <2>4
    <3> HIDE DEF n
    <3>2. Closed' = Closed
      BY <1>1, <2>2, <2>4, ClosedChanges DEF AfterFirst
    <3>3. file[c] = <<>> /\ position[c] \in 0 .. Size(c) /\ Units(0, 0) = <<>>
      BY <1>1, <2>2, UnitsFromZero DEF Delivery
    <3>4. CASE n = 0
      <4>1. file' = file
        BY <1>1, <3>1, <3>3, <3>4 DEF HTTPTypes
      <4> QED
        BY <1>2, <2>2, <3>2, <4>1
    <3>5. CASE n # 0
      <4>1. n \in 1 .. Size(c) /\ 0 \in 0 .. Size(c) /\ 0 < n
        BY <1>1, <3>1, <3>3, <3>5
      <4> QED
        BY <1>5, <2>2, <3>1, <3>2, <3>3, <4>1
    <3> QED
      BY <3>4, <3>5
  <2> QED
    BY <2>3, <2>4
<1>8. ASSUME NEW k \in 1 .. Len(stream[c]), RecvRest(c, k)
      PROVE  D!Save(c)
  <2>1. clientPC' = clientPC /\ clientPC[c] = "rest"
    BY <1>8, RecvRestDelivers DEF ClientStep
  <2>2. PICK j \in 0 .. position[c] : /\ k \in 1 .. position[c] - j
                                      /\ file[c] = Units(0, j)
                                      /\ file' = [file EXCEPT ![c] = Units(0, j + k)]
    BY <1>8, RecvRestDelivers DEF ClientStep
  <2>3. Closed' = Closed /\ broken' = broken
    BY <1>8, <2>1 DEF Closed, RecvRest, Received
  <2>4. j \in 0 .. Size(c) /\ j + k \in 1 .. Size(c) /\ j < j + k
    BY <1>1, <2>2 DEF Delivery
  <2> QED
    BY <1>5, <2>1, <2>2, <2>3, <2>4
<1>9. CASE \E k \in 1 .. Len(stream[c]) : RecvFirst(c, k) \/ RecvRest(c, k)
  <2>1. PICK k \in 1 .. Len(stream[c]) : RecvFirst(c, k) \/ RecvRest(c, k)
    BY <1>9
  <2> QED
    BY <1>7, <1>8, <2>1
<1> QED
  BY <1>6, <1>9 DEF ClientStep

LEMMA InitRefines == Init => D!Init
<1> SUFFICES ASSUME Init PROVE D!Init
  OBVIOUS
<1>1. Closed = {}
  BY DEF Init, ConnectionsInit, Closed
<1> QED
  BY <1>1 DEF Init, ConnectionsInit, FileInit, D!Init

LEMMA StepRefines ==
  HTTPInv /\ [Next]_vars =>
    [D!Next]_<<[c \in Clients |-> Content(c)], file, Closed, broken>>
<1> SUFFICES ASSUME HTTPInv, [Next]_vars
             PROVE  \/ D!Next
                    \/ UNCHANGED <<[c \in Clients |-> Content(c)], file, Closed, broken>>
  OBVIOUS
<1>1. ASSUME NEW c \in Clients, Network(c)
      PROVE  D!Fail(c) \/ UNCHANGED <<[d \in Clients |-> Content(d)], file, Closed, broken>>
  <2>1. [d \in Clients |-> Content(d)]' = [d \in Clients |-> Content(d)] /\ file' = file
    BY <1>1 DEF Network, Content, requestVars
  <2>2. CASE Connect(c, "write")
    <3>1. Closed' = Closed /\ broken' = broken
      BY <2>2, ClosedChanges DEF Connect, HTTPInv
    <3> QED
      BY <2>1, <3>1
  <2>3. CASE Break(c)
    BY <2>1, <2>3 DEF Break, Closed, D!Fail
  <2> QED
    BY <1>1, <2>2, <2>3 DEF Network
<1>2. ASSUME NEW p \in Processes, ServerStep(p)
      PROVE  UNCHANGED <<[d \in Clients |-> Content(d)], file, Closed, broken>>
  <2>1. UNCHANGED <<length, file, clientPC, broken>>
    BY <1>2 DEF ServerStep, requestVars, Loop, Exit, Handler, Child, connectionVars
  <2> QED
    BY <2>1 DEF Content, Closed
<1>3. CASE UNCHANGED vars
  BY <1>3 DEF vars, connectionVars, requestVars, Content, Closed
<1> QED
  BY <1>1, <1>2, <1>3, ClientStepRefines DEF Next, D!Next

\* mp1's client and server, with answers cut in pieces, processes forked and
\* reaped and connections that fail, keep the promise of Download: a client
\* whose connection did not fail ends with all of the file or with nothing.
THEOREM Downloads == Spec => ImplementsDownload
BY HTTPInvAlways, InitRefines, StepRefines, PTL DEF Spec, ImplementsDownload, D!Spec

-----------------------------------------------------------------------------
(* FilePush: what the two printfs show                                     *)

\* The least element of a set of numbers.
Least(S) == CHOOSE i \in S : \A j \in S : i <= j

LEMMA LeastProperties ==
  ASSUME NEW S, S \subseteq Nat, S # {}
  PROVE  /\ Least(S) \in S
         /\ \A j \in S : Least(S) <= j
         /\ \A m \in S : (\A j \in S : m <= j) => Least(S) = m
<1>1. \E i \in S : \A j \in S : i <= j
  BY LeastElement
<1>2. Least(S) \in S /\ \A j \in S : Least(S) <= j
  BY <1>1 DEF Least
<1>3. ASSUME NEW m \in S, \A j \in S : m <= j PROVE Least(S) = m
  <2>1. Least(S) \in Nat /\ m \in Nat /\ Least(S) <= m /\ m <= Least(S)
    BY <1>2, <1>3
  <2> QED
    BY <2>1
<1> QED
  BY <1>2, <1>3

\* A text up to the first of some units.
LEMMA BeforeProperties ==
  ASSUME NEW s \in Seq(Int), NEW units
  PROVE  /\ (\A i \in 1 .. Len(s) : s[i] \notin units) => Before(s, units) = s
         /\ \A m \in 1 .. Len(s) :
              s[m] \in units /\ (\A i \in 1 .. m - 1 : s[i] \notin units) =>
                Before(s, units) = SubSeq(s, 1, m - 1)
         /\ \E n \in 0 .. Len(s) : Before(s, units) = SubSeq(s, 1, n)
<1> DEFINE found == {i \in 1 .. Len(s) : s[i] \in units}
<1>1. Len(s) \in Nat
  BY LenProperties
<1>2. found \subseteq Nat /\ found \subseteq 1 .. Len(s)
  BY <1>1
<1>3. found = {} <=> \A i \in 1 .. Len(s) : s[i] \notin units
  OBVIOUS
<1>4. Before(s, units) = IF found = {} THEN s ELSE SubSeq(s, 1, Least(found) - 1)
  BY DEF Before, Least
<1>5. ASSUME NEW m \in 1 .. Len(s), s[m] \in units, \A i \in 1 .. m - 1 : s[i] \notin units
      PROVE  m \in found /\ \A j \in found : m <= j
  BY <1>1, <1>5
<1> HIDE DEF found
<1>6. ASSUME NEW m \in 1 .. Len(s), s[m] \in units, \A i \in 1 .. m - 1 : s[i] \notin units
      PROVE  Before(s, units) = SubSeq(s, 1, m - 1)
  <2>1. m \in found /\ \A j \in found : m <= j
    BY <1>5, <1>6
  <2>2. found # {} /\ Least(found) = m
    BY <1>2, <2>1, LeastProperties
  <2> QED
    BY <1>4, <2>2
<1>7. \E n \in 0 .. Len(s) : Before(s, units) = SubSeq(s, 1, n)
  <2>1. CASE found = {}
    <3>1. SubSeq(s, 1, Len(s)) = s
      BY SubSeqFull
    <3>2. Len(s) \in 0 .. Len(s) /\ Before(s, units) = s
      BY <1>1, <1>4, <2>1
    <3> QED
      BY <3>1, <3>2
  <2>2. CASE found # {}
    <3>1. Least(found) \in 1 .. Len(s)
      BY <1>2, <2>2, LeastProperties
    <3>2. Least(found) - 1 \in 0 .. Len(s)
      BY <1>1, <3>1
    <3> QED
      BY <1>4, <2>2, <3>2
  <2> QED
    BY <2>1, <2>2
<1> QED
  BY <1>3, <1>4, <1>6, <1>7

LEMMA PrefixProperties ==
  ASSUME NEW S, NEW s \in Seq(S), NEW n \in 0 .. Len(s)
  PROVE  /\ SubSeq(s, 1, n) \in Seq(S)
         /\ Len(SubSeq(s, 1, n)) = n
         /\ \A i \in 1 .. n : SubSeq(s, 1, n)[i] = s[i]
<1>1. Len(s) \in Nat /\ n \in Nat /\ n <= Len(s)
  BY LenProperties
<1>2. 1 \in Int /\ n \in Int /\ \A i \in 1 .. n : s[i] \in S
  BY <1>1, ElementOfSeq
<1>3. /\ SubSeq(s, 1, n) \in Seq(S)
      /\ Len(SubSeq(s, 1, n)) = IF 1 <= n THEN n - 1 + 1 ELSE 0
      /\ \A i \in 1 .. n - 1 + 1 : SubSeq(s, 1, n)[i] = s[1 + i - 1]
  BY <1>2, SubSeqProperties
<1>4. n - 1 + 1 = n /\ (1 <= n \/ n = 0) /\ \A i \in 1 .. n : 1 + i - 1 = i
  BY <1>1
<1> QED
  BY <1>3, <1>4

LEMMA ConsProperties ==
  ASSUME NEW S, NEW e \in S, NEW s \in Seq(S)
  PROVE  /\ <<e>> \o s \in Seq(S)
         /\ Len(<<e>> \o s) = 1 + Len(s)
         /\ (<<e>> \o s)[1] = e
         /\ \A i \in 1 .. Len(s) : (<<e>> \o s)[i + 1] = s[i]
         /\ Head(<<e>> \o s) = e
         /\ Tail(<<e>> \o s) = s
<1> DEFINE h == <<e>>
           x == h \o s
<1>1. h \in Seq(S) /\ Len(h) = 1 /\ h[1] = e
  OBVIOUS
<1>2. Len(s) \in Nat
  BY LenProperties
<1> HIDE DEF h
<1>3. /\ x \in Seq(S) /\ Len(x) = Len(h) + Len(s)
      /\ \A i \in 1 .. Len(h) + Len(s) : x[i] = IF i <= Len(h) THEN h[i] ELSE s[i - Len(h)]
  BY <1>1, ConcatProperties
<1> HIDE DEF x
<1>4. Len(x) = 1 + Len(s) /\ x[1] = e
  BY <1>1, <1>2, <1>3
<1>5. ASSUME NEW i \in 1 .. Len(s) PROVE x[i + 1] = s[i]
  <2>1. i + 1 \in 1 .. Len(h) + Len(s) /\ ~ (i + 1 <= Len(h)) /\ i + 1 - Len(h) = i
    BY <1>1, <1>2
  <2> QED
    BY <1>3, <2>1
<1>6. x # <<>>
  BY <1>2, <1>4
<1>7. Head(x) = x[1]
  BY <1>3, <1>6
<1>8. Tail(x) \in Seq(S) /\ Len(Tail(x)) = Len(s) /\ \A i \in 1 .. Len(s) : Tail(x)[i] = s[i]
  <2>1. /\ Tail(x) \in Seq(S) /\ Len(Tail(x)) = Len(x) - 1
        /\ \A i \in 1 .. Len(Tail(x)) : Tail(x)[i] = x[i + 1]
    BY <1>3, <1>6, HeadTailProperties
  <2>2. Len(Tail(x)) = Len(s)
    BY <1>2, <1>4, <2>1
  <2> QED
    BY <1>5, <2>1, <2>2
<1>9. Tail(x) = s
  BY <1>8, SeqEqual
<1> QED
  BY <1>3, <1>4, <1>5, <1>7, <1>9 DEF x, h

\* The answer of the server: the length, three newlines and the text up to a NUL.
LEMMA ResultProperties ==
  ASSUME content \in Contents
  PROVE  \E n \in Nat :
           /\ Before(content, {NUL}) \in Seq(Int) /\ Len(Before(content, {NUL})) = n
           /\ Result \in Seq(Int) /\ Len(Result) = 4 + n
           /\ Number(Len(content)) \in Int /\ Number(Len(content)) # NEWLINE
           /\ Result[1] = Number(Len(content))
           /\ Result[2] = NEWLINE /\ Result[3] = NEWLINE /\ Result[4] = NEWLINE
           /\ \A i \in 1 .. n : Result[4 + i] = Before(content, {NUL})[i]
<1> DEFINE h == <<Number(Len(content)), NEWLINE, NEWLINE, NEWLINE>>
           b == Before(content, {NUL})
<1>1. content \in Seq(Int) /\ Len(content) \in Nat
  BY FilePushAssumption
<1>2. Number(Len(content)) \in Int /\ Number(Len(content)) # NEWLINE /\ NEWLINE \in Int
  BY <1>1 DEF Number, NEWLINE
<1>3. PICK n \in 0 .. Len(content) : b = SubSeq(content, 1, n)
  BY <1>1, BeforeProperties
<1>4. n \in Nat /\ b \in Seq(Int) /\ Len(b) = n
  <2>1. n \in Nat
    BY <1>1
  <2>2. SubSeq(content, 1, n) \in Seq(Int) /\ Len(SubSeq(content, 1, n)) = n
    BY <1>1, PrefixProperties
  <2> HIDE DEF b
  <2> QED
    BY <1>3, <2>1, <2>2
<1>5. h \in Seq(Int) /\ Len(h) = 4
  BY <1>2
<1>6. h[1] = Number(Len(content)) /\ h[2] = NEWLINE /\ h[3] = NEWLINE /\ h[4] = NEWLINE
  OBVIOUS
<1>7. Result = h \o b
  BY DEF Result
<1> HIDE DEF h, b
<1>8. /\ Result \in Seq(Int) /\ Len(Result) = Len(h) + Len(b)
      /\ \A i \in 1 .. Len(h) + Len(b) : Result[i] = IF i <= Len(h) THEN h[i] ELSE b[i - Len(h)]
  BY <1>4, <1>5, <1>7, ConcatProperties
<1>9. /\ Len(Result) = 4 + n
      /\ \A i \in 1 .. 4 + n : Result[i] = IF i <= 4 THEN h[i] ELSE b[i - 4]
  BY <1>4, <1>5, <1>8
<1>10. ASSUME NEW i \in 1 .. n PROVE Result[4 + i] = b[i]
  <2>1. 4 + i \in 1 .. 4 + n /\ ~ (4 + i <= 4) /\ 4 + i - 4 = i
    BY <1>4
  <2> QED
    BY <1>9, <2>1
<1>11. Result[1] = h[1] /\ Result[2] = h[2] /\ Result[3] = h[3] /\ Result[4] = h[4]
  BY <1>4, <1>9
<1> QED
  BY <1>2, <1>4, <1>6, <1>8, <1>9, <1>10, <1>11 DEF b

\* Of a piece that reaches behind the second newline a client shows the length and
\* what follows that newline.
LEMMA ShownPiece ==
  ASSUME content \in Contents, NEW k \in 3 .. Len(Result)
  PROVE  /\ Shown(SubSeq(Result, 1, k)) = <<Number(Len(content))>> \o SubSeq(Result, 4, k)
         /\ SubSeq(Result, 4, k) \in Seq(Int) /\ Len(SubSeq(Result, 4, k)) = k - 3
         /\ \A i \in 1 .. k - 3 : SubSeq(Result, 4, k)[i] = Result[3 + i]
<1> DEFINE p == SubSeq(Result, 1, k)
           num == Number(Len(content))
           t == SubSeq(Result, 4, k)
<1>1. PICK n \in Nat :
        /\ Result \in Seq(Int) /\ Len(Result) = 4 + n
        /\ num \in Int /\ num # NEWLINE
        /\ Result[1] = num /\ Result[2] = NEWLINE
  BY ResultProperties
<1> HIDE DEF num
<1>2. k \in Nat /\ k >= 3 /\ k <= 4 + n
  BY <1>1
<1>3. p \in Seq(Int) /\ Len(p) = k /\ \A i \in 1 .. k : p[i] = Result[i]
  <2>1. k \in 0 .. Len(Result)
    BY <1>1, <1>2
  <2> QED
    BY <1>1, <2>1, PrefixProperties
<1>4. \A i \in 1 .. k : Result[i] \in Int
  BY <1>1, <1>2, ElementOfSeq
<1>5. /\ t \in Seq(Int) /\ Len(t) = k - 3
      /\ \A i \in 1 .. k - 3 : t[i] = Result[3 + i]
  <2>1. 4 \in Int /\ k \in Int /\ \A i \in 4 .. k : Result[i] \in Int
    BY <1>2, <1>4
  <2>2. /\ t \in Seq(Int) /\ Len(t) = IF 4 <= k THEN k - 4 + 1 ELSE 0
        /\ \A i \in 1 .. k - 4 + 1 : t[i] = Result[4 + i - 1]
    BY <2>1, SubSeqProperties
  <2>3. k - 4 + 1 = k - 3 /\ (4 <= k \/ k - 3 = 0)
    BY <1>2
  <2>4. \A i \in 1 .. k - 3 : 4 + i - 1 = 3 + i
    BY <1>2
  <2> QED
    BY <2>2, <2>3, <2>4
<1>6. SubSeq(p, 4, k) = t
  <2>1. /\ SubSeq(p, 4, k) \in Seq(Int) /\ Len(SubSeq(p, 4, k)) = k - 3
        /\ \A i \in 1 .. k - 3 : SubSeq(p, 4, k)[i] = Result[3 + i]
    <3>1. 4 \in Int /\ k \in Int /\ \A i \in 4 .. k : p[i] \in Int
      BY <1>2, <1>3, <1>4
    <3>2. /\ SubSeq(p, 4, k) \in Seq(Int)
          /\ Len(SubSeq(p, 4, k)) = IF 4 <= k THEN k - 4 + 1 ELSE 0
          /\ \A i \in 1 .. k - 4 + 1 : SubSeq(p, 4, k)[i] = p[4 + i - 1]
      BY <3>1, SubSeqProperties
    <3>3. k - 4 + 1 = k - 3 /\ (4 <= k \/ k - 3 = 0)
      BY <1>2
    <3>4. \A i \in 1 .. k - 3 : 4 + i - 1 = 3 + i /\ 3 + i \in 1 .. k
      BY <1>2
    <3> QED
      BY <1>3, <3>2, <3>3, <3>4
  <2> QED
    BY <1>5, <2>1, SeqEqual
<1> HIDE DEF p, t
<1>7. Before(p, {NEWLINE}) = SubSeq(p, 1, 1)
  <2>1. 2 \in 1 .. Len(p) /\ p[2] \in {NEWLINE} /\ \A i \in 1 .. 2 - 1 : p[i] \notin {NEWLINE}
    BY <1>1, <1>2, <1>3
  <2>2. Before(p, {NEWLINE}) = SubSeq(p, 1, 2 - 1)
    BY <1>3, <2>1, BeforeProperties
  <2> QED
    BY <2>2
<1>8. SubSeq(p, 1, 1) = <<num>> /\ Len(SubSeq(p, 1, 1)) = 1
  <2>1. 1 \in 0 .. Len(p)
    BY <1>2, <1>3
  <2>2. /\ SubSeq(p, 1, 1) \in Seq(Int) /\ Len(SubSeq(p, 1, 1)) = 1
        /\ \A i \in 1 .. 1 : SubSeq(p, 1, 1)[i] = p[i]
    BY <1>3, <2>1, PrefixProperties
  <2>3. p[1] = num
    BY <1>1, <1>2, <1>3
  <2>4. <<num>> \in Seq(Int) /\ Len(<<num>>) = 1 /\ \A i \in 1 .. 1 : <<num>>[i] = num
    BY <1>1
  <2>5. \A i \in 1 .. 1 : SubSeq(p, 1, 1)[i] = <<num>>[i]
    BY <2>2, <2>3, <2>4
  <2> QED
    BY <2>2, <2>4, <2>5, SeqEqual
<1>9. Shown(p) = <<num>> \o t
  <2>1. Len(Before(p, {NEWLINE})) = 1 /\ 1 # Len(p) /\ 1 + 1 # Len(p) /\ Len(p) = k
    BY <1>2, <1>3, <1>7, <1>8
  <2>2. Shown(p) = SubSeq(p, 1, 1) \o SubSeq(p, 1 + 3, k)
    BY <2>1 DEF Shown
  <2>3. 1 + 3 = 4
    OBVIOUS
  <2> QED
    BY <1>6, <1>8, <2>2, <2>3
<1> QED
  BY <1>5, <1>9 DEF p, num, t

\* That and the rest of the answer are the length and the text.
LEMMA ShownAndLeft ==
  ASSUME content \in Contents, NEW k \in 3 .. Len(Result)
  PROVE  Shown(SubSeq(Result, 1, k)) \o SubSeq(Result, k + 1, Len(Result)) =
           <<Number(Len(content)), NEWLINE>> \o Before(content, {NUL})
<1> DEFINE num == Number(Len(content))
           b == Before(content, {NUL})
           t == SubSeq(Result, 4, k)
           r == SubSeq(Result, k + 1, Len(Result))
           h == <<num, NEWLINE>>
           x == <<num>> \o t
           y == x \o r
           z == h \o b
<1>1. PICK n \in Nat :
        /\ b \in Seq(Int) /\ Len(b) = n
        /\ Result \in Seq(Int) /\ Len(Result) = 4 + n
        /\ num \in Int /\ Result[4] = NEWLINE
        /\ \A i \in 1 .. n : Result[4 + i] = b[i]
  BY ResultProperties
<1>2. /\ Shown(SubSeq(Result, 1, k)) = x
      /\ t \in Seq(Int) /\ Len(t) = k - 3
      /\ \A i \in 1 .. k - 3 : t[i] = Result[3 + i]
  BY ShownPiece
<1>3. k \in Nat /\ k >= 3 /\ k <= 4 + n
  BY <1>1
<1>4. /\ r \in Seq(Int) /\ Len(r) = 4 + n - k
      /\ \A i \in 1 .. 4 + n - k : r[i] = Result[k + i]
  <2>1. k + 1 \in Int /\ 4 + n \in Int /\ \A i \in k + 1 .. 4 + n : Result[i] \in Int
    <3>1. \A i \in k + 1 .. 4 + n : i \in 1 .. Len(Result)
      BY <1>1, <1>3
    <3> QED
      BY <1>1, <1>3, <3>1, ElementOfSeq
  <2>2. /\ SubSeq(Result, k + 1, 4 + n) \in Seq(Int)
        /\ Len(SubSeq(Result, k + 1, 4 + n)) =
             IF k + 1 <= 4 + n THEN (4 + n) - (k + 1) + 1 ELSE 0
        /\ \A i \in 1 .. (4 + n) - (k + 1) + 1 :
             SubSeq(Result, k + 1, 4 + n)[i] = Result[(k + 1) + i - 1]
    BY <2>1, SubSeqProperties
  <2>3. (4 + n) - (k + 1) + 1 = 4 + n - k /\ (k + 1 <= 4 + n \/ 4 + n - k = 0)
    BY <1>3
  <2>4. \A i \in 1 .. 4 + n - k : (k + 1) + i - 1 = k + i
    BY <1>3
  <2> QED
    BY <1>1, <2>2, <2>3, <2>4
<1>5. NEWLINE \in Int
  BY DEF NEWLINE
<1> HIDE DEF num, b, t, r
<1>6. /\ x \in Seq(Int) /\ Len(x) = k - 2 /\ x[1] = num
      /\ \A i \in 1 .. k - 3 : x[i + 1] = t[i]
  <2>1. /\ x \in Seq(Int) /\ Len(x) = 1 + Len(t) /\ x[1] = num
        /\ \A i \in 1 .. Len(t) : x[i + 1] = t[i]
    BY <1>1, <1>2, ConsProperties
  <2>2. 1 + Len(t) = k - 2
    BY <1>2, <1>3
  <2> QED
    BY <1>2, <2>1, <2>2
<1>7. \A i \in 2 .. k - 2 : x[i] = Result[2 + i]
  <2> TAKE i \in 2 .. k - 2
  <2> DEFINE j == i - 1
  <2>1. j \in 1 .. k - 3 /\ i = j + 1 /\ 2 + i = 3 + j
    BY <1>3
  <2> HIDE DEF j
  <2> QED
    BY <1>2, <1>6, <2>1
<1> HIDE DEF x
<1>8. /\ y \in Seq(Int) /\ Len(y) = n + 2
      /\ \A i \in 1 .. n + 2 : y[i] = IF i <= k - 2 THEN x[i] ELSE r[i - (k - 2)]
  <2>1. /\ y \in Seq(Int) /\ Len(y) = Len(x) + Len(r)
        /\ \A i \in 1 .. Len(x) + Len(r) : y[i] = IF i <= Len(x) THEN x[i] ELSE r[i - Len(x)]
    BY <1>4, <1>6, ConcatProperties
  <2>2. Len(x) + Len(r) = n + 2
    BY <1>3, <1>4, <1>6
  <2> QED
    BY <1>6, <2>1, <2>2
<1>9. \A i \in 2 .. n + 2 : y[i] = Result[2 + i]
  <2> TAKE i \in 2 .. n + 2
  <2>1. i \in 1 .. n + 2
    OBVIOUS
  <2>2. CASE i <= k - 2
    <3>1. i \in 2 .. k - 2
      BY <1>3, <2>2
    <3> QED
      BY <1>7, <1>8, <2>1, <2>2, <3>1
  <2>3. CASE ~ (i <= k - 2)
    <3> DEFINE j == i - (k - 2)
    <3>1. j \in 1 .. 4 + n - k /\ k + j = 2 + i
      BY <1>3, <2>3
    <3>2. y[i] = r[j]
      BY <1>8, <2>1, <2>3
    <3> HIDE DEF j
    <3> QED
      BY <1>4, <3>1, <3>2
  <2> QED
    BY <2>2, <2>3
<1>10. h \in Seq(Int) /\ Len(h) = 2 /\ h[1] = num /\ h[2] = NEWLINE
  BY <1>1, <1>5
<1> HIDE DEF h, y
<1>11. /\ z \in Seq(Int) /\ Len(z) = n + 2
       /\ \A i \in 1 .. n + 2 : z[i] = IF i <= 2 THEN h[i] ELSE b[i - 2]
  <2>1. /\ z \in Seq(Int) /\ Len(z) = Len(h) + Len(b)
        /\ \A i \in 1 .. Len(h) + Len(b) : z[i] = IF i <= Len(h) THEN h[i] ELSE b[i - Len(h)]
    BY <1>1, <1>10, ConcatProperties
  <2>2. Len(h) + Len(b) = n + 2
    BY <1>1, <1>10
  <2> QED
    BY <1>10, <2>1, <2>2
<1> HIDE DEF z
<1>12. ASSUME NEW i \in 1 .. n + 2 PROVE y[i] = z[i]
  <2>1. CASE i = 1
    <3>1. y[1] = x[1]
      BY <1>3, <1>8, <2>1
    <3>2. z[1] = h[1]
      BY <1>11, <2>1
    <3> QED
      BY <1>6, <1>10, <2>1, <3>1, <3>2
  <2>2. CASE i = 2
    <3>1. y[2] = Result[4]
      BY <1>9, <2>2
    <3>2. z[2] = h[2]
      BY <1>11, <2>2
    <3> QED
      BY <1>1, <1>10, <2>2, <3>1, <3>2
  <2>3. CASE i > 2
    <3> DEFINE j == i - 2
    <3>1. j \in 1 .. n /\ 2 + i = 4 + j /\ i \in 2 .. n + 2
      BY <2>3
    <3>2. z[i] = b[j]
      BY <1>11, <2>3
    <3> HIDE DEF j
    <3> QED
      BY <1>1, <1>9, <3>1, <3>2
  <2> QED
    BY <2>1, <2>2, <2>3
<1>13. y = z
  BY <1>8, <1>11, <1>12, SeqEqual
<1> QED
  BY <1>2, <1>13 DEF y, z, h, b, num, r

-----------------------------------------------------------------------------
(* FilePush: the theorems                                                  *)

\* What a client printed of a piece of k units, and what it left.
ShownWhole(k, text, left) ==
  k >= 3 => text \o left = <<Number(Len(content)), NEWLINE>> \o Before(content, {NUL})

\* Nothing is sent before the child has come to its send, and until the client
\* receives, all or nothing of the answer is on its way.
PushDelivery(c) ==
  /\ pc[c] \in {"none", "child"} => stream[c] = <<>> /\ numbytes[c] <= 0
  /\ clientPC[c] # "done" => numbytes[c] = 0 /\ stream[c] \in {<<>>, Result}
  /\ ShownWhole(numbytes[c], printed[c], stream[c])

PushInv ==
  /\ ServerInv
  /\ content \in Contents
  /\ clientPC \in [Clients -> {"connect", "recv", "done"}]
  /\ DOMAIN stream = Clients /\ DOMAIN printed = Clients /\ numbytes \in [Clients -> Int]
  /\ \A c \in Clients : PushDelivery(c)

LEMMA PushInitInv == PushInit => PushInv
<1> SUFFICES ASSUME PushInit PROVE PushInv
  OBVIOUS
<1>1. ServerInv
  BY ServerInitInv DEF PushInit
<1>2. /\ content \in Contents /\ clientPC = [c \in Clients |-> "connect"]
      /\ stream = [c \in Clients |-> <<>>] /\ printed = [c \in Clients |-> <<>>]
      /\ numbytes = [c \in Clients |-> 0]
  BY DEF PushInit, ConnectionsInit
<1>3. \A c \in Clients : PushDelivery(c)
  BY <1>2 DEF PushDelivery, ShownWhole
<1> QED
  BY <1>1, <1>2, <1>3 DEF PushInv

LEMMA PushFrame ==
  ASSUME NEW c \in Clients, PushDelivery(c), content' = content,
         printed'[c] = printed[c], stream'[c] = stream[c], numbytes'[c] = numbytes[c],
         clientPC[c] = "done" => clientPC'[c] = "done",
         pc'[c] \in {"none", "child"} => pc[c] \in {"none", "child"}
  PROVE  PushDelivery(c)'
<1>1. Result' = Result
  BY DEF Result, Before
<1>2. ShownWhole(numbytes[c], printed[c], stream[c])'
  BY DEF PushDelivery, ShownWhole, Before
<1> QED
  BY <1>1, <1>2 DEF PushDelivery

LEMMA PushClientInv ==
  ASSUME PushInv, NEW c \in Clients, PushClient(c)
  PROVE  PushInv'
<1>1. clientPC[c] = "recv" /\ Goto(c, "done") /\ UNCHANGED <<processVars, content, backlog, broken>>
  BY DEF PushClient, Recv, RecvNothing, Received
<1>2. ServerInv'
  <2>1. ClientMoves(c)
    BY <1>1 DEF ClientMoves
  <2> QED
    BY <2>1, ClientMovesInv DEF PushInv
<1>3. /\ DOMAIN clientPC = Clients /\ DOMAIN stream = Clients /\ DOMAIN printed = Clients
      /\ numbytes \in [Clients -> Int] /\ PushDelivery(c) /\ content \in Contents /\ pc' = pc
  BY <1>1 DEF PushInv, processVars
<1>4. clientPC' = [clientPC EXCEPT ![c] = "done"]
  BY <1>1 DEF Goto
<1>5. CASE \E k \in 1 .. Len(stream[c]) : Recv(c, k)
  <2>1. PICK k \in 1 .. Len(stream[c]) : Recv(c, k)
    BY <1>5
  <2>2. /\ printed' = [printed EXCEPT ![c] = Shown(SubSeq(stream[c], 1, k))]
        /\ stream' = [stream EXCEPT ![c] = SubSeq(@, k + 1, Len(@))]
        /\ numbytes' = [numbytes EXCEPT ![c] = k]
    BY <2>1 DEF Recv, Received
  <2>3. stream[c] = Result /\ pc[c] \notin {"none", "child"}
    <3>1. Len(<<>>) = 0
      OBVIOUS
    <3>2. stream[c] # <<>>
      BY <2>1, <3>1
    <3> QED
      BY <1>1, <1>3, <3>2 DEF PushDelivery
  <2>4. /\ numbytes'[c] = k /\ printed'[c] = Shown(SubSeq(Result, 1, k))
        /\ stream'[c] = SubSeq(Result, k + 1, Len(Result)) /\ k \in 1 .. Len(Result)
    BY <1>3, <2>1, <2>2, <2>3
  <2>5. ShownWhole(numbytes'[c], printed'[c], stream'[c])
    <3>1. CASE k >= 3
      <4>1. k \in 3 .. Len(Result)
        BY <2>4, <3>1
      <4> QED
        <5>1. Shown(SubSeq(Result, 1, k)) \o SubSeq(Result, k + 1, Len(Result)) =
                <<Number(Len(content)), NEWLINE>> \o Before(content, {NUL})
          BY <1>3, <4>1, ShownAndLeft
        <5>2. printed'[c] \o stream'[c] =
                <<Number(Len(content)), NEWLINE>> \o Before(content, {NUL})
          BY <2>4, <5>1, Zenon
        <5> QED
          BY <5>2, Zenon DEF ShownWhole
    <3> QED
      BY <2>4, <3>1 DEF ShownWhole
  <2>6. PushDelivery(c)'
    <3>1. ShownWhole(numbytes[c], printed[c], stream[c])'
      BY <1>1, <2>5 DEF ShownWhole, Before
    <3>2. clientPC'[c] = "done"
      BY <1>3, <1>4
    <3> QED
      BY <1>3, <2>3, <3>1, <3>2 DEF PushDelivery
  <2>7. ASSUME NEW d \in Clients \ {c} PROVE PushDelivery(d)'
    BY <1>1, <1>3, <1>4, <2>2, PushFrame DEF PushInv
  <2>8. numbytes' \in [Clients -> Int]
    BY <1>3, <2>1, <2>2
  <2> QED
    BY <1>1, <1>2, <1>4, <2>2, <2>6, <2>7, <2>8 DEF PushInv
<1>6. CASE RecvNothing(c)
  <2>1. stream' = stream
    BY <1>6 DEF RecvNothing
  <2>2. /\ printed' = printed \/ printed' = [printed EXCEPT ![c] = Shown(<<>>)]
        /\ \E k \in {0, -1} : numbytes' = [numbytes EXCEPT ![c] = k]
    BY <1>6 DEF RecvNothing
  <2>3. /\ DOMAIN printed' = Clients /\ numbytes' \in [Clients -> Int] /\ numbytes'[c] \in {0, -1}
        /\ \A d \in Clients \ {c} : printed'[d] = printed[d] /\ numbytes'[d] = numbytes[d]
    BY <1>3, <2>2
  <2>4. PushDelivery(c)'
    <3>1. ShownWhole(numbytes[c], printed[c], stream[c])'
      BY <2>3 DEF ShownWhole
    <3>2. clientPC'[c] = "done"
      BY <1>3, <1>4
    <3>3. numbytes'[c] <= 0
      BY <2>3
    <3> QED
      BY <1>3, <2>1, <3>1, <3>2, <3>3 DEF PushDelivery
  <2>5. ASSUME NEW d \in Clients \ {c} PROVE PushDelivery(d)'
    BY <1>1, <1>3, <1>4, <2>1, <2>3, PushFrame DEF PushInv
  <2> QED
    BY <1>1, <1>2, <1>4, <2>1, <2>3, <2>4, <2>5 DEF PushInv
<1> QED
  BY <1>5, <1>6 DEF PushClient

LEMMA PushNetworkInv ==
  ASSUME PushInv, NEW c \in Clients, PushNetwork(c)
  PROVE  PushInv'
<1>1. UNCHANGED <<processVars, content, numbytes, printed, stream>>
  BY DEF PushNetwork, Connect, Break
<1>2. ServerInv'
  BY <1>1, ConnectInv, BreakInv DEF PushNetwork, PushInv
<1>3. clientPC' = clientPC \/ (clientPC[c] = "connect" /\ clientPC' = [clientPC EXCEPT ![c] = "recv"])
  BY DEF PushNetwork, Connect, Break, Goto
<1>4. /\ clientPC' \in [Clients -> {"connect", "recv", "done"}]
      /\ \A d \in Clients : clientPC[d] = "done" => clientPC'[d] = "done"
  BY <1>3 DEF PushInv
<1>5. ASSUME NEW d \in Clients PROVE PushDelivery(d)'
  BY <1>1, <1>4, PushFrame DEF PushInv, processVars
<1> QED
  BY <1>1, <1>2, <1>4, <1>5 DEF PushInv

LEMMA PushServerInv ==
  ASSUME PushInv, NEW p \in Processes, PushServer(p)
  PROVE  PushInv'
<1> USE MainIsNoClient
<1>1. UNCHANGED <<content, numbytes, printed>> /\ ServerInv /\ TypesOK /\ MainOK /\ ChildrenOK
  BY DEF PushServer, PushInv, ServerInv
<1>2. CASE Loop(p) \/ Exit(p) \/ Handler(p)
  <2>1. ServerInv'
    BY <1>1, <1>2, LoopInv, ExitInv, HandlerInv
  <2>2. UNCHANGED <<clientPC, stream>>
    BY <1>2 DEF Loop, Exit, Handler, connectionVars
  <2>3. ASSUME NEW d \in Clients
        PROVE  pc'[d] \in {"none", "child"} => pc[d] \in {"none", "child"}
    <3>1. CASE Fork(p)
      <4>1. p = Main
        BY <1>1, <3>1 DEF Fork, ChildrenOK, Processes
      <4>2. pc' = [pc EXCEPT ![Main] = "close", ![newFd[Main]] = "child"]
            /\ pc[newFd[Main]] = "none"
        BY <1>1, <3>1, <4>1 DEF Fork, MainOK
      <4> QED
        BY <1>1, <4>2 DEF TypesOK
    <3>2. CASE ~ Fork(p)
      <4>1. \E q \in Processes, to \in {"fork", "close", "accept", "zombie", "gone"} :
              pc' = pc \/ pc' = [pc EXCEPT ![q] = to]
        <5>1. CASE Handler(p)
          BY <1>1, <5>1 DEF Handler, Signal, EndHandler, Reap, DeadChildren
        <5>2. CASE ~ Handler(p)
          BY <1>2, <3>2, <5>2 DEF Loop, Accept, ForkFails, Close, Exit, Step
        <5> QED
          BY <5>1, <5>2
      <4> QED
        BY <1>1, <4>1 DEF TypesOK
    <3> QED
      BY <3>1, <3>2
  <2>4. \A d \in Clients : PushDelivery(d)'
    BY <1>1, <2>2, <2>3, PushFrame DEF PushInv
  <2> QED
    BY <1>1, <2>1, <2>2, <2>4 DEF PushInv
<1>3. CASE PushChild(p)
  <2>1. /\ p \in Clients /\ pc[p] = "child" /\ pc' = [pc EXCEPT ![p] = "exit"]
        /\ UNCHANGED <<parent, fdVars, signalVars, clientPC, backlog, broken>>
        /\ stream' = stream \/ stream' = [stream EXCEPT ![p] = @ \o Result]
    BY <1>3 DEF PushChild, Step, AfterSend, Sent
  <2>2. ServerInv'
    <3>1. ChildMoves(p)
      BY <2>1 DEF ChildMoves, AtWork
    <3> QED
      BY <1>1, <2>1, <3>1, ChildMovesInv
  <2>3. /\ DOMAIN stream = Clients /\ PushDelivery(p) /\ content \in Contents
    BY <2>1 DEF PushInv
  <2>4. stream[p] = <<>>
    BY <2>1, <2>3 DEF PushDelivery
  <2>5. <<>> \o Result = Result
    <3>1. Result \in Seq(Int)
      BY <2>3, ResultProperties
    <3> QED
      BY <3>1, ConcatEmptySeq
  <2>6. /\ stream'[p] \in {<<>>, Result} /\ DOMAIN stream' = Clients
        /\ \A d \in Clients \ {p} : stream'[d] = stream[d]
    BY <2>1, <2>3, <2>4, <2>5
  <2>7. pc'[p] = "exit" /\ \A d \in Clients \ {p} : pc'[d] = pc[d]
    BY <1>1, <2>1 DEF TypesOK
  <2>8. PushDelivery(p)'
    <3>1. Result' = Result
      BY <1>1 DEF Result, Before
    <3>2. numbytes'[p] = numbytes[p] /\ numbytes[p] <= 0 /\ numbytes[p] \in Int
      BY <1>1, <2>1, <2>3 DEF PushDelivery, PushInv
    <3>3. ShownWhole(numbytes[p], printed[p], stream[p])'
      BY <3>2 DEF ShownWhole
    <3> QED
      BY <1>1, <2>1, <2>3, <2>6, <2>7, <3>1, <3>2, <3>3 DEF PushDelivery
  <2>9. ASSUME NEW d \in Clients \ {p} PROVE PushDelivery(d)'
    BY <1>1, <2>1, <2>6, <2>7, PushFrame DEF PushInv
  <2> QED
    BY <1>1, <2>1, <2>2, <2>6, <2>8, <2>9 DEF PushInv
<1> QED
  BY <1>2, <1>3 DEF PushServer

LEMMA PushStepInv == PushInv /\ [PushNext]_pushVars => PushInv'
<1> SUFFICES ASSUME PushInv, [PushNext]_pushVars PROVE PushInv'
  OBVIOUS
<1>1. CASE PushNext
  BY <1>1, PushClientInv, PushNetworkInv, PushServerInv DEF PushNext
<1>2. CASE UNCHANGED pushVars
  <2>1. UNCHANGED <<clientPC, backlog, stream, broken, pc, parent, listening, sockets, newFd,
                    signalled, handling, content, numbytes, printed>>
    BY <1>2 DEF pushVars, connectionVars, processVars, fdVars, signalVars
  <2>2. TypesOK' /\ BacklogOK' /\ MainOK'
    BY <2>1 DEF PushInv, ServerInv, TypesOK, BacklogOK, MainOK
  <2>3. ChildrenOK' /\ DeadChildrenAnnounced'
    BY <2>1 DEF PushInv, ServerInv, ChildrenOK, DeadChildrenAnnounced
  <2>4. \A d \in Clients : PushDelivery(d)'
    BY <2>1, PushFrame DEF PushInv
  <2> QED
    BY <2>1, <2>2, <2>3, <2>4 DEF PushInv, ServerInv
<1> QED
  BY <1>1, <1>2

LEMMA PushInvAlways == PushSpec => []PushInv
BY PushInitInv, PushStepInv, PTL DEF PushSpec

\* In mp0 a piece of the answer that reaches behind its second newline is shown
\* without loss, however long it is: with what the client leaves unread it makes up
\* the length, a newline and the file up to its first NUL.
THEOREM PushPrints == PushSpec => []PrintsWhatArrives
<1>1. PushInv => PrintsWhatArrives
  BY DEF PushInv, PushDelivery, ShownWhole, PrintsWhatArrives
<1> QED
  BY <1>1, PushInvAlways, PTL

\* mp0's server leaves no descriptor of a connection open, in no process.
THEOREM PushNoSocketLeaks == PushSpec => []NoSocketLeaks
<1>1. PushInv => NoSocketLeaks
  BY ServerInvSafe DEF PushInv
<1> QED
  BY <1>1, PushInvAlways, PTL

\* In mp0 no dead child waits for a SIGCHLD that was merged with another, and
\* every child is one of the main process.
THEOREM PushDeadChildrenAnnounced == PushSpec => [](DeadChildrenAnnounced /\ OnlyMainServes)
<1>1. PushInv => DeadChildrenAnnounced /\ OnlyMainServes
  BY ServerInvSafe DEF PushInv
<1> QED
  BY <1>1, PushInvAlways, PTL
=============================================================================
