--------------------------- MODULE ForkingServer ----------------------------
(***************************************************************************)
(* What the servers of mp0 and mp1 have in common: the main process        *)
(* accepts connections and forks a child for each.  The processes share    *)
(* one program, so that a child could come back to accept.  SIGCHLD is a   *)
(* flag per process, so signals merge, and its handler interrupts the      *)
(* process anywhere.  The child of a connection has the connection's name, *)
(* starts at the label "child" and ends at "exit"; what it does between is *)
(* up to the module that extends this one.                                 *)
(***************************************************************************)
EXTENDS Connections

CONSTANT Main       \* the first process

ASSUME ServerAssumption == Main \notin Clients

VARIABLES
  pc,               \* "none" before the fork, "gone" after waitpid
  parent,
  listening,        \* the processes that hold sockfd
  sockets,          \* the connections each process holds open
  newFd,            \* new_fd: the connection last accepted
  signalled,        \* processes with a pending SIGCHLD
  handling          \* processes in sigchld_handler

fdVars == <<listening, sockets, newFd>>
signalVars == <<signalled, handling>>
processVars == <<pc, parent, fdVars, signalVars>>

Processes == {Main} \cup Clients

ServerInit ==
  /\ pc = [p \in Processes |-> IF p = Main THEN "accept" ELSE "none"]
  /\ parent = [p \in Processes |-> p]
  /\ listening = {Main}
  /\ sockets = [p \in Processes |-> {}]
  /\ newFd = [p \in Processes |-> p]
  /\ signalled = {}
  /\ handling = {}

\* Process p goes on from one label to another; no handler is running.
Step(p, from, to) ==
  /\ pc[p] = from
  /\ p \notin handling
  /\ pc' = [pc EXCEPT ![p] = to]

\* Without sockfd, accept fails, and is called again, for ever.
Accept(p) ==
  /\ Step(p, "accept", "fork")
  /\ p \in listening
  /\ backlog # <<>>
  /\ backlog' = Tail(backlog)
  /\ newFd' = [newFd EXCEPT ![p] = Head(backlog)]
  /\ sockets' = [sockets EXCEPT ![p] = @ \cup {Head(backlog)}]
  /\ UNCHANGED <<parent, listening>>

\* Mutant: the child keeps sockfd.
WithoutListener_Kept(c) == listening \cup {c}

\* The child c closes sockfd.
WithoutListener(c) == listening

\* The child starts with the parent's sockets.
Fork(p) ==
  /\ pc[p] = "fork"
  /\ p \notin handling
  /\ LET c == newFd[p]
     IN  /\ pc' = [pc EXCEPT ![p] = "close", ![c] = "child"]
         /\ parent' = [parent EXCEPT ![c] = p]
         /\ sockets' = [sockets EXCEPT ![c] = sockets[p]]
         /\ newFd' = [newFd EXCEPT ![c] = c]
         /\ listening' = WithoutListener(c)
  /\ UNCHANGED backlog

\* -1 is taken for the pid of a child.
ForkFails(p) == Step(p, "fork", "close") /\ UNCHANGED <<parent, fdVars, backlog>>

\* Mutant: new_fd stays open.
WithoutNewFd_Leaks(p) == sockets[p]

WithoutNewFd(p) == sockets[p] \ {newFd[p]}

\* close(new_fd) at the end of the loop's body.
Close(p) ==
  /\ Step(p, "close", "accept")
  /\ sockets' = [sockets EXCEPT ![p] = WithoutNewFd(p)]
  /\ UNCHANGED <<parent, listening, newFd, backlog>>

Loop(p) ==
  /\ Accept(p) \/ Fork(p) \/ ForkFails(p) \/ Close(p)
  /\ UNCHANGED <<signalVars, clientPC, stream, broken>>

\* exit(0), or the end by a signal: the parent gets a SIGCHLD.
Exit(p) ==
  /\ Step(p, "exit", "zombie")
  /\ sockets' = [sockets EXCEPT ![p] = {}]
  /\ listening' = listening \ {p}
  /\ signalled' = signalled \cup {parent[p]}
  /\ UNCHANGED <<parent, newFd, handling, connectionVars>>

-----------------------------------------------------------------------------
(* sigchld_handler                                                         *)

\* A signal is delivered; a further one waits until the handler has returned.
Signal(p) ==
  /\ p \in signalled \ handling
  /\ signalled' = signalled \ {p}
  /\ handling' = handling \cup {p}
  /\ UNCHANGED pc

DeadChildren(p) == {z \in Clients : pc[z] = "zombie" /\ parent[z] = p}

\* waitpid returns a child in the handler's loop.
Reap(p) ==
  /\ p \in handling
  /\ \E z \in DeadChildren(p) : pc' = [pc EXCEPT ![z] = "gone"]
  /\ UNCHANGED signalVars

\* Mutant: waitpid is not called until it finds no child.
LoopEnds_Early(p) == TRUE

\* waitpid returns 0 or -1.
LoopEnds(p) == DeadChildren(p) = {}

EndHandler(p) ==
  /\ p \in handling
  /\ LoopEnds(p)
  /\ handling' = handling \ {p}
  /\ UNCHANGED <<pc, signalled>>

Handler(p) ==
  /\ Signal(p) \/ Reap(p) \/ EndHandler(p)
  /\ UNCHANGED <<parent, fdVars, connectionVars>>

\* The connection ends when no process of the server holds it open any more.
EndOfStream(c) ==
  /\ stream[c] = <<>>
  /\ \A i \in 1 .. Len(backlog) : backlog[i] # c
  /\ \A p \in Processes : c \notin sockets[p]
-----------------------------------------------------------------------------
\* The state of the processes has its type, given the labels of a child.
ServerTypeOK(labels) ==
  /\ pc \in [Processes -> {"none", "accept", "fork", "close", "child", "exit",
                           "zombie", "gone"} \cup labels]
  /\ parent \in [Processes -> Processes]
  /\ listening \cup signalled \cup handling \subseteq Processes
  /\ sockets \in [Processes -> SUBSET Clients]
  /\ newFd \in [Processes -> Processes]
  /\ backlog \in Seq(Clients) /\ Len(backlog) <= BACKLOG
  /\ broken \subseteq Clients

\* A connection is held open by the child it belongs to, while that answers,
\* and by the process that accepted it until the end of the pass of its loop,
\* also where a child leaves its branch: a descriptor left open anywhere would
\* keep the client waiting.
NoSocketLeaks ==
  \A p \in Processes : \A c \in sockets[p] :
    /\ c = newFd[p]
    /\ pc[p] \notin {"none", "accept", "zombie", "gone"}
    /\ pc[p] \in {"fork", "close"} \/ p = c

\* A child never serves: one that comes back to accept after a failed read
\* takes no connection away from the main process and has no children.
OnlyMainServes == \A c \in Clients : pc[c] # "none" => parent[c] = Main

\* Signals merge and the handler may run while more children end; still no
\* dead child waits for a signal that never comes.
DeadChildrenAnnounced ==
  \A c \in Clients : pc[c] = "zombie" => parent[c] \in signalled \cup handling

\* Whatever is under way comes to its end: a client that has connected leaves,
\* be it that a child answered it or that its connection was closed, and a
\* child has exited and is reaped.  Only a child whose read failed stays.
AllEnd ==
  []<>(/\ Started = Closed
       /\ \A c \in Clients : pc[c] \in {"none", "gone"} \/ (pc[c] = "accept" /\ c \in broken))
=============================================================================
