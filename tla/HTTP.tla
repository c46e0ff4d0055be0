-------------------------------- MODULE HTTP --------------------------------
(***************************************************************************)
(* The client and the server of mp1 and the connections between them.      *)
(***************************************************************************)
EXTENDS HTTPClient, HTTPServer

vars == <<connectionVars, requestVars, file, processVars, position>>

Init ==
  /\ ConnectionsInit
  /\ RequestsInit
  /\ FileInit
  /\ ServerInit
  /\ PositionInit

\* write returns -1, recv 0 or -1.
CannotGoOn(c) == c \in broken \/ (clientPC[c] \in {"first", "rest"} /\ EndOfStream(c))

ClientStep(c) ==
  /\ \/ Write(c)
     \/ Open(c)
     \/ \E k \in 1 .. Len(stream[c]) : RecvFirst(c, k) \/ RecvRest(c, k)
     \/ CannotGoOn(c) /\ Leave(c)
  /\ UNCHANGED <<length, processVars, position>>

\* connect(), and what nobody does: a connection fails.
Network(c) ==
  /\ Connect(c, "write") \/ Break(c)
  /\ UNCHANGED <<requestVars, file, processVars, position>>

\* Process p runs, in its program or in its handler.
ServerStep(p) ==
  /\ \/ (Loop(p) \/ Exit(p) \/ Handler(p)) /\ UNCHANGED position
     \/ Child(p)
  /\ UNCHANGED <<requestVars, file>>

Next ==
  \/ \E c \in Clients : Network(c) \/ ClientStep(c)
  \/ \E p \in Processes : ServerStep(p)

Spec == Init /\ [][Next]_vars

(***************************************************************************)
(* Fairness: every process runs.  Nothing makes a client connect or a      *)
(* connection fail.                                                        *)
(***************************************************************************)
FairSpec ==
  /\ Spec
  /\ \A c \in Clients : WF_vars(ClientStep(c))
  /\ \A p \in Processes : WF_vars(ServerStep(p))
-----------------------------------------------------------------------------
\* The state has its type; no child reads beyond the end of its file.
HTTPTypeOK ==
  /\ RequestsTypeOK
  /\ ClientTypeOK
  /\ ServerTypeOK({"answer", "body"})
  /\ \A c \in Clients : position[c] \in 0 .. length[c] \cup {0}

\* The two programs implement the promise of Download.
D == INSTANCE Download WITH
       content <- [c \in Clients |-> Content(c)],
       saved   <- file,
       ended   <- Closed,
       failed  <- broken
ImplementsDownload == D!Spec
=============================================================================
