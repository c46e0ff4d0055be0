---------------------------- MODULE Connections -----------------------------
(***************************************************************************)
(* The TCP connections between the clients and the server of mp0 or mp1,   *)
(* as the programs use them.  There is one connection per client, and it   *)
(* has the client's name.  What the server sends is a stream of units that *)
(* recv returns in pieces of any size.  A client that cannot connect has   *)
(* not started.                                                            *)
(***************************************************************************)
EXTENDS Integers, Sequences, FiniteSets

CONSTANTS
  Clients,
  MaxBroken,        \* bound: connections that fail
  BACKLOG           \* connections that can wait for accept

ASSUME ConnectionsAssumption == MaxBroken \in Nat /\ BACKLOG \in Nat \ {0}

VARIABLES
  clientPC,         \* "done" also means that the client has closed
  backlog,          \* connections not yet accepted, oldest first
  stream,           \* what the server sent and the client has not received
  broken            \* connections that failed: a peer or the network is gone

connectionVars == <<clientPC, backlog, stream, broken>>

ConnectionsInit ==
  /\ clientPC = [c \in Clients |-> "connect"]
  /\ backlog = <<>>
  /\ stream = [c \in Clients |-> <<>>]
  /\ broken = {}

Goto(c, label) == clientPC' = [clientPC EXCEPT ![c] = label]

Connect(c, label) ==
  /\ clientPC[c] = "connect"
  /\ Len(backlog) < BACKLOG
  /\ backlog' = Append(backlog, c)
  /\ Goto(c, label)
  /\ UNCHANGED <<stream, broken>>

\* recv returns the next k units of the stream.
Received(c, k) ==
  /\ k \in 1 .. Len(stream[c])
  /\ stream' = [stream EXCEPT ![c] = SubSeq(@, k + 1, Len(@))]
  /\ UNCHANGED <<backlog, broken>>

Sent(c, units) == stream' = [stream EXCEPT ![c] = @ \o units]

Started == {c \in Clients : clientPC[c] # "connect"}
Closed == {c \in Clients : clientPC[c] = "done"}

\* An established connection fails; what is on its way may still arrive.
Break(c) ==
  /\ c \in Started \ Closed
  /\ Cardinality(broken) < MaxBroken
  /\ broken' = broken \cup {c}
  /\ UNCHANGED <<clientPC, backlog, stream>>
=============================================================================
