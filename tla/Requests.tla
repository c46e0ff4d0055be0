------------------------------ MODULE Requests ------------------------------
(***************************************************************************)
(* What the client and the server of mp1 exchange.  A request is shorter   *)
(* than one segment and is received whole.  Of the bytes of an answer the  *)
(* model keeps HeaderLen units of the header, each HeaderUnit, and the     *)
(* units 1, 2, ... of the file.                                            *)
(***************************************************************************)
EXTENDS Connections

CONSTANTS
  HeaderLen,        \* units of the header, the last one with its end
  Files             \* bound: the lengths of the files the clients may ask for

Missing == -1       \* the length of a file the server does not have
HeaderUnit == 0

ASSUME RequestsAssumption ==
  HeaderLen \in Nat \ {0} /\ Files \subseteq [Clients -> Nat \cup {Missing}]

VARIABLES
  length,           \* the length of the file each client asks for
  requested         \* connections on which the request was sent

requestVars == <<length, requested>>

RequestsInit == length \in Files /\ requested = {}

Content(c) == IF length[c] = Missing THEN <<>> ELSE [i \in 1 .. length[c] |-> i]

Header == [i \in 1 .. HeaderLen |-> HeaderUnit]

RequestsTypeOK ==
  /\ length \in Files
  /\ requested \subseteq Clients
  /\ \A c \in Clients : \A i \in 1 .. Len(stream[c]) :
       stream[c][i] \in {HeaderUnit} \cup 1 .. length[c]
=============================================================================
