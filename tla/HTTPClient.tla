----------------------------- MODULE HTTPClient -----------------------------
(***************************************************************************)
(* The HTTP client of mp1 (client.c): it connects, writes its request,     *)
(* opens the output file, and receives.  What comes after the end of the   *)
(* header goes to the file.                                                *)
(***************************************************************************)
EXTENDS Requests

VARIABLE file       \* the output file of each client

FileInit == file = [c \in Clients |-> <<>>]

Write(c) ==
  /\ clientPC[c] = "write"
  /\ requested' = requested \cup {c}
  /\ Goto(c, "open")
  /\ UNCHANGED <<file, backlog, stream, broken>>

\* fopen of the output file; without it the client leaves.
Open(c) ==
  /\ clientPC[c] = "open"
  /\ Goto(c, "first") \/ Goto(c, "done")
  /\ UNCHANGED <<file, requested, backlog, stream, broken>>

\* Mutant: the loop runs also when the end of the header was not found.
AfterFirst_LoopsAnyway(k) == "rest"

AfterFirst(k) == IF k >= HeaderLen THEN "rest" ELSE "done"

\* The first recv: only here is the end of the header looked for.
RecvFirst(c, k) ==
  /\ clientPC[c] = "first"
  /\ Received(c, k)
  /\ file' = [file EXCEPT ![c] = SubSeq(stream[c], HeaderLen + 1, k)]
  /\ Goto(c, AfterFirst(k))
  /\ UNCHANGED requested

RecvRest(c, k) ==
  /\ clientPC[c] = "rest"
  /\ Received(c, k)
  /\ file' = [file EXCEPT ![c] = @ \o SubSeq(stream[c], 1, k)]
  /\ UNCHANGED <<clientPC, requested>>

\* write fails, or recv returns 0 or -1: the client closes and leaves.
Leave(c) ==
  /\ clientPC[c] \in {"write", "first", "rest"}
  /\ Goto(c, "done")
  /\ UNCHANGED <<file, requested, backlog, stream, broken>>

ClientTypeOK ==
  /\ clientPC \in [Clients -> {"connect", "write", "open", "first", "rest", "done"}]
  /\ DOMAIN file = Clients
=============================================================================
