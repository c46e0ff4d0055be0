----------------------------- MODULE HTTPServer -----------------------------
(***************************************************************************)
(* The HTTP server of mp1 (server.c): the child reads the request, answers *)
(* with a header and the blocks of the file, and exits.  The sends are     *)
(* those of a blocking socket: all or nothing.                             *)
(***************************************************************************)
EXTENDS ForkingServer, Requests

CONSTANT BlockSize  \* units one fread returns, sizeof(response)

ASSUME BlockAssumption == BlockSize \in Nat \ {0}

VARIABLE position   \* of the child in the file it sends

PositionInit == position = [c \in Clients |-> 0]

\* Mutant: a child whose read fails skips the rest of the loop's body.
AfterFailedRead_Continues(p) == "accept"

\* A child whose read fails falls out of the branch of the child.
AfterFailedRead(p) == "close"

\* read returns the request, or 0 when the client has gone without writing one: the
\* child then answers whatever its buffer holds, to nobody.  Or read fails.
Read(p) ==
  /\ \/ p \in requested \cup Closed /\ Step(p, "child", "answer")
     \/ p \in broken /\ Step(p, "child", AfterFailedRead(p))
  /\ UNCHANGED <<stream, position>>

\* fopen, and the header: 404 without a file, 200 with one.
Answer(p) ==
  /\ Step(p, "answer", IF length[p] = Missing THEN "exit" ELSE "body")
  /\ Sent(p, Header)
  /\ UNCHANGED position

\* Mutant: the buffer is sent whole, whatever fread returned.
Block_Whole(p) == BlockSize

\* What fread returns.
Block(p) ==
  LET left == length[p] - position[p]
  IN  IF left < BlockSize THEN left ELSE BlockSize

SendBlock(p) ==
  /\ Step(p, "body", "body")
  /\ Block(p) > 0
  /\ Sent(p, [i \in 1 .. Block(p) |-> position[p] + i])
  /\ position' = [position EXCEPT ![p] = @ + Block(p)]

EndOfFile(p) == Step(p, "body", "exit") /\ Block(p) = 0 /\ UNCHANGED <<stream, position>>

\* send returns -1 or raises SIGPIPE.
SendFails(p) ==
  /\ p \in broken \cup Closed
  /\ Step(p, "answer", "exit") \/ Step(p, "body", "exit")
  /\ UNCHANGED <<stream, position>>

\* What a child does with its connection.
Child(p) ==
  /\ p \in Clients
  /\ Read(p) \/ Answer(p) \/ SendBlock(p) \/ EndOfFile(p) \/ SendFails(p)
  /\ UNCHANGED <<parent, fdVars, signalVars, clientPC, backlog, broken>>
=============================================================================
