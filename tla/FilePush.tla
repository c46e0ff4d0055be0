------------------------------ MODULE FilePush ------------------------------
(***************************************************************************)
(* The client and the server of mp0.  The server has read one file; each   *)
(* child sends its length, three newlines and its content in one send.     *)
(* The client calls recv once and prints what the piece it got has of the  *)
(* length and the content.                                                 *)
(***************************************************************************)
EXTENDS ForkingServer

CONSTANTS
  Contents,         \* the files the server may be started with
  MAXDATASIZE       \* size of the client's buffer

\* Units that are not bytes of a text: the digits of a length count as one.
NUL == 0
NEWLINE == -1
WILD == -2          \* what memory holds that was never written, or a fault
Number(n) == -3 - n

ASSUME FilePushAssumption ==
  /\ \A text \in Contents : text \in Seq(Nat)
  /\ MAXDATASIZE \in Nat \ {0, 1}

VARIABLES
  content,          \* string: the file
  numbytes,         \* of each client: what recv returned
  printed           \* what each client has written to its terminal

pushVars == <<connectionVars, processVars, content, numbytes, printed>>

PushInit ==
  /\ ConnectionsInit
  /\ ServerInit
  /\ content \in Contents
  /\ numbytes = [c \in Clients |-> 0]
  /\ printed = [c \in Clients |-> <<>>]

Before(s, units) ==
  LET found == {i \in 1 .. Len(s) : s[i] \in units}
  IN  IF found = {} THEN s
      ELSE SubSeq(s, 1, (CHOOSE i \in found : \A j \in found : i <= j) - 1)

\* Mutant: the content without the newlines in front of it.
Result_OneNewline == <<Number(Len(content)), NEWLINE>> \o Before(content, {NUL})

\* result: concat takes the content for a string, which ends with a NUL.  The length
\* is the file's, though server.c:71 says "Need to send len-1 as length".
Result == <<Number(Len(content)), NEWLINE, NEWLINE, NEWLINE>> \o Before(content, {NUL})

\* Mutant: the child does not exit.
AfterSend_NoExit == "close"

AfterSend == "exit"

\* The branch of the child: send, whether it succeeds or not.
PushChild(c) ==
  /\ c \in Clients
  /\ Step(c, "child", AfterSend)
  /\ Sent(c, Result) \/ (c \in broken \cup Closed /\ UNCHANGED stream)
  /\ UNCHANGED <<parent, fdVars, signalVars, clientPC, backlog, broken>>

\* The two printfs: the text up to the first newline, and what comes after the
\* second, be that in the piece, behind its end, or anywhere in memory.
Shown(piece) ==
  LET pos == Len(Before(piece, {NEWLINE}))
  IN  IF pos = Len(piece) THEN <<WILD>>
      ELSE SubSeq(piece, 1, pos) \o
           (IF pos + 1 = Len(piece) THEN <<WILD>> ELSE SubSeq(piece, pos + 3, Len(piece)))

\* recv returns k units, and the client ends.
Recv(c, k) ==
  /\ clientPC[c] = "recv"
  /\ k < MAXDATASIZE
  /\ Received(c, k)
  /\ numbytes' = [numbytes EXCEPT ![c] = k]
  /\ printed' = [printed EXCEPT ![c] = Shown(SubSeq(stream[c], 1, k))]
  /\ Goto(c, "done")

\* recv returns 0, and the client prints all the same; or it returns -1.
RecvNothing(c) ==
  /\ clientPC[c] = "recv"
  /\ \/ /\ EndOfStream(c)
        /\ numbytes' = [numbytes EXCEPT ![c] = 0]
        /\ printed' = [printed EXCEPT ![c] = Shown(<<>>)]
     \/ /\ c \in broken
        /\ numbytes' = [numbytes EXCEPT ![c] = -1]
        /\ UNCHANGED printed
  /\ Goto(c, "done")
  /\ UNCHANGED <<backlog, stream, broken>>

PushClient(c) ==
  /\ (\E k \in 1 .. Len(stream[c]) : Recv(c, k)) \/ RecvNothing(c)
  /\ UNCHANGED <<processVars, content>>

\* connect(), and what nobody does: a connection fails.
PushNetwork(c) ==
  /\ Connect(c, "recv") \/ Break(c)
  /\ UNCHANGED <<processVars, content, numbytes, printed>>

PushServer(p) ==
  /\ Loop(p) \/ PushChild(p) \/ Exit(p) \/ Handler(p)
  /\ UNCHANGED <<content, numbytes, printed>>

PushNext ==
  \/ \E c \in Clients : PushNetwork(c) \/ PushClient(c)
  \/ \E p \in Processes : PushServer(p)

PushSpec == PushInit /\ [][PushNext]_pushVars

\* Every process runs.  Nothing makes a client connect or a connection fail.
FairPushSpec ==
  /\ PushSpec
  /\ \A c \in Clients : WF_pushVars(PushClient(c))
  /\ \A p \in Processes : WF_pushVars(PushServer(p))
-----------------------------------------------------------------------------
\* A piece that reaches behind the second newline of the answer is shown without
\* loss: what the client prints, and then what it left unread, are the length of
\* the file, a newline and the file up to its first NUL, and no other memory.
PrintsWhatArrives ==
  \A c \in Clients :
    numbytes[c] >= 3 =>
      printed[c] \o stream[c] =
        <<Number(Len(content)), NEWLINE>> \o Before(content, {NUL})
=============================================================================
