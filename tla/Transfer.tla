------------------------------ MODULE Transfer ------------------------------
(***************************************************************************)
(* Sender and receiver of mp2 connected by UDP.  A datagram stays in the   *)
(* network from sendto until it is lost; every delivery while it is there  *)
(* is a copy, so datagrams are lost, duplicated, delayed and reordered.    *)
(* Nothing is delivered to a process that closed its socket.               *)
(***************************************************************************)
EXTENDS Sender, Receiver

VARIABLES
  dataNet,          \* packets on their way to the receiver
  ackNet            \* acknowledgement ids on their way to the sender

vars == <<senderVars, receiverVars, dataNet, ackNet>>

Init ==
  /\ SenderInit
  /\ ReceiverInit
  /\ dataNet = {}
  /\ ackNet = {}

Act ==
  /\ SenderAct
  /\ dataNet' = dataNet \cup Outgoing
  /\ UNCHANGED <<receiverVars, ackNet>>

RecvTimeout ==
  /\ Timeout
  /\ UNCHANGED <<receiverVars, dataNet, ackNet>>

DeliverACK(ack) ==
  /\ ack \in ackNet
  /\ ReceiveACK(ack)
  /\ UNCHANGED <<receiverVars, dataNet, ackNet>>

DeliverData(p) ==
  /\ p \in dataNet
  /\ Receive(p)
  /\ ackNet' = ackNet \cup {ACKToSend'}
  /\ UNCHANGED <<senderVars, dataNet>>

LoseData(p) ==
  /\ p \in dataNet
  /\ dataNet' = dataNet \ {p}
  /\ UNCHANGED <<senderVars, receiverVars, ackNet>>

\* An ACK that arrives while the sender is sending waits in the socket buffer;
\* losing it before the next recvfrom is the same as losing it at that call.
LoseACK(ack) ==
  /\ senderPC = "recv"
  /\ ack \in ackNet
  /\ ackNet' = ackNet \ {ack}
  /\ UNCHANGED <<senderVars, receiverVars, dataNet>>

\* Both programs have ended.
Terminated ==
  /\ senderPC = "closed"
  /\ ~ receiverOpen
  /\ UNCHANGED vars

Next ==
  \/ Act
  \/ RecvTimeout
  \/ \E ack \in ackNet : DeliverACK(ack) \/ LoseACK(ack)
  \/ \E p \in dataNet : DeliverData(p) \/ LoseData(p)
  \/ Terminated

Spec == Init /\ [][Next]_vars

(***************************************************************************)
(* Fairness.  Both processes run: a pending action is taken, and a         *)
(* recvfrom that keeps being reached times out, because UDP delivers a     *)
(* datagram finitely often and duplicate ACKs make the sender send nothing *)
(* it has not sent before.  The network is fair-lossy: it does not lose    *)
(* every copy of a packet that is resent at every timeout (the front of    *)
(* the window), nor every copy of an ACK that is news to the sender.       *)
(***************************************************************************)
Oldest(p) == sentButNotAcked # <<>> /\ p = sentButNotAcked[1]

Fairness ==
  /\ WF_vars(Act)
  /\ SF_vars(RecvTimeout)
  /\ SF_vars(\E p \in dataNet : Oldest(p) /\ DeliverData(p))
  /\ SF_vars(\E ack \in ackNet : ack > lastReceivedACKId /\ DeliverACK(ack))

FairSpec == Spec /\ Fairness
-----------------------------------------------------------------------------
TypeOK ==
  /\ SenderTypeOK
  /\ ReceiverTypeOK
  /\ dataNet \subseteq Datagrams
  /\ ackNet \subseteq {-1} \cup PacketIds

\* The first ACK is never -1.  The receiver would send -1 for a packet that
\* overtakes packet 0, and getLargestACKId would read it as an ACK of packet 0;
\* only the initial window of one packet rules that out.
NoNegativeACK == -1 \notin ackNet

\* Whatever the receiver still waits for, the sender can still send: it is in
\* the window or not yet read from the file.  A stale, duplicated or reordered
\* ACK never makes removeACKedPacketsFromWindow forget an unwritten packet.
NothingForgotten ==
  receiverOpen =>
    \/ nextPacketId >= nextChunk
    \/ \E i \in 1 .. Len(sentButNotAcked) :
         sentButNotAcked[i] = Packet(nextPacketId, Len(dest))

\* The receiver's map holds only packets beyond the gap, so a filled gap is
\* written at once and nothing is left behind when the receiver ends.
BufferOnlyAhead ==
  /\ \A id \in DOMAIN buffer : id > nextPacketId
  /\ ~ receiverOpen => DOMAIN buffer = {}

\* "Write packets to file sequentially.  If there is a packet lost, the after
\* packets queue until the lost packet gets received" (sender_main.cpp:56).
WrittenSequentially == \A i \in 1 .. Len(dest) : dest[i] = i - 1

\* The two programs implement the promise of FileTransfer.
FT == INSTANCE FileTransfer WITH
        Source   <- [i \in 1 .. NumChunks + 1 |-> i - 1],
        file     <- dest,
        received <- ~ receiverOpen,
        closed   <- senderPC = "closed"
ImplementsFileTransfer == FT!Spec

\* The file arrives, whatever is lost, duplicated, delayed or reordered.
FileArrives == <>(~ receiverOpen)

\* After that the sender ends too, unless the one ACK of the last packet that
\* the receiver sends before it leaves is lost.
EndsUnlessLastACKLost ==
  ~ receiverOpen ~> (senderPC = "closed" \/ NumChunks \notin ackNet)

\* "Sender behavior: just follows the tcp protocol" (sender_main.cpp:59): the
\* side that closes last is answered until it has seen the other's last ACK.
SenderEnds == <>(senderPC = "closed")
=============================================================================
