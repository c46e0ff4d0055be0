------------------------------ MODULE Receiver ------------------------------
(***************************************************************************)
(* The receiving process of mp2: the loop of reliablyReceive.  A datagram  *)
(* is handled completely (stored, the file written as far as possible, the *)
(* cumulative acknowledgement sent) before the next one is read.           *)
(***************************************************************************)
EXTENDS Packets

VARIABLES
  buffer,           \* the unordered_map: seq_no -> packet content
  dest,             \* the destination file, as the contents written to it
  nextPacketId,
  lastPacketFound,
  lastPacketSeqNo,
  receiverOpen      \* FALSE once the loop was left and the socket closed

receiverVars == <<buffer, dest, nextPacketId, lastPacketFound, lastPacketSeqNo,
                  receiverOpen>>

ReceiverInit ==
  /\ buffer = [id \in {} |-> FIN]
  /\ dest = <<>>
  /\ nextPacketId = 0
  /\ lastPacketFound = FALSE
  /\ lastPacketSeqNo = 0
  /\ receiverOpen = TRUE

\* buffer after a packet was decoded: inserted unless written or stored before.
Stored(p) ==
  IF p.id >= nextPacketId /\ p.id \notin DOMAIN buffer
  THEN [id \in DOMAIN buffer \cup {p.id} |->
          IF id = p.id THEN p.chunk ELSE buffer[id]]
  ELSE buffer

\* Mutant: one packet is written per datagram.
IsNext_AfterOne(buf, n) == n = nextPacketId + (IF nextPacketId \in DOMAIN buf THEN 1 ELSE 0)

\* n is the first id from nextPacketId on that is missing.
IsNext(buf, n) ==
  /\ n >= nextPacketId
  /\ n \notin DOMAIN buf
  /\ \A id \in nextPacketId .. n - 1 : id \in DOMAIN buf

\* The inner while loop: write and erase the packets before n.
Drain(buf, n) ==
  /\ IsNext(buf, n)
  /\ dest' = dest \o [i \in 1 .. n - nextPacketId |-> buf[nextPacketId + i - 1]]
  /\ buffer' = [id \in {j \in DOMAIN buf : j >= n} |-> buf[id]]
  /\ nextPacketId' = n

\* send_back_ack_seq_no: the id of the last packet written.
ACKToSend == nextPacketId - 1

\* Mutant: the receiver leaves as soon as it has seen the FIN.
HasAll_FINSeen == lastPacketFound

HasAll == lastPacketFound /\ lastPacketSeqNo = ACKToSend

Receive(p) ==
  /\ receiverOpen
  /\ IF p.chunk = FIN
     THEN lastPacketFound' = TRUE /\ lastPacketSeqNo' = p.id
     ELSE UNCHANGED <<lastPacketFound, lastPacketSeqNo>>
  /\ \E n \in 0 .. NumChunks + 1 : Drain(Stored(p), n)
  /\ receiverOpen' = ~ HasAll'

ReceiverTypeOK ==
  /\ DOMAIN buffer \subseteq PacketIds
  /\ buffer \in [DOMAIN buffer -> Chunks]
  /\ dest \in Seq(Chunks)
  /\ nextPacketId \in 0 .. NumChunks + 1
  /\ lastPacketFound \in BOOLEAN
  /\ lastPacketSeqNo \in PacketIds
  /\ receiverOpen \in BOOLEAN
=============================================================================
