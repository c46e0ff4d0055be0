------------------------------- MODULE Sender -------------------------------
(***************************************************************************)
(* The sending process of mp2: class ReliableSender with its three         *)
(* congestion-control states (SlowStart, CongAvoid, FastRecovery).         *)
(*                                                                         *)
(* working() alternates two steps: the pending action (send new packets,   *)
(* resend the oldest one, or nothing), then one recvfrom that returns an   *)
(* acknowledgement or times out, followed by the handler of the current    *)
(* state.  senderPC says which of the two comes next.                      *)
(*                                                                         *)
(* windowSize_ is a float.  It is kept here as a multiple of 1/Unit, and   *)
(* the quotient that congestion avoidance adds is rounded to that grid, as *)
(* a float rounds it to its own.                                           *)
(***************************************************************************)
EXTENDS Packets

CONSTANTS
  InitSsthresh,     \* the initial ssthresh_; 64 in the code
  Unit,             \* resolution of windowSize_
  MaxWindow,        \* bound: dup ACKs inflate the window no further
  MaxDupACK,        \* bound: dup ACKs counted during slow start
  ContextAfterFree  \* what context_ reads after its object was deleted

ASSUME SenderAssumption ==
  /\ InitSsthresh \in Nat /\ InitSsthresh >= 2
  /\ Unit \in Nat \ {0}
  /\ MaxWindow \in Nat
  /\ MaxDupACK \in Nat
  /\ ContextAfterFree \subseteq {"kept", "stale", "crash"}

VARIABLES
  lastReceivedACKId,
  nextChunk,        \* chunks read from the file so far: fp_, remainingBytesToRead_
  state,
  sentButNotAcked,  \* the deque sentButNotAckedPackets
  windowSize,
  ssthresh,
  leftPacketId,
  dupACKCnt,
  nextAction,
  senderPC          \* "act" | "recv" | "closed" | "crashed"

senderVars == <<lastReceivedACKId, nextChunk, state, sentButNotAcked, windowSize,
                ssthresh, leftPacketId, dupACKCnt, nextAction, senderPC>>

Ceil(w) == (w + Unit - 1) \div Unit
Half(w) == (w + Unit) \div (2 * Unit)      \* round(w / 2)

\* Mutant: ssthresh may become 1.
AfterLoss_Low(w) == Half(w)

\* ssthresh_ after a timeout or the third duplicate.
AfterLoss(w) == Half(w) + 1

allRead == nextChunk > NumChunks   \* isFileExhausted_
isFinished == allRead /\ sentButNotAcked = <<>>

\* Mutant: the loop has no end.
LoopTest_NoEnd == "act"

\* The test of the loop of working().
LoopTest == IF isFinished THEN "closed" ELSE "act"

\* Mutant: two packets in the first burst.
FirstWindow_TwoAtOnce == 2 * Unit

FirstWindow == Unit

SenderInit ==
  /\ lastReceivedACKId = -1
  /\ nextChunk = 0
  /\ state = "SlowStart"
  /\ sentButNotAcked = <<>>
  /\ windowSize = FirstWindow
  /\ ssthresh = InitSsthresh
  /\ leftPacketId = 0
  /\ dupACKCnt = 0
  /\ nextAction = "sendNew"
  /\ senderPC = "act"

-----------------------------------------------------------------------------
(* First half of an iteration: sendNewPackets, resendOldPacket or nothing. *)

PacketIdToAdd == IF sentButNotAcked = <<>>
                 THEN leftPacketId
                 ELSE sentButNotAcked[Len(sentButNotAcked)].id + 1

\* Mutant: the FIN packet does not stop the loop.
NewPacketCnt_PastFIN ==
  LET room == Ceil(windowSize) - Len(sentButNotAcked)
  IN  IF room > 0 THEN room ELSE 0

\* How many packets loadNewPacketsFromFile returns: the free part of the
\* window, cut short by the FIN, after which the file is exhausted.
NewPacketCnt ==
  LET room == Ceil(windowSize) - Len(sentButNotAcked)
      left == NumChunks + 1 - nextChunk
      cnt  == IF room <= left THEN room ELSE left
  IN  IF cnt > 0 THEN cnt ELSE 0

NewPackets == [i \in 1 .. NewPacketCnt |->
                 Packet(PacketIdToAdd + i - 1, nextChunk + i - 1)]

\* The datagrams this iteration hands to sendto.
Outgoing ==
  CASE nextAction = "sendNew" -> {NewPackets[i] : i \in 1 .. NewPacketCnt}
    [] nextAction = "resend"  -> {sentButNotAcked[1]}
    [] nextAction = "waitACK" -> {}

SenderAct ==
  /\ senderPC = "act"
  /\ \/ /\ nextAction = "sendNew"
        /\ sentButNotAcked' = sentButNotAcked \o NewPackets
        /\ nextChunk' = nextChunk + NewPacketCnt
     \/ /\ nextAction \in {"resend", "waitACK"}
        /\ UNCHANGED <<sentButNotAcked, nextChunk>>
  /\ senderPC' = "recv"
  /\ UNCHANGED <<lastReceivedACKId, state, windowSize, ssthresh, leftPacketId,
                 dupACKCnt, nextAction>>

-----------------------------------------------------------------------------
(* Second half: a timeout, a duplicate ACK or a new ACK.                   *)

\* Mutant: a timeout does not resend.
AfterTimeout_NoResend == "waitACK"

AfterTimeout == "resend"

\* timeoutBase: the same in every state.  The 25 ms may elapse at any time.
Timeout ==
  /\ senderPC = "recv"
  /\ state' = "SlowStart"
  /\ ssthresh' = AfterLoss(windowSize)
  /\ windowSize' = Unit
  /\ dupACKCnt' = 0
  /\ nextAction' = AfterTimeout
  /\ UNCHANGED <<lastReceivedACKId, nextChunk, sentButNotAcked, leftPacketId>>
  /\ senderPC' = LoopTest'

SlowStartDupACK ==
  /\ state = "SlowStart"
  /\ dupACKCnt < MaxDupACK
  /\ dupACKCnt' = dupACKCnt + 1
  /\ nextAction' = "waitACK"
  /\ UNCHANGED <<state, ssthresh, windowSize>>

\* The third duplicate starts fast retransmit.
CongAvoidDupACK ==
  /\ state = "CongAvoid"
  /\ dupACKCnt' = dupACKCnt + 1
  /\ IF dupACKCnt' >= 3
     THEN /\ ssthresh' = AfterLoss(windowSize)
          /\ windowSize' = Unit * (ssthresh' + 3)
          /\ nextAction' = "resend"
          /\ state' = "FastRecovery"
     ELSE /\ nextAction' = "waitACK"
          /\ UNCHANGED <<state, ssthresh, windowSize>>

FastRecoveryDupACK ==
  /\ state = "FastRecovery"
  /\ windowSize < Unit * MaxWindow
  /\ windowSize' = windowSize + Unit
  /\ nextAction' = "sendNew"
  /\ UNCHANGED <<state, ssthresh, dupACKCnt>>

DupACK ==
  /\ SlowStartDupACK \/ CongAvoidDupACK \/ FastRecoveryDupACK
  /\ UNCHANGED <<lastReceivedACKId, nextChunk, sentButNotAcked, leftPacketId>>
  /\ senderPC' = LoopTest'

\* Mutant: the packet after the acknowledged one is popped too.
IsACKed_OneTooMany(p, ackId) == p.id <= ackId + 1

\* Mutant: the acknowledged packet itself is kept.
IsACKed_OneTooFew(p, ackId) == p.id < ackId

IsACKed(p, ackId) == p.id <= ackId

\* removeACKedPacketsFromWindow: pop the front while its id is acknowledged.
RemoveACKed(ackId) ==
  \E k \in 0 .. Len(sentButNotAcked) :
    /\ \A i \in 1 .. k : IsACKed(sentButNotAcked[i], ackId)
    /\ k < Len(sentButNotAcked) => ~ IsACKed(sentButNotAcked[k + 1], ackId)
    /\ sentButNotAcked' = SubSeq(sentButNotAcked, k + 1, Len(sentButNotAcked))

\* Mutant: the left side is the acknowledged packet, not the next one.
NextLeft_Behind(ackId) == ackId

NextLeft(ackId) == ackId + 1

SlowStartNewACK(ackId) ==
  /\ state = "SlowStart"
  /\ windowSize' = windowSize + Unit * (ackId - leftPacketId + 1)
  /\ leftPacketId' = NextLeft(ackId)
  /\ state' = IF windowSize' >= Unit * ssthresh THEN "CongAvoid" ELSE "SlowStart"
  /\ senderPC' = LoopTest'
  /\ UNCHANGED ssthresh

\* step rounds of  windowSize_ += 2 / floor(windowSize_)
Grow(w, step) ==
  LET g[k \in 0 .. step] ==
        IF k = 0 THEN w ELSE g[k - 1] + (2 * Unit) \div (g[k - 1] \div Unit)
  IN  g[step]

CongAvoidNewACK(ackId) ==
  /\ state = "CongAvoid"
  /\ windowSize' = Grow(windowSize, ackId - leftPacketId + 1)
  /\ leftPacketId' = NextLeft(ackId)
  /\ senderPC' = LoopTest'
  /\ UNCHANGED <<state, ssthresh>>

\* changeState deletes the FastRecovery object that is still executing, and
\* the next statement reads its member context_ to store leftPacketId_.  That
\* read of freed memory finds the old value, finds what the allocator wrote
\* there (the store then hits some other memory), or faults.
FastRecoveryNewACK(ackId) ==
  /\ state = "FastRecovery"
  /\ windowSize' = Unit * ssthresh
  /\ state' = "CongAvoid"
  /\ \E found \in ContextAfterFree :
       /\ leftPacketId' = IF found = "kept" THEN NextLeft(ackId) ELSE leftPacketId
       /\ senderPC' = IF found = "crash" THEN "crashed" ELSE LoopTest'
  /\ UNCHANGED ssthresh

NewACK(ackId) ==
  /\ lastReceivedACKId' = ackId
  /\ RemoveACKed(ackId)
  /\ dupACKCnt' = 0
  /\ nextAction' = "sendNew"
  /\ UNCHANGED nextChunk
  /\ \/ SlowStartNewACK(ackId)
     \/ CongAvoidNewACK(ackId)
     \/ FastRecoveryNewACK(ackId)

\* getLargestACKId starts from 0, so a negative id is read as 0; an id below
\* the last one received counts as a duplicate of the last one.
DecodeACK(ack) ==
  LET id == IF ack > 0 THEN ack ELSE 0
  IN  IF id > lastReceivedACKId THEN id ELSE lastReceivedACKId

ReceiveACK(ack) ==
  /\ senderPC = "recv"
  /\ \/ DecodeACK(ack) = lastReceivedACKId /\ DupACK
     \/ DecodeACK(ack) # lastReceivedACKId /\ NewACK(DecodeACK(ack))

-----------------------------------------------------------------------------
(* The sender against a peer that may acknowledge anything at any time.    *)

SenderStopped == senderPC \in {"closed", "crashed"} /\ UNCHANGED senderVars

SenderNext ==
  \/ SenderAct
  \/ Timeout
  \/ \E ack \in {-1} \cup PacketIds : ReceiveACK(ack)
  \/ SenderStopped

SenderSpec == SenderInit /\ [][SenderNext]_senderVars

-----------------------------------------------------------------------------

SenderTypeOK ==
  /\ lastReceivedACKId \in {-1} \cup PacketIds
  /\ nextChunk \in 0 .. NumChunks + 1
  /\ state \in {"SlowStart", "CongAvoid", "FastRecovery"}
  /\ sentButNotAcked \in Seq([id : Nat, chunk : Chunks])
  /\ windowSize \in Nat
  /\ ssthresh \in Nat
  /\ leftPacketId \in 0 .. NumChunks + 1
  /\ dupACKCnt \in Nat
  /\ nextAction \in {"sendNew", "resend", "waitACK"}
  /\ senderPC \in {"act", "recv", "closed", "crashed"}

\* Whenever the sender blocks in recvfrom it has a packet outstanding.  Both a
\* timeout and a third duplicate ACK make the next iteration read the front of
\* sentButNotAckedPackets (resendOldPacket), which must not be empty then.
SomethingOutstanding ==
  /\ senderPC = "recv" => sentButNotAcked # <<>>
  /\ senderPC = "act" /\ nextAction # "sendNew" => sentButNotAcked # <<>>

\* The congestion phase agrees with the window: below ssthresh only during slow
\* start, and never below one packet, so that MSS / floor(windowSize_) divides
\* by at least 1 and the window always admits a packet.
PhaseMatchesWindow ==
  /\ windowSize >= Unit
  /\ ssthresh >= 2
  /\ IF state = "SlowStart" THEN windowSize < Unit * ssthresh
                            ELSE windowSize >= Unit * ssthresh

\* leftPacketId_ is "the left side of the sliding window, should be the next
\* ACK id" (sender_main.cpp:181).
LeftIsNextACK ==
  senderPC # "crashed" => leftPacketId = lastReceivedACKId + 1
=============================================================================
