--------------------------- MODULE TransferProofs ---------------------------
(***************************************************************************)
(* Proofs about the programs of mp2: how the sender cuts the file into     *)
(* packets, the sender with any acknowledgements, and both programs with a *)
(* network that loses, duplicates, delays and reorders.  The file has any  *)
(* length.  The last part assumes that reading context_ after its object   *)
(* was deleted finds the old value or faults; with an allocator that       *)
(* overwrites it the theorems are false, as the run on MCTransferStale.cfg *)
(* shows.                                                                  *)
(***************************************************************************)
EXTENDS Transfer, PacketLoader, NatSets, SequenceTheorems


-----------------------------------------------------------------------------
(* loadNewPacketsFromFile                                                  *)

loaded == Len(packets) * CONTENT_SIZE     \* bytes in as many full packets

\* Until the end is reached, the position in the file and the bytes left to
\* transfer are those after a full block for every packet.
PositionAfterPackets ==
  ~ isFileExhausted =>
    /\ filePosition = Smaller(loaded, fileSize)
    /\ remainingBytesToRead = bytesToTransfer - Smaller(bytesToTransfer, filePosition)

LoaderInv ==
  /\ LoaderTypeOK
  /\ PositionAfterPackets
  /\ PacketsAreBlocks
  /\ OnlyLastIsEmpty

LEMMA LoaderInitInv == LoaderInit => LoaderInv
<1> SUFFICES ASSUME LoaderInit PROVE LoaderInv
  OBVIOUS
<1> USE LoaderAssumption DEF LoaderInit
<1>1. packets \in Seq([from : Nat, size : 0 .. CONTENT_SIZE]) /\ Len(packets) = 0
  BY EmptySeq
<1>2. LoaderTypeOK
  <2>1. isFileExhausted \in BOOLEAN
    BY Zenon
  <2> QED
    BY <1>1, <2>1 DEF LoaderTypeOK
<1>3. PositionAfterPackets
  <2>1. loaded = 0
    BY <1>1 DEF loaded
  <2> QED
    BY <2>1 DEF PositionAfterPackets, Smaller
<1>4. PacketsAreBlocks /\ OnlyLastIsEmpty
  BY <1>1 DEF PacketsAreBlocks, OnlyLastIsEmpty
<1> QED
  BY <1>2, <1>3, <1>4 DEF LoaderInv

\* Both kinds of step append a packet, and preserve the invariant when it is
\* the right block and the position moves past it.
LEMMA AppendInv ==
  ASSUME LoaderInv, ~ isFileExhausted, NEW s \in 0 .. CONTENT_SIZE,
         packets' = Append(packets, [from |-> filePosition, size |-> s]),
         UNCHANGED <<bytesToTransfer, fileSize>>,
         s = BlockSize(Len(packets) + 1),
         s > 0 => filePosition = loaded,
         isFileExhausted' \in BOOLEAN, isFileExhausted' <=> s = 0,
         remainingBytesToRead' \in 0 .. bytesToTransfer,
         filePosition' \in 0 .. fileSize,
         s > 0 => /\ filePosition' = Smaller(loaded + CONTENT_SIZE, fileSize)
                  /\ remainingBytesToRead' =
                       bytesToTransfer - Smaller(bytesToTransfer, filePosition')
  PROVE  LoaderInv'
<1> DEFINE n == Len(packets)
           p == [from |-> filePosition, size |-> s]
           P == [from : Nat, size : 0 .. CONTENT_SIZE]
<1> USE LoaderAssumption
<1>1. packets \in Seq(P) /\ n \in Nat /\ p \in P /\ filePosition \in Nat
  BY DEF LoaderInv, LoaderTypeOK
<1>2. /\ packets' \in Seq(P) /\ Len(packets') = n + 1
      /\ \A i \in 1 .. n : packets'[i] = packets[i]
      /\ packets'[n + 1] = p
  BY <1>1, AppendProperties
<1>3. LoaderTypeOK'
  BY <1>2 DEF LoaderInv, LoaderTypeOK
<1>4. loaded' = loaded + CONTENT_SIZE /\ loaded = n * CONTENT_SIZE
  BY <1>1, <1>2 DEF loaded
<1>5. PositionAfterPackets'
  BY <1>4 DEF PositionAfterPackets, Smaller
<1>6. PacketsAreBlocks'
  <2>1. \A i : BlockSize(i)' = BlockSize(i)
    BY DEF BlockSize, Total
  <2>2. ASSUME NEW i \in 1 .. n + 1
        PROVE  /\ packets'[i].size = BlockSize(i)
               /\ packets'[i].size > 0 => packets'[i].from = (i - 1) * CONTENT_SIZE
    <3>1. CASE i = n + 1
      BY <1>1, <1>2, <1>4, <3>1
    <3>2. CASE i \in 1 .. n
      BY <1>2, <3>2 DEF LoaderInv, PacketsAreBlocks
    <3>3. i = n + 1 \/ i \in 1 .. n
      BY <1>1
    <3> QED
      BY <3>1, <3>2, <3>3, Zenon
  <2> QED
    BY <1>2, <2>1, <2>2 DEF PacketsAreBlocks
<1>7. OnlyLastIsEmpty'
  <2>1. ASSUME NEW i \in 1 .. n + 1
        PROVE  packets'[i].size = 0 <=> (isFileExhausted' /\ i = n + 1)
    <3>1. CASE i = n + 1
      BY <1>2, <3>1
    <3>2. CASE i \in 1 .. n
      <4>1. packets[i].size # 0
        BY <3>2 DEF LoaderInv, OnlyLastIsEmpty
      <4> QED
        BY <1>1, <1>2, <3>2, <4>1, SMTT(30)
    <3> QED
      BY <1>1, <3>1, <3>2
  <2> QED
    BY <1>2, <2>1 DEF OnlyLastIsEmpty
<1> QED
  BY <1>3, <1>5, <1>6, <1>7 DEF LoaderInv

\* The block after those that were loaded.
LEMMA NextBlock ==
  ASSUME LoaderInv
  PROVE  /\ loaded \in Nat /\ Total \in Nat
         /\ BlockSize(Len(packets) + 1) =
              IF loaded + CONTENT_SIZE <= Total THEN CONTENT_SIZE
              ELSE IF loaded < Total THEN Total - loaded ELSE 0
<1> USE LoaderAssumption
<1>1. Len(packets) \in Nat /\ bytesToTransfer \in Nat /\ fileSize \in Nat
  BY DEF LoaderInv, LoaderTypeOK
<1>2. /\ loaded \in Nat
      /\ (Len(packets) + 1) * CONTENT_SIZE = loaded + CONTENT_SIZE
      /\ (Len(packets) + 1 - 1) * CONTENT_SIZE = loaded
  BY <1>1 DEF loaded
<1>3. Total \in Nat
  BY <1>1 DEF Total, Smaller
<1> QED
  BY <1>2, <1>3 DEF BlockSize

LEMMA LoadFINInv == LoaderInv /\ LoadFIN => LoaderInv'
<1> SUFFICES ASSUME LoaderInv, LoadFIN PROVE LoaderInv'
  OBVIOUS
<1> USE LoaderAssumption
<1>1. /\ bytesToTransfer \in Nat /\ fileSize \in Nat /\ filePosition \in Nat
      /\ filePosition = Smaller(loaded, fileSize)
      /\ bytesToTransfer = Smaller(bytesToTransfer, filePosition)
  BY DEF LoaderInv, LoaderTypeOK, PositionAfterPackets, LoadFIN, Smaller
<1>2. BlockSize(Len(packets) + 1) = 0
  BY <1>1, NextBlock DEF Total, Smaller
<1>3. isFileExhausted' = TRUE /\ ~ isFileExhausted
  BY DEF LoadFIN
<1>4. /\ packets' = Append(packets, [from |-> filePosition, size |-> 0])
      /\ UNCHANGED <<bytesToTransfer, fileSize, remainingBytesToRead, filePosition>>
      /\ remainingBytesToRead \in 0 .. bytesToTransfer
      /\ filePosition \in 0 .. fileSize
  BY DEF LoadFIN, LoaderInv, LoaderTypeOK
<1> QED
  BY <1>2, <1>3, <1>4, AppendInv

LEMMA LoadContentInv == LoaderInv /\ LoadContent => LoaderInv'
<1> SUFFICES ASSUME LoaderInv, LoadContent PROVE LoaderInv'
  OBVIOUS
<1> USE LoaderAssumption
<1>1. /\ bytesToTransfer \in Nat /\ fileSize \in Nat /\ filePosition \in Nat
      /\ filePosition = Smaller(loaded, fileSize)
      /\ remainingBytesToRead = bytesToTransfer - Smaller(bytesToTransfer, filePosition)
      /\ remainingBytesToRead > 0
  BY DEF LoaderInv, LoaderTypeOK, PositionAfterPackets, LoadContent
<1>2. /\ loaded \in Nat
      /\ BytesRead = Smaller(CONTENT_SIZE, fileSize - filePosition)
      /\ ContentSize = Smaller(remainingBytesToRead, BytesRead)
      /\ BytesRead \in 0 .. CONTENT_SIZE /\ filePosition + BytesRead <= fileSize
  BY <1>1, NextBlock DEF BytesRead, ContentSize, Smaller
<1>3. ContentSize \in 0 .. CONTENT_SIZE /\ (ContentSize = 0 <=> BytesRead = 0)
  BY <1>1, <1>2 DEF Smaller
<1>4. /\ ContentSize = BlockSize(Len(packets) + 1)
      /\ ContentSize > 0 => filePosition = loaded
  <2>1. CASE loaded <= fileSize
    BY <1>1, <1>2, <2>1, NextBlock DEF Total, Smaller
  <2>2. CASE loaded > fileSize
    BY <1>1, <1>2, <2>2, NextBlock DEF Total, Smaller
  <2> QED
    BY <1>1, <1>2, <2>1, <2>2
<1>5. /\ ~ isFileExhausted
      /\ packets' = Append(packets, [from |-> filePosition, size |-> ContentSize])
      /\ UNCHANGED <<bytesToTransfer, fileSize>>
      /\ remainingBytesToRead' = RemainingAfter
      /\ filePosition' = filePosition + BytesRead
      /\ isFileExhausted' = (BytesRead = 0)
  BY DEF LoadContent, AtEOF
<1>6. isFileExhausted' \in BOOLEAN
  BY <1>5, Zenon
<1>7. /\ filePosition' \in 0 .. fileSize
      /\ remainingBytesToRead' \in 0 .. bytesToTransfer
      /\ remainingBytesToRead' = bytesToTransfer - Smaller(bytesToTransfer, filePosition')
  BY <1>1, <1>2, <1>5 DEF RemainingAfter, Smaller
<1>8. ContentSize > 0 => filePosition' = Smaller(loaded + CONTENT_SIZE, fileSize)
  BY <1>1, <1>2, <1>4, <1>5 DEF Smaller
<1>9. isFileExhausted' <=> ContentSize = 0
  BY <1>3, <1>5
<1> QED
  BY <1>3, <1>4, <1>5, <1>6, <1>7, <1>8, <1>9, AppendInv

\* For every packet size, file and number of bytes asked for, the packets are
\* the blocks of the file's first Total bytes and only the last one is empty.
THEOREM LoaderSafe ==
  LoaderSpec => [](LoaderTypeOK /\ PacketsAreBlocks /\ OnlyLastIsEmpty)
<1>1. LoaderInv /\ [LoaderNext]_loaderVars => LoaderInv'
  <2> SUFFICES ASSUME LoaderInv, [LoaderNext]_loaderVars PROVE LoaderInv'
    OBVIOUS
  <2>1. CASE LoadFIN
    BY <2>1, LoadFINInv
  <2>2. CASE LoadContent
    BY <2>2, LoadContentInv
  <2>3. CASE UNCHANGED loaderVars
    BY <2>3 DEF loaderVars, LoaderInv, LoaderTypeOK, PositionAfterPackets, loaded,
       PacketsAreBlocks, OnlyLastIsEmpty, BlockSize, Total
  <2> QED
    BY <2>1, <2>2, <2>3 DEF LoaderNext, LoadNothing
<1>2. LoaderInv => LoaderTypeOK /\ PacketsAreBlocks /\ OnlyLastIsEmpty
  BY DEF LoaderInv
<1> QED
  BY LoaderInitInv, <1>1, <1>2, PTL DEF LoaderSpec

\* The receiver takes an empty packet for the end of the file: only the last
\* one is empty, also where the file ends with a full packet.
THEOREM EmptyPacketEnds == LoaderSpec => []OnlyLastIsEmpty
BY LoaderSafe, PTL

LEMMA StartedBlocks ==
  ASSUME NEW T \in Nat, NEW C \in Nat \ {0}, NEW k \in Nat,
         T <= k * C, k = 0 \/ (k - 1) * C < T
  PROVE  (T + C - 1) \div C = k
<1>1. T + C - 1 \in Nat
  OBVIOUS
<1>2. k * C <= T + C - 1 /\ T + C - 1 < (k + 1) * C
  <2>1. (k + 1) * C = k * C + C /\ (k - 1) * C = k * C - C /\ k * C \in Int
    OBVIOUS
  <2>2. CASE k = 0
    BY <2>2
  <2>3. CASE k # 0
    BY <2>1, <2>3
  <2> QED
    BY <2>2, <2>3
<1> QED
  BY <1>1, <1>2, QuotientIs

\* As many packets as module Packets assumes, when the file is exhausted: one for
\* every started block, and the empty one.
THEOREM LoadsAllBlocks ==
  LoaderSpec => [](isFileExhausted =>
                     Len(packets) = 1 + (Total + CONTENT_SIZE - 1) \div CONTENT_SIZE)
<1> DEFINE HasLast == isFileExhausted => Len(packets) # 0
           Count == isFileExhausted =>
                      Len(packets) = 1 + (Total + CONTENT_SIZE - 1) \div CONTENT_SIZE
<1>1. LoaderInit => HasLast
  BY DEF LoaderInit
<1>2. LoaderTypeOK /\ HasLast /\ [LoaderNext]_loaderVars => HasLast'
  <2> SUFFICES ASSUME LoaderTypeOK, HasLast, [LoaderNext]_loaderVars PROVE HasLast'
    OBVIOUS
  <2>1. CASE LoadFIN \/ LoadContent
    <3>1. Len(packets') = Len(packets) + 1 /\ Len(packets) \in Nat
      <4>1. PICK p : packets' = Append(packets, p)
        BY <2>1 DEF LoadFIN, LoadContent
      <4> QED
        BY <4>1, AppendProperties, LenProperties DEF LoaderTypeOK
    <3> QED
      BY <3>1
  <2>2. CASE UNCHANGED loaderVars
    BY <2>2 DEF loaderVars
  <2> QED
    BY <2>1, <2>2 DEF LoaderNext, LoadNothing
<1>3. LoaderTypeOK /\ PacketsAreBlocks /\ OnlyLastIsEmpty /\ HasLast => Count
  <2> SUFFICES ASSUME LoaderTypeOK, PacketsAreBlocks, OnlyLastIsEmpty, HasLast, isFileExhausted
               PROVE  Len(packets) = 1 + (Total + CONTENT_SIZE - 1) \div CONTENT_SIZE
    OBVIOUS
  <2> DEFINE n == Len(packets)
             k == n - 1
  <2>1. /\ CONTENT_SIZE \in Nat \ {0} /\ Total \in Nat
        /\ n \in Nat /\ n >= 1 /\ k \in Nat
    BY LoaderAssumption, LenProperties DEF LoaderTypeOK, Total, Smaller
  <2>2. BlockSize(n) = 0
    BY <2>1 DEF PacketsAreBlocks, OnlyLastIsEmpty
  <2>3. Total <= k * CONTENT_SIZE
    BY <2>1, <2>2 DEF BlockSize
  <2>4. k # 0 => BlockSize(k) # 0
    <3> SUFFICES ASSUME k # 0 PROVE BlockSize(k) # 0
      OBVIOUS
    <3> HIDE DEF n
    <3>1. k \in 1 .. n /\ k # n
      BY <2>1
    <3> USE DEF n
    <3>2. packets[k].size = BlockSize(k) /\ packets[k].size # 0
      BY <3>1 DEF PacketsAreBlocks, OnlyLastIsEmpty
    <3> QED
      BY <3>2
  <2> HIDE DEF n
  <2>5. k # 0 => (k - 1) * CONTENT_SIZE < Total
    <3> SUFFICES ASSUME k # 0 PROVE (k - 1) * CONTENT_SIZE < Total
      OBVIOUS
    <3>1. (k - 1) * CONTENT_SIZE = k * CONTENT_SIZE - CONTENT_SIZE
      BY <2>1
    <3> QED
      BY <2>1, <2>4, <3>1 DEF BlockSize
  <2>6. (Total + CONTENT_SIZE - 1) \div CONTENT_SIZE = k
    BY <2>1, <2>3, <2>5, StartedBlocks
  <2> QED
    BY <2>1, <2>6 DEF n
<1> QED
  BY LoaderSafe, <1>1, <1>2, <1>3, PTL DEF LoaderSpec

-----------------------------------------------------------------------------
(* The sender                                                              *)

LEMMA GrowProperties ==
  ASSUME NEW w \in Nat, w >= Unit, NEW step \in Nat
  PROVE  Grow(w, step) \in Nat /\ Grow(w, step) >= w
<1> DEFINE Next1(x) == x + (2 * Unit) \div (x \div Unit)
           Table(g, n) == g = [k \in 0 .. n |-> IF k = 0 THEN w ELSE Next1(g[k - 1])]
           Good(g, n) == \A k \in 0 .. n : g[k] \in Nat /\ g[k] >= w
           S == {n \in Nat : /\ \E g : Table(g, n)
                             /\ \A g : Table(g, n) => Good(g, n)}
<1>1. \A x \in Nat : x >= w => Next1(x) \in Nat /\ Next1(x) >= w
  BY Quotient, SenderAssumption
<1> HIDE DEF Next1
<1>2. 0 \in S
  <2>1. Table([k \in 0 .. 0 |-> w], 0)
    OBVIOUS
  <2>2. \A g : Table(g, 0) => Good(g, 0)
    OBVIOUS
  <2> QED BY <2>1, <2>2
<1>3. ASSUME NEW n \in Nat, n \in S PROVE n + 1 \in S
  <2>1. PICK g : Table(g, n)
    BY <1>3
  <2>2. \E h : Table(h, n + 1)
    <3> DEFINE h == [k \in 0 .. n + 1 |-> IF k <= n THEN g[k] ELSE Next1(g[n])]
    <3>0. h = [k \in 0 .. n + 1 |-> h[k]]
      OBVIOUS
    <3>1. ASSUME NEW k \in 0 .. n + 1
          PROVE  h[k] = IF k = 0 THEN w ELSE Next1(h[k - 1])
      <4>1. CASE k = 0
        BY <2>1, <4>1
      <4>2. CASE k > 0 /\ k <= n
        <5>1. h[k] = g[k] /\ h[k-1] = g[k - 1]
          BY <4>2
        <5>2. g[k] = Next1(g[k - 1])
          BY <2>1, <4>2
        <5> QED BY <4>2, <5>1, <5>2
      <4>3. CASE k = n + 1
        <5>1. h[k] = Next1(g[n]) /\ h[k-1] = g[n]
          BY <4>3
        <5> QED BY <4>3, <5>1
      <4> QED BY <4>1, <4>2, <4>3
    <3>2. h = [k \in 0 .. n + 1 |-> IF k = 0 THEN w ELSE Next1(h[k - 1])]
      <4> HIDE DEF h
      <4> QED BY <3>0, <3>1
    <3> QED BY <3>2
  <2>3. ASSUME NEW h, Table(h, n + 1) PROVE Good(h, n + 1)
    <3> DEFINE f == [k \in 0 .. n |-> h[k]]
    <3>1. Table(f, n)
      BY <2>3
    <3>2. Good(f, n)
      BY <1>3, <3>1
    <3>3. h[n + 1] = Next1(f[n])
      BY <2>3
    <3> QED BY <1>1, <3>2, <3>3
  <2> QED BY <2>2, <2>3
<1>4. step \in S
  BY <1>2, <1>3, SetInduction
<1> DEFINE G == CHOOSE g : Table(g, step)
<1>5. Table(G, step) /\ Good(G, step)
  BY <1>4
<1>6. Grow(w, step) = G[step]
  BY DEF Grow, Next1
<1> QED
  BY <1>5, <1>6

-----------------------------------------------------------------------------
(* The window arithmetic.                                                  *)

LEMMA ScaleUnit ==
  ASSUME NEW a \in Int, NEW b \in Int
  PROVE  /\ Unit * a \in Int
         /\ a <= b => Unit * a <= Unit * b
         /\ a < b => Unit * a < Unit * b
         /\ Unit * (a + 1) = Unit * a + Unit
  BY SenderAssumption

LEMMA WindowRounding ==
  ASSUME NEW w \in Nat, w >= Unit
  PROVE  /\ Ceil(w) \in Nat /\ Ceil(w) >= 1
         /\ Half(w) \in Nat /\ Half(w) >= 1
<1>1. Unit \in Nat /\ Unit >= 1 /\ 2 * Unit \in Nat \ {0}
  BY SenderAssumption
<1>2. Ceil(w) \in Nat /\ Ceil(w) >= 1
  BY <1>1, Quotient DEF Ceil
<1>3. Half(w) \in Nat /\ Half(w) >= 1
  BY <1>1, Quotient DEF Half
<1> QED
  BY <1>2, <1>3

WindowPacket == [id : Nat, chunk : Chunks]

LEMMA NewPacketsProperties ==
  ASSUME SenderTypeOK, windowSize >= Unit
  PROVE  /\ NewPacketCnt \in Nat
         /\ nextChunk + NewPacketCnt <= NumChunks + 1
         /\ sentButNotAcked = <<>> /\ ~ allRead => NewPacketCnt >= 1
         /\ PacketIdToAdd \in Nat
         /\ NewPackets \in Seq(WindowPacket)
         /\ Len(NewPackets) = NewPacketCnt
<1>1. Ceil(windowSize) \in Nat /\ Ceil(windowSize) >= 1
  BY WindowRounding DEF SenderTypeOK
<1>2. /\ NewPacketCnt \in Nat
      /\ nextChunk + NewPacketCnt <= NumChunks + 1
      /\ sentButNotAcked = <<>> /\ ~ allRead => NewPacketCnt >= 1
  BY <1>1, NumChunksAssumption DEF NewPacketCnt, SenderTypeOK, allRead
<1>3. PacketIdToAdd \in Nat
  <2>1. CASE sentButNotAcked = <<>>
    BY <2>1, NumChunksAssumption DEF PacketIdToAdd, SenderTypeOK
  <2>2. CASE sentButNotAcked # <<>>
    <3>1. Len(sentButNotAcked) \in 1 .. Len(sentButNotAcked)
      BY <2>2, EmptySeq DEF SenderTypeOK
    <3>2. sentButNotAcked[Len(sentButNotAcked)] \in [id : Nat, chunk : Chunks]
      BY <3>1, ElementOfSeq DEF SenderTypeOK
    <3> QED
      BY <2>2, <3>2 DEF PacketIdToAdd
  <2> QED
    BY <2>1, <2>2
<1>4. \A i \in 1 .. NewPacketCnt :
        Packet(PacketIdToAdd + i - 1, nextChunk + i - 1) \in WindowPacket
  BY <1>2, <1>3, NumChunksAssumption DEF Packet, WindowPacket, Chunks, SenderTypeOK
<1>5. NewPackets \in Seq(WindowPacket) /\ Len(NewPackets) = NewPacketCnt
  BY <1>2, <1>4 DEF NewPackets
<1> QED
  BY <1>2, <1>3, <1>5

LEMMA RemoveACKedProperties ==
  ASSUME NEW ackId, SenderTypeOK, RemoveACKed(ackId)
  PROVE  /\ sentButNotAcked' \in Seq(WindowPacket)
         /\ Len(sentButNotAcked') <= Len(sentButNotAcked)
<1>1. PICK k \in 0 .. Len(sentButNotAcked) :
        sentButNotAcked' = SubSeq(sentButNotAcked, k + 1, Len(sentButNotAcked))
  BY DEF RemoveACKed, IsACKed
<1>2. Len(sentButNotAcked) \in Nat /\ sentButNotAcked \in Seq(WindowPacket)
  BY DEF SenderTypeOK, WindowPacket
<1>3. \A i \in k + 1 .. Len(sentButNotAcked) : sentButNotAcked[i] \in WindowPacket
  BY <1>2, ElementOfSeq
<1> QED
  BY <1>1, <1>2, <1>3, SubSeqProperties

-----------------------------------------------------------------------------
(* The inductive invariant.  Two facts strengthen the properties: the loop *)
(* test keeps a sender with nothing left to do out of "act", and the left  *)
(* side of the window never passes the next ACK, so that the step counts   *)
(* of the ACK handlers are positive.                                       *)

ActHasWork == senderPC = "act" => ~ isFinished
LeftNotAhead == leftPacketId <= lastReceivedACKId + 1

SenderInv ==
  /\ SenderTypeOK
  /\ SomethingOutstanding
  /\ PhaseMatchesWindow
  /\ ActHasWork
  /\ LeftNotAhead

LEMMA SenderInitInv == SenderInit => SenderInv
<1> SUFFICES ASSUME SenderInit PROVE SenderInv
  OBVIOUS
<1> USE NumChunksAssumption, SenderAssumption
<1>1. SenderTypeOK
  BY DEF SenderInit, FirstWindow, SenderTypeOK, PacketIds, Chunks
<1>2. PhaseMatchesWindow
  <2>1. Unit * 1 < Unit * InitSsthresh /\ Unit * 1 = Unit
    BY ScaleUnit
  <2> QED
    BY <2>1 DEF SenderInit, FirstWindow, PhaseMatchesWindow
<1>3. SomethingOutstanding /\ ActHasWork /\ LeftNotAhead
  BY DEF SenderInit, FirstWindow, SomethingOutstanding, ActHasWork, LeftNotAhead,
         isFinished, allRead
<1> QED
  BY <1>1, <1>2, <1>3 DEF SenderInv

LEMMA SenderActInv == SenderInv /\ SenderAct => SenderInv'
<1> SUFFICES ASSUME SenderInv, SenderAct PROVE SenderInv'
  OBVIOUS
<1>1. SenderTypeOK /\ PhaseMatchesWindow /\ LeftNotAhead /\ ActHasWork
      /\ SomethingOutstanding /\ windowSize >= Unit
  BY DEF SenderInv, PhaseMatchesWindow
<1>2. /\ UNCHANGED <<lastReceivedACKId, state, windowSize, ssthresh, leftPacketId,
                     dupACKCnt, nextAction>>
      /\ senderPC = "act" /\ senderPC' = "recv"
  BY DEF SenderAct
<1>3. PhaseMatchesWindow' /\ LeftNotAhead' /\ ActHasWork'
  BY <1>1, <1>2 DEF PhaseMatchesWindow, LeftNotAhead, ActHasWork
<1>4. CASE /\ nextAction = "sendNew"
           /\ sentButNotAcked' = sentButNotAcked \o NewPackets
           /\ nextChunk' = nextChunk + NewPacketCnt
  <2>1. /\ NewPacketCnt \in Nat
        /\ nextChunk + NewPacketCnt <= NumChunks + 1
        /\ sentButNotAcked = <<>> /\ ~ allRead => NewPacketCnt >= 1
        /\ NewPackets \in Seq(WindowPacket)
        /\ Len(NewPackets) = NewPacketCnt
    BY <1>1, NewPacketsProperties
  <2>2. sentButNotAcked \in Seq(WindowPacket)
    BY <1>1 DEF SenderTypeOK, WindowPacket
  <2>3. /\ sentButNotAcked' \in Seq(WindowPacket)
        /\ Len(sentButNotAcked') = Len(sentButNotAcked) + NewPacketCnt
    BY <1>4, <2>1, <2>2, ConcatProperties
  <2>4. SenderTypeOK'
    BY <1>1, <1>2, <1>4, <2>1, <2>3, NumChunksAssumption DEF SenderTypeOK, WindowPacket
  <2>5. sentButNotAcked' # <<>>
    <3>1. CASE sentButNotAcked = <<>>
      BY <1>1, <1>2, <2>1, <2>2, <2>3, <3>1, EmptySeq DEF ActHasWork, isFinished
    <3>2. CASE sentButNotAcked # <<>>
      BY <2>1, <2>2, <2>3, <3>2, EmptySeq
    <3> QED
      BY <3>1, <3>2
  <2> QED
    BY <1>3, <2>4, <2>5, <1>2 DEF SenderInv, SomethingOutstanding
<1>5. CASE /\ nextAction \in {"resend", "waitACK"}
           /\ UNCHANGED <<sentButNotAcked, nextChunk>>
  BY <1>1, <1>2, <1>3, <1>5 DEF SenderInv, SenderTypeOK, SomethingOutstanding
<1> QED
  BY <1>4, <1>5 DEF SenderAct

LEMMA TimeoutInv == SenderInv /\ Timeout => SenderInv'
<1> SUFFICES ASSUME SenderInv, Timeout PROVE SenderInv'
  OBVIOUS
<1>1. SenderTypeOK /\ SomethingOutstanding /\ LeftNotAhead /\ windowSize >= Unit
  BY DEF SenderInv, PhaseMatchesWindow
<1>2. Half(windowSize) \in Nat /\ Half(windowSize) >= 1
  BY <1>1, WindowRounding DEF SenderTypeOK
<1>3. sentButNotAcked # <<>> /\ senderPC' \in {"act", "closed"}
  BY <1>1 DEF Timeout, AfterLoss, AfterTimeout, SomethingOutstanding, LoopTest
<1>4. SenderTypeOK'
  BY <1>1, <1>2, <1>3, SenderAssumption DEF Timeout, AfterLoss, AfterTimeout, SenderTypeOK
<1>5. PhaseMatchesWindow'
  <2>1. Unit * 1 < Unit * (Half(windowSize) + 1) /\ Unit * 1 = Unit
    BY <1>2, ScaleUnit, SenderAssumption
  <2> QED
    BY <1>2, <2>1, SenderAssumption DEF Timeout, AfterLoss, AfterTimeout, PhaseMatchesWindow
<1>6. SomethingOutstanding' /\ ActHasWork' /\ LeftNotAhead'
  BY <1>1, <1>3 DEF Timeout, AfterLoss, AfterTimeout, SomethingOutstanding, ActHasWork,
                    LeftNotAhead, isFinished
<1> QED
  BY <1>4, <1>5, <1>6 DEF SenderInv

LEMMA DupACKInv == SenderInv /\ senderPC = "recv" /\ DupACK => SenderInv'
<1> SUFFICES ASSUME SenderInv, senderPC = "recv", DupACK PROVE SenderInv'
  OBVIOUS
<1>1. SenderTypeOK /\ SomethingOutstanding /\ LeftNotAhead /\ PhaseMatchesWindow
      /\ windowSize >= Unit
  BY DEF SenderInv, PhaseMatchesWindow
<1>2. /\ UNCHANGED <<lastReceivedACKId, nextChunk, sentButNotAcked, leftPacketId>>
      /\ senderPC' = LoopTest'
      /\ senderPC' \in {"act", "closed"}
  BY DEF DupACK, LoopTest
<1>3. sentButNotAcked' # <<>>
  BY <1>1, <1>2 DEF SomethingOutstanding
<1>4. SomethingOutstanding' /\ ActHasWork' /\ LeftNotAhead'
  BY <1>1, <1>2, <1>3 DEF SomethingOutstanding, ActHasWork, LeftNotAhead, LoopTest
<1>5. CASE SlowStartDupACK
  BY <1>1, <1>2, <1>4, <1>5 DEF SenderInv, SlowStartDupACK, SenderTypeOK,
     PhaseMatchesWindow
<1>6. CASE CongAvoidDupACK
  <2>1. CASE dupACKCnt' >= 3
    <3>1. Half(windowSize) \in Nat /\ Half(windowSize) >= 1
      BY <1>1, WindowRounding DEF SenderTypeOK
    <3>2. /\ ssthresh' = Half(windowSize) + 1
          /\ windowSize' = Unit * (ssthresh' + 3)
          /\ nextAction' = "resend" /\ state' = "FastRecovery"
          /\ dupACKCnt' = dupACKCnt + 1
      BY <1>6, <2>1 DEF CongAvoidDupACK, AfterLoss
    <3>3. /\ Unit * 1 <= Unit * (ssthresh' + 3) /\ Unit * 1 = Unit
          /\ Unit * ssthresh' <= Unit * (ssthresh' + 3)
      BY <3>1, <3>2, ScaleUnit, SenderAssumption
    <3>4. Unit * (ssthresh' + 3) \in Int
      BY <3>1, <3>2, ScaleUnit
    <3>5. SenderTypeOK'
      BY <1>1, <1>2, <3>1, <3>2, <3>3, <3>4, SenderAssumption, SMTT(30) DEF SenderTypeOK
    <3>6. PhaseMatchesWindow'
      BY <3>1, <3>2, <3>3, <3>4 DEF PhaseMatchesWindow
    <3> QED
      BY <1>4, <3>5, <3>6 DEF SenderInv
  <2>2. CASE ~ (dupACKCnt' >= 3)
    BY <1>1, <1>2, <1>4, <1>6, <2>2 DEF SenderInv, CongAvoidDupACK, SenderTypeOK,
       PhaseMatchesWindow
  <2> QED
    BY <2>1, <2>2
<1>7. CASE FastRecoveryDupACK
  <2>1. windowSize' \in Nat /\ windowSize' >= windowSize
    BY <1>1, <1>7, SenderAssumption DEF FastRecoveryDupACK, SenderTypeOK
  <2>2. SenderTypeOK'
    BY <1>1, <1>2, <1>7, <2>1 DEF FastRecoveryDupACK, SenderTypeOK
  <2>3. PhaseMatchesWindow'
    <3>1. Unit * ssthresh \in Int
      BY <1>1, ScaleUnit DEF SenderTypeOK
    <3> QED
      BY <1>1, <1>7, <2>1, <3>1, SenderAssumption
      DEF FastRecoveryDupACK, SenderTypeOK, PhaseMatchesWindow
  <2> QED
    BY <1>4, <2>2, <2>3 DEF SenderInv
<1> QED
  BY <1>5, <1>6, <1>7 DEF DupACK

LEMMA NewACKInv ==
  ASSUME SenderInv, senderPC = "recv", NEW ackId \in PacketIds,
         ackId > lastReceivedACKId, NewACK(ackId)
  PROVE  SenderInv'
<1> DEFINE step == ackId - leftPacketId + 1
<1>1. SenderTypeOK /\ LeftNotAhead /\ PhaseMatchesWindow /\ windowSize >= Unit
  BY DEF SenderInv, PhaseMatchesWindow
<1>2. step \in Nat /\ step >= 1 /\ ackId \in Nat /\ ackId <= NumChunks
  BY <1>1, NumChunksAssumption DEF SenderTypeOK, LeftNotAhead, PacketIds
<1>3. /\ lastReceivedACKId' = ackId /\ dupACKCnt' = 0 /\ nextAction' = "sendNew"
      /\ nextChunk' = nextChunk
      /\ sentButNotAcked' \in Seq(WindowPacket)
  BY <1>1, RemoveACKedProperties DEF NewACK
<1>4. \* What remains to be shown of the handler of each phase.
      ASSUME /\ windowSize' \in Nat /\ windowSize' >= Unit
             /\ state' \in {"SlowStart", "CongAvoid"}
             /\ ssthresh' = ssthresh
             /\ IF state' = "SlowStart" THEN windowSize' < Unit * ssthresh
                                        ELSE windowSize' >= Unit * ssthresh
             /\ leftPacketId' \in {leftPacketId, ackId + 1}
             /\ senderPC' \in {LoopTest', "crashed"}
      PROVE  SenderInv'
  <2>1. SenderTypeOK'
    BY <1>1, <1>2, <1>3, <1>4, NumChunksAssumption
    DEF SenderTypeOK, WindowPacket, LoopTest, PacketIds
  <2>2. PhaseMatchesWindow'
    BY <1>1, <1>4 DEF PhaseMatchesWindow
  <2>3. LeftNotAhead'
    BY <1>1, <1>2, <1>3, <1>4 DEF LeftNotAhead, SenderTypeOK
  <2>4. SomethingOutstanding' /\ ActHasWork'
    BY <1>3, <1>4 DEF SomethingOutstanding, ActHasWork, LoopTest
  <2> QED
    BY <2>1, <2>2, <2>3, <2>4 DEF SenderInv
<1>5. CASE SlowStartNewACK(ackId)
  <2>1. Unit * step \in Int /\ Unit * 0 <= Unit * step /\ Unit * 0 = 0
    BY <1>2, ScaleUnit, SenderAssumption
  <2>2. Unit * ssthresh \in Int
    BY <1>1, ScaleUnit DEF SenderTypeOK
  <2>3. windowSize' = windowSize + Unit * step /\ ssthresh' = ssthresh
    BY <1>5 DEF SlowStartNewACK, NextLeft
  <2>4. windowSize' \in Nat /\ windowSize' >= Unit
    BY <1>1, <2>1, <2>3, SenderAssumption DEF SenderTypeOK
  <2>5. /\ leftPacketId' = ackId + 1
        /\ state' = IF windowSize' >= Unit * ssthresh THEN "CongAvoid" ELSE "SlowStart"
        /\ senderPC' = LoopTest'
    BY <1>5 DEF SlowStartNewACK, NextLeft
  <2> QED
    BY <1>4, <2>2, <2>3, <2>4, <2>5
<1>6. CASE CongAvoidNewACK(ackId)
  <2>1. /\ windowSize' = Grow(windowSize, step)
        /\ leftPacketId' = ackId + 1 /\ senderPC' = LoopTest'
        /\ state = "CongAvoid" /\ UNCHANGED <<state, ssthresh>>
    BY <1>6 DEF CongAvoidNewACK, NextLeft
  <2>2. windowSize' \in Nat /\ windowSize' >= windowSize
    BY <1>1, <1>2, <2>1, GrowProperties DEF SenderTypeOK
  <2>3. Unit * ssthresh \in Int /\ windowSize >= Unit * ssthresh
    BY <1>1, <2>1, ScaleUnit DEF SenderTypeOK, PhaseMatchesWindow
  <2> QED
    BY <1>1, <1>4, <2>1, <2>2, <2>3, SenderAssumption DEF SenderTypeOK
<1>7. CASE FastRecoveryNewACK(ackId)
  <2>1. /\ windowSize' = Unit * ssthresh /\ state' = "CongAvoid"
        /\ ssthresh' = ssthresh
        /\ leftPacketId' \in {leftPacketId, ackId + 1}
        /\ senderPC' \in {LoopTest', "crashed"}
    BY <1>7 DEF FastRecoveryNewACK, NextLeft
  <2>2. Unit * ssthresh \in Int /\ Unit * 1 <= Unit * ssthresh /\ Unit * 1 = Unit
    BY <1>1, ScaleUnit, SenderAssumption DEF SenderTypeOK, PhaseMatchesWindow
  <2> QED
    BY <1>4, <2>1, <2>2, SenderAssumption
<1> QED
  BY <1>5, <1>6, <1>7 DEF NewACK

LEMMA ReceiveACKInv ==
  ASSUME SenderInv, NEW ack \in {-1} \cup PacketIds, ReceiveACK(ack)
  PROVE  SenderInv'
<1>1. CASE DecodeACK(ack) = lastReceivedACKId /\ DupACK
  BY <1>1, DupACKInv DEF ReceiveACK
<1>2. CASE DecodeACK(ack) # lastReceivedACKId /\ NewACK(DecodeACK(ack))
  <2>1. DecodeACK(ack) \in PacketIds /\ DecodeACK(ack) > lastReceivedACKId
    BY <1>2, NumChunksAssumption DEF DecodeACK, PacketIds, SenderInv, SenderTypeOK
  <2> QED
    BY <1>2, <2>1, NewACKInv DEF ReceiveACK
<1> QED
  BY <1>1, <1>2 DEF ReceiveACK

LEMMA SenderNextInv == SenderInv /\ [SenderNext]_senderVars => SenderInv'
<1> SUFFICES ASSUME SenderInv, [SenderNext]_senderVars PROVE SenderInv'
  OBVIOUS
<1>1. CASE UNCHANGED senderVars
  BY <1>1 DEF senderVars, SenderInv, SenderTypeOK, SomethingOutstanding,
     PhaseMatchesWindow, ActHasWork, LeftNotAhead, isFinished, allRead
<1>2. CASE SenderAct
  BY <1>2, SenderActInv
<1>3. CASE Timeout
  BY <1>3, TimeoutInv
<1>4. CASE \E ack \in {-1} \cup PacketIds : ReceiveACK(ack)
  BY <1>4, ReceiveACKInv
<1>5. CASE SenderStopped
  BY <1>1, <1>5 DEF SenderStopped
<1> QED
  BY <1>1, <1>2, <1>3, <1>4, <1>5 DEF SenderNext

\* The sender's variables keep their types, its deque is never empty when it
\* waits or must resend, and its congestion phase agrees with its window, for
\* every file and every sequence of timeouts and acknowledgements.
THEOREM SenderSafe ==
  SenderSpec => [](SenderTypeOK /\ SomethingOutstanding /\ PhaseMatchesWindow)
<1>1. SenderInv => SenderTypeOK /\ SomethingOutstanding /\ PhaseMatchesWindow
  BY DEF SenderInv
<1> QED
  BY SenderInitInv, SenderNextInv, <1>1, PTL DEF SenderSpec

-----------------------------------------------------------------------------
(* The transfer                                                            *)

(***************************************************************************)
(* The inductive invariant.  Everything the properties say about what is   *)
(* written follows from where each packet is: ids are positions in the     *)
(* file, the window is the interval after the last ACK, everything in      *)
(* flight or buffered was read from the file, and nobody acknowledges what *)
(* was not written.                                                        *)
(***************************************************************************)

\* The window holds the packets from the last ACK to the last packet read.
WindowIsInterval ==
  /\ nextChunk = lastReceivedACKId + 1 + Len(sentButNotAcked)
  /\ \A i \in 1 .. Len(sentButNotAcked) :
       sentButNotAcked[i] = Packet(lastReceivedACKId + i, lastReceivedACKId + i)

\* A packet's id is the position of its chunk, and the chunk was read.
DataAreChunks == \A p \in dataNet : p.id = p.chunk /\ p.id < nextChunk
BufferIsChunks ==
  \A id \in DOMAIN buffer : buffer[id] = id /\ id > nextPacketId /\ id < nextChunk

DestIsPrefix ==
  /\ dest = [i \in 1 .. nextPacketId |-> i - 1]
  /\ nextPacketId <= nextChunk

\* Acknowledgements in flight or received are for packets that are written.
ACKsAreWritten ==
  /\ \A ack \in ackNet : ack >= 0 /\ ack < nextPacketId
  /\ lastReceivedACKId < nextPacketId

\* Before packet 0 arrives the window has not grown beyond it.
FirstPacketAlone == nextPacketId = 0 => windowSize = Unit /\ nextChunk <= 1

\* The receiver leaves when all is written, and knows the FIN by then.
LeavesAtEnd ==
  /\ receiverOpen <=> nextPacketId # NumChunks + 1
  /\ lastPacketFound => lastPacketSeqNo = NumChunks
  /\ NumChunks \in DOMAIN buffer => lastPacketFound
  /\ nextPacketId = NumChunks + 1 => lastPacketFound

ClosedIsFinished == senderPC = "closed" => isFinished

TransferInv ==
  /\ SenderInv
  /\ ReceiverTypeOK
  /\ dataNet \subseteq Datagrams
  /\ ackNet \subseteq {-1} \cup PacketIds
  /\ LeftIsNextACK
  /\ WindowIsInterval
  /\ DataAreChunks
  /\ BufferIsChunks
  /\ DestIsPrefix
  /\ ACKsAreWritten
  /\ FirstPacketAlone
  /\ LeavesAtEnd
  /\ ClosedIsFinished
-----------------------------------------------------------------------------
ReadsOldOrFaults == "stale" \notin ContextAfterFree

LEMMA TransferInitInv == Init => TransferInv
<1> SUFFICES ASSUME Init PROVE TransferInv
  OBVIOUS
<1> USE NumChunksAssumption, SenderAssumption
<1>1. SenderInv
  BY SenderInitInv DEF Init
<1>2. ReceiverTypeOK
  <2>1. DOMAIN buffer = {} /\ buffer \in [{} -> Chunks]
    BY DEF Init, ReceiverInit
  <2>2. dest \in Seq(Chunks)
    BY EmptySeq DEF Init, ReceiverInit
  <2>3. /\ DOMAIN buffer \subseteq PacketIds
        /\ buffer \in [DOMAIN buffer -> Chunks]
    BY <2>1
  <2>4. nextPacketId \in 0 .. NumChunks + 1 /\ lastPacketSeqNo \in PacketIds
    BY DEF Init, ReceiverInit, PacketIds
  <2>5. lastPacketFound \in BOOLEAN /\ receiverOpen \in BOOLEAN
    BY Zenon DEF Init, ReceiverInit
  <2> QED
    BY <2>2, <2>3, <2>4, <2>5 DEF ReceiverTypeOK
<1>3. LeftIsNextACK /\ WindowIsInterval /\ FirstPacketAlone /\ ClosedIsFinished
  BY DEF Init, SenderInit, FirstWindow, LeftIsNextACK, WindowIsInterval, FirstPacketAlone,
         ClosedIsFinished
<1>4. DataAreChunks /\ BufferIsChunks /\ DestIsPrefix /\ ACKsAreWritten /\ LeavesAtEnd
  BY DEF Init, SenderInit, FirstWindow, ReceiverInit, DataAreChunks, BufferIsChunks, DestIsPrefix,
         ACKsAreWritten, LeavesAtEnd
<1> QED
  BY <1>1, <1>2, <1>3, <1>4 DEF Init, TransferInv

\* What TransferInv says of the integers, in one place.
LEMMA Ranges ==
  ASSUME TransferInv
  PROVE  /\ lastReceivedACKId \in Int /\ lastReceivedACKId >= -1
         /\ nextChunk \in Nat /\ nextChunk <= NumChunks + 1
         /\ nextPacketId \in Nat /\ nextPacketId <= nextChunk
         /\ lastReceivedACKId < nextPacketId
         /\ sentButNotAcked \in Seq(WindowPacket)
         /\ Len(sentButNotAcked) \in Nat
         /\ nextChunk = lastReceivedACKId + 1 + Len(sentButNotAcked)
         /\ NumChunks \in Nat
  BY NumChunksAssumption
  DEF TransferInv, SenderInv, SenderTypeOK, ReceiverTypeOK, PacketIds, DestIsPrefix,
      ACKsAreWritten, WindowIsInterval, WindowPacket

LEMMA ActInv == TransferInv /\ Act => TransferInv'
<1> SUFFICES ASSUME TransferInv, Act PROVE TransferInv'
  OBVIOUS
<1>1. /\ UNCHANGED <<lastReceivedACKId, leftPacketId, windowSize, receiverVars, ackNet>>
      /\ senderPC = "act" /\ senderPC' = "recv"
      /\ dataNet' = dataNet \cup Outgoing
  BY DEF Act, SenderAct
<1>2. SenderInv'
  BY SenderActInv DEF TransferInv, Act
<1>3. ReceiverTypeOK' /\ ackNet' \subseteq {-1} \cup PacketIds /\ LeftIsNextACK'
      /\ ACKsAreWritten' /\ LeavesAtEnd' /\ ClosedIsFinished'
  BY <1>1 DEF TransferInv, receiverVars, ReceiverTypeOK, LeftIsNextACK, ACKsAreWritten,
     LeavesAtEnd, ClosedIsFinished
<1>4. CASE /\ nextAction = "sendNew"
           /\ sentButNotAcked' = sentButNotAcked \o NewPackets
           /\ nextChunk' = nextChunk + NewPacketCnt
  <2> DEFINE len == Len(sentButNotAcked)
  <2>1. /\ NewPacketCnt \in Nat
        /\ nextChunk + NewPacketCnt <= NumChunks + 1
        /\ NewPackets \in Seq(WindowPacket)
        /\ Len(NewPackets) = NewPacketCnt
    BY NewPacketsProperties DEF TransferInv, SenderInv, PhaseMatchesWindow
  <2>2. PacketIdToAdd = nextChunk
    <3>1. CASE sentButNotAcked = <<>>
      BY <1>1, <3>1, Ranges DEF PacketIdToAdd, TransferInv, LeftIsNextACK
    <3>2. CASE sentButNotAcked # <<>>
      <4>1. len \in 1 .. len
        BY <3>2, Ranges, EmptySeq
      <4>2. sentButNotAcked[len] = Packet(lastReceivedACKId + len, lastReceivedACKId + len)
        BY <4>1 DEF TransferInv, WindowIsInterval
      <4> QED
        BY <3>2, <4>2, Ranges DEF PacketIdToAdd, Packet
    <3> QED
      BY <3>1, <3>2
  <2>3. \A i \in 1 .. NewPacketCnt :
          NewPackets[i] = Packet(nextChunk + i - 1, nextChunk + i - 1)
    BY <2>2 DEF NewPackets
  <2>4. WindowIsInterval'
    <3>1. /\ Len(sentButNotAcked') = len + NewPacketCnt
          /\ \A i \in 1 .. len + NewPacketCnt :
               sentButNotAcked'[i] = IF i <= len THEN sentButNotAcked[i]
                                                 ELSE NewPackets[i - len]
      BY <1>4, <2>1, Ranges, ConcatProperties
    <3>2. ASSUME NEW i \in 1 .. len + NewPacketCnt
          PROVE  sentButNotAcked'[i] = Packet(lastReceivedACKId + i, lastReceivedACKId + i)
      <4>1. CASE i <= len
        BY <3>1, <4>1, Ranges DEF TransferInv, WindowIsInterval
      <4>2. CASE i > len
        <5>1. i - len \in 1 .. NewPacketCnt
          BY <2>1, <4>2, Ranges
        <5>2. nextChunk + (i - len) - 1 = lastReceivedACKId + i
          BY Ranges
        <5>3. sentButNotAcked'[i] = NewPackets[i - len]
          BY <3>1, <4>2, Ranges
        <5> QED
          BY <2>3, <5>1, <5>2, <5>3
      <4> QED
        BY <4>1, <4>2, Ranges
    <3>3. nextChunk' = lastReceivedACKId' + 1 + Len(sentButNotAcked')
      BY <1>1, <1>4, <2>1, <3>1, Ranges
    <3> QED
      BY <1>1, <3>1, <3>2, <3>3 DEF WindowIsInterval
  <2>5. DataAreChunks' /\ dataNet' \subseteq Datagrams
    <3>1. ASSUME NEW p \in Outgoing
          PROVE  p.id = p.chunk /\ p.id < nextChunk' /\ p \in Datagrams
      <4>1. PICK i \in 1 .. NewPacketCnt : p = NewPackets[i]
        BY <1>4 DEF Outgoing
      <4>2. p = Packet(nextChunk + i - 1, nextChunk + i - 1)
        BY <2>3, <4>1
      <4> QED
        BY <1>4, <2>1, <4>2, Ranges, SMTT(30) DEF Packet, Datagrams, PacketIds, Chunks
    <3>2. ASSUME NEW p \in dataNet PROVE p.id = p.chunk /\ p.id < nextChunk'
      <4>1. p.id = p.chunk /\ p.id < nextChunk /\ p.id \in Nat
        BY Ranges DEF TransferInv, DataAreChunks, Datagrams, PacketIds
      <4> QED
        BY <1>4, <2>1, <4>1, Ranges, SMTT(30)
    <3> QED
      BY <1>1, <3>1, <3>2 DEF DataAreChunks, TransferInv
  <2>6. BufferIsChunks' /\ DestIsPrefix'
    <3>1. nextChunk' \in Nat /\ nextChunk <= nextChunk'
      BY <1>4, <2>1, Ranges
    <3>2. BufferIsChunks'
      <4>1. \A id \in DOMAIN buffer : id \in Nat
        BY DEF TransferInv, ReceiverTypeOK, PacketIds
      <4> QED
        BY <1>1, <3>1, <4>1, Ranges DEF TransferInv, receiverVars, BufferIsChunks
    <3> QED
      BY <1>1, <3>1, <3>2, Ranges DEF TransferInv, receiverVars, DestIsPrefix
  <2>7. FirstPacketAlone'
    <3>1. SUFFICES ASSUME nextPacketId = 0 PROVE windowSize = Unit /\ nextChunk' <= 1
      BY <1>1 DEF FirstPacketAlone, receiverVars
    <3>2. windowSize = Unit /\ Ceil(windowSize) = 1
      <4>1. (Unit + Unit - 1) \div Unit = 1
        BY SenderAssumption
      <4> QED
        BY <3>1, <4>1 DEF TransferInv, FirstPacketAlone, Ceil
    <3>3. lastReceivedACKId = -1 /\ nextChunk = len
      BY <3>1, Ranges
    <3>4. NewPacketCnt <= 1 - len \/ NewPacketCnt = 0
      BY <3>2, <3>3, Ranges DEF NewPacketCnt
    <3>5. nextChunk <= 1 /\ nextChunk' = nextChunk + NewPacketCnt
      BY <1>4, <3>1 DEF TransferInv, FirstPacketAlone
    <3> QED
      BY <2>1, <3>2, <3>3, <3>4, <3>5, Ranges
  <2> QED
    BY <1>2, <1>3, <2>4, <2>5, <2>6, <2>7 DEF TransferInv
<1>5. CASE /\ nextAction \in {"resend", "waitACK"}
           /\ UNCHANGED <<sentButNotAcked, nextChunk>>
  <2>1. \A p \in Outgoing : p.id = p.chunk /\ p.id < nextChunk /\ p \in Datagrams
    <3>1. CASE nextAction = "resend"
      <4>1. 1 \in 1 .. Len(sentButNotAcked)
        BY <1>1, <3>1, Ranges, EmptySeq DEF TransferInv, SenderInv, SomethingOutstanding
      <4>2. /\ Outgoing = {sentButNotAcked[1]}
            /\ sentButNotAcked[1] = Packet(lastReceivedACKId + 1, lastReceivedACKId + 1)
        BY <3>1, <4>1 DEF Outgoing, TransferInv, WindowIsInterval
      <4> QED
        BY <4>1, <4>2, Ranges DEF Packet, Datagrams, PacketIds, Chunks
    <3>2. CASE nextAction = "waitACK"
      BY <3>2 DEF Outgoing
    <3> QED
      BY <1>5, <3>1, <3>2
  <2>2. DataAreChunks' /\ dataNet' \subseteq Datagrams
    BY <1>1, <1>5, <2>1 DEF DataAreChunks, TransferInv
  <2>3. WindowIsInterval' /\ BufferIsChunks' /\ DestIsPrefix' /\ FirstPacketAlone'
    BY <1>1, <1>5 DEF TransferInv, receiverVars, WindowIsInterval, BufferIsChunks,
       DestIsPrefix, FirstPacketAlone
  <2> QED
    BY <1>2, <1>3, <2>2, <2>3 DEF TransferInv
<1> QED
  BY <1>4, <1>5 DEF Act, SenderAct

LEMMA RecvTimeoutInv == TransferInv /\ RecvTimeout => TransferInv'
<1> SUFFICES ASSUME TransferInv, RecvTimeout PROVE TransferInv'
  OBVIOUS
<1>1. SenderInv'
  BY TimeoutInv DEF TransferInv, RecvTimeout
<1>2. /\ UNCHANGED <<lastReceivedACKId, nextChunk, sentButNotAcked, leftPacketId,
                     receiverVars, dataNet, ackNet>>
      /\ windowSize' = Unit /\ senderPC = "recv" /\ senderPC' = LoopTest'
  BY DEF RecvTimeout, Timeout, AfterLoss, AfterTimeout
<1>3. ReceiverTypeOK' /\ BufferIsChunks' /\ DestIsPrefix' /\ ACKsAreWritten'
      /\ LeavesAtEnd' /\ DataAreChunks' /\ WindowIsInterval'
  BY <1>2 DEF TransferInv, receiverVars, ReceiverTypeOK, BufferIsChunks, DestIsPrefix,
     ACKsAreWritten, LeavesAtEnd, DataAreChunks, WindowIsInterval
<1>4. LeftIsNextACK' /\ FirstPacketAlone' /\ ClosedIsFinished'
  BY <1>2 DEF TransferInv, receiverVars, LeftIsNextACK, FirstPacketAlone,
     ClosedIsFinished, LoopTest
<1> QED
  BY <1>1, <1>2, <1>3, <1>4 DEF TransferInv

\* A new ACK removes exactly the packets up to its id from the window.
LEMMA RemovedPrefix ==
  ASSUME TransferInv, NEW ack \in Int, ack > lastReceivedACKId, ack < nextChunk,
         RemoveACKed(ack)
  PROVE  /\ Len(sentButNotAcked') = nextChunk - 1 - ack
         /\ \A i \in 1 .. Len(sentButNotAcked') :
              sentButNotAcked'[i] = Packet(ack + i, ack + i)
<1> DEFINE last == lastReceivedACKId
           len == Len(sentButNotAcked)
           gone == ack - last
<1>1. /\ last \in Int /\ len \in Nat /\ nextChunk = last + 1 + len
      /\ gone \in 1 .. len
  BY Ranges
<1>2. \A i \in 1 .. len : sentButNotAcked[i] = Packet(last + i, last + i)
  BY DEF TransferInv, WindowIsInterval
<1>3. \A i \in 1 .. len : sentButNotAcked[i].id = last + i
  <2> SUFFICES ASSUME NEW i \in 1 .. len PROVE sentButNotAcked[i].id = last + i
    OBVIOUS
  <2>1. sentButNotAcked[i] = Packet(last + i, last + i)
    BY <1>2
  <2> QED
    BY <2>1 DEF Packet
<1>4. PICK k \in 0 .. len :
        /\ \A i \in 1 .. k : sentButNotAcked[i].id <= ack
        /\ k < len => ~ (sentButNotAcked[k + 1].id <= ack)
        /\ sentButNotAcked' = SubSeq(sentButNotAcked, k + 1, len)
  BY DEF RemoveACKed, IsACKed
<1>5. \A i \in k + 1 .. len : sentButNotAcked[i] \in WindowPacket
  BY <1>1, Ranges, ElementOfSeq
<1>6. /\ k <= len /\ k \in Nat
      /\ k < len => last + (k + 1) > ack
      /\ k >= 1 => last + k <= ack
  <2>1. k < len => k + 1 \in 1 .. len
    BY <1>1
  <2>2. k >= 1 => k \in 1 .. k /\ k \in 1 .. len
    BY <1>1
  <2>3. k < len => sentButNotAcked[k + 1].id = last + (k + 1)
    BY <1>3, <2>1
  <2>4. k >= 1 => sentButNotAcked[k].id = last + k /\ sentButNotAcked[k].id <= ack
    BY <1>3, <1>4, <2>2
  <2>5. k < len => ~ (last + (k + 1) <= ack)
    BY <1>4, <2>3
  <2> HIDE DEF last, len, gone
  <2> QED
    BY <1>1, <2>4, <2>5
<1> HIDE DEF last, len
<1>7. k = gone
  BY <1>1, <1>6
<1>8. /\ SubSeq(sentButNotAcked, k + 1, len) \in Seq(WindowPacket)
      /\ Len(SubSeq(sentButNotAcked, k + 1, len)) =
           (IF k + 1 <= len THEN len - (k + 1) + 1 ELSE 0)
      /\ \A i \in 1 .. len - (k + 1) + 1 :
           SubSeq(sentButNotAcked, k + 1, len)[i] = sentButNotAcked[(k + 1) + i - 1]
  BY <1>1, <1>5, <1>6, SubSeqProperties
<1>9. Len(sentButNotAcked') = len - gone
  BY <1>1, <1>4, <1>6, <1>7, <1>8
<1>10. ASSUME NEW i \in 1 .. len - gone
       PROVE  sentButNotAcked'[i] = Packet(ack + i, ack + i)
  <2>1. (k + 1) + i - 1 = gone + i /\ gone + i \in 1 .. len /\ i \in 1 .. len - (k + 1) + 1
    BY <1>1, <1>6, <1>7
  <2>2. last + (gone + i) = ack + i
    BY <1>1
  <2>3. sentButNotAcked'[i] = sentButNotAcked[gone + i]
    BY <1>4, <1>8, <2>1
  <2> QED
    BY <1>2, <2>1, <2>2, <2>3
<1> QED
  BY <1>1, <1>9, <1>10

LEMMA DeliverACKInv ==
  ASSUME ReadsOldOrFaults, TransferInv, NEW ack \in ackNet, DeliverACK(ack)
  PROVE  TransferInv'
<1>1. /\ ack \in Int /\ ack >= 0 /\ ack < nextPacketId /\ ack \in PacketIds
      /\ nextPacketId >= 1
  BY Ranges DEF TransferInv, ACKsAreWritten, PacketIds
<1>2. /\ senderPC = "recv"
      /\ UNCHANGED <<receiverVars, dataNet, ackNet, nextChunk>>
  BY DEF DeliverACK, ReceiveACK, DupACK, NewACK
<1>3. SenderInv'
  BY <1>1, ReceiveACKInv DEF TransferInv, DeliverACK
<1>4. ReceiverTypeOK' /\ BufferIsChunks' /\ DestIsPrefix' /\ LeavesAtEnd'
      /\ DataAreChunks'
  BY <1>2 DEF TransferInv, receiverVars, ReceiverTypeOK, BufferIsChunks, DestIsPrefix,
     LeavesAtEnd, DataAreChunks
<1>5. FirstPacketAlone'
  BY <1>1, <1>2 DEF receiverVars, FirstPacketAlone
<1>6. CASE DecodeACK(ack) = lastReceivedACKId /\ DupACK
  <2>1. /\ UNCHANGED <<lastReceivedACKId, nextChunk, sentButNotAcked, leftPacketId>>
        /\ senderPC' = LoopTest'
    BY <1>6 DEF DupACK
  <2>2. WindowIsInterval' /\ ACKsAreWritten' /\ LeftIsNextACK' /\ ClosedIsFinished'
    BY <1>2, <2>1 DEF TransferInv, receiverVars, WindowIsInterval, ACKsAreWritten,
       LeftIsNextACK, ClosedIsFinished, LoopTest
  <2> QED
    BY <1>2, <1>3, <1>4, <1>5, <2>2 DEF TransferInv
<1>7. CASE DecodeACK(ack) # lastReceivedACKId /\ NewACK(DecodeACK(ack))
  <2>1. DecodeACK(ack) = ack /\ ack > lastReceivedACKId
    BY <1>1, <1>7, Ranges DEF DecodeACK
  <2>2. lastReceivedACKId' = ack /\ RemoveACKed(ack)
    BY <1>7, <2>1 DEF NewACK
  <2>7. WindowIsInterval'
    <3>1. /\ Len(sentButNotAcked') = nextChunk - 1 - ack
          /\ \A i \in 1 .. Len(sentButNotAcked') :
               sentButNotAcked'[i] = Packet(ack + i, ack + i)
      BY <1>1, <2>1, <2>2, Ranges, RemovedPrefix
    <3>2. nextChunk \in Int /\ nextChunk' = nextChunk
      BY <1>2, Ranges
    <3>3. nextChunk' = ack + 1 + Len(sentButNotAcked')
      BY <1>1, <3>1, <3>2
    <3> QED
      BY <2>2, <3>1, <3>3 DEF WindowIsInterval
  <2>8. ACKsAreWritten'
    BY <1>1, <1>2, <2>2 DEF TransferInv, receiverVars, ACKsAreWritten
  <2>9. LeftIsNextACK' /\ ClosedIsFinished'
    <3>1. CASE SlowStartNewACK(ack) \/ CongAvoidNewACK(ack)
      BY <2>2, <3>1 DEF SlowStartNewACK, NextLeft, CongAvoidNewACK, LeftIsNextACK,
         ClosedIsFinished, LoopTest
    <3>2. CASE FastRecoveryNewACK(ack)
      <4>1. PICK found \in ContextAfterFree :
              /\ leftPacketId' = IF found = "kept" THEN ack + 1 ELSE leftPacketId
              /\ senderPC' = IF found = "crash" THEN "crashed" ELSE LoopTest'
        BY <3>2 DEF FastRecoveryNewACK, NextLeft
      <4>2. found \in {"kept", "crash"}
        BY SenderAssumption DEF ReadsOldOrFaults
      <4> QED
        BY <2>2, <4>1, <4>2 DEF LeftIsNextACK, ClosedIsFinished, LoopTest
    <3> QED
      BY <1>7, <2>1, <3>1, <3>2 DEF NewACK
  <2> QED
    BY <1>2, <1>3, <1>4, <1>5, <2>7, <2>8, <2>9 DEF TransferInv
<1> QED
  BY <1>6, <1>7 DEF DeliverACK, ReceiveACK

LEMMA ConcatPrefixes ==
  ASSUME NEW a \in Nat, NEW b \in Nat
  PROVE  [i \in 1 .. a |-> i - 1] \o [i \in 1 .. b |-> a + i - 1]
           = [i \in 1 .. a + b |-> i - 1]
<1> DEFINE s == [i \in 1 .. a |-> i - 1]
           t == [i \in 1 .. b |-> a + i - 1]
           r == [i \in 1 .. a + b |-> i - 1]
<1>1. s \in Seq(Int) /\ Len(s) = a /\ \A i \in 1 .. a : s[i] = i - 1
  OBVIOUS
<1>2. t \in Seq(Int) /\ Len(t) = b /\ \A i \in 1 .. b : t[i] = a + i - 1
  OBVIOUS
<1>3. r \in Seq(Int) /\ Len(r) = a + b /\ \A i \in 1 .. a + b : r[i] = i - 1
  OBVIOUS
<1> HIDE DEF s, t, r
<1> DEFINE c == s \o t
<1>4. /\ c \in Seq(Int) /\ Len(c) = a + b
      /\ \A i \in 1 .. a + b : c[i] = IF i <= a THEN s[i] ELSE t[i - a]
  BY <1>1, <1>2, ConcatProperties
<1> HIDE DEF c
<1>5. ASSUME NEW i \in 1 .. a + b PROVE c[i] = r[i]
  <2>1. i \in Int /\ r[i] = i - 1 /\ (i <= a \/ i > a)
    BY <1>3
  <2>2. CASE i <= a
    BY <1>1, <1>4, <2>1, <2>2
  <2>3. CASE i > a
    <3>1. i - a \in 1 .. b
      BY <2>1, <2>3
    <3>2. t[i - a] = a + (i - a) - 1
      BY <1>2, <3>1
    <3> QED
      BY <1>4, <2>1, <2>3, <3>2
  <2> QED
    BY <2>1, <2>2, <2>3
<1>6. c = r
  BY <1>3, <1>4, <1>5, SeqEqual
<1> QED
  BY <1>6 DEF s, t, r, c

\* What the receiver's loop body does to the map and the file.
LEMMA ReceiveProperties ==
  ASSUME TransferInv, NEW p \in dataNet, Receive(p)
  PROVE  /\ nextPacketId' \in Nat
         /\ nextPacketId' >= nextPacketId /\ nextPacketId' >= 1
         /\ nextPacketId' <= nextChunk
         /\ dest' = [i \in 1 .. nextPacketId' |-> i - 1]
         /\ DOMAIN buffer' \subseteq PacketIds
         /\ \A id \in DOMAIN buffer' :
              buffer'[id] = id /\ id > nextPacketId' /\ id < nextChunk
         /\ \A id \in DOMAIN buffer' : id \in DOMAIN buffer \/ id = p.id
         /\ \A id \in nextPacketId .. nextPacketId' - 1 : id \in DOMAIN buffer \/ id = p.id
         /\ buffer' = [id \in DOMAIN buffer' |-> buffer'[id]]
<1> DEFINE buf == Stored(p)
<1>1. PICK n \in 0 .. NumChunks + 1 : Drain(buf, n)
  BY DEF Receive, HasAll
<1>2. p.id = p.chunk /\ p.id < nextChunk /\ p.id \in Nat /\ p.id \in PacketIds
  BY Ranges DEF TransferInv, DataAreChunks, Datagrams, PacketIds
<1>3. \A id \in DOMAIN buffer :
        /\ id \in PacketIds /\ id \in Nat
        /\ buffer[id] = id /\ id > nextPacketId /\ id < nextChunk
  BY Ranges DEF TransferInv, ReceiverTypeOK, BufferIsChunks, PacketIds
<1>4. \A id \in DOMAIN buf :
        /\ id \in PacketIds /\ id \in Nat
        /\ buf[id] = id /\ id >= nextPacketId /\ id < nextChunk
        /\ id \in DOMAIN buffer \/ id = p.id
  <2>1. CASE p.id >= nextPacketId /\ p.id \notin DOMAIN buffer
    <3>1. buf = [id \in DOMAIN buffer \cup {p.id} |->
                   IF id = p.id THEN p.chunk ELSE buffer[id]]
      BY <2>1 DEF Stored
    <3> HIDE DEF buf
    <3> QED
      BY <1>2, <1>3, <2>1, <3>1, Ranges
  <2>2. CASE ~ (p.id >= nextPacketId /\ p.id \notin DOMAIN buffer)
    <3>1. buf = buffer
      BY <2>2 DEF Stored
    <3> HIDE DEF buf
    <3> QED
      BY <1>3, <3>1, Ranges
  <2> QED
    BY <2>1, <2>2
<1>5. p.id = nextPacketId => p.id \in DOMAIN buf
  <2> SUFFICES ASSUME p.id = nextPacketId PROVE p.id \in DOMAIN buf
    OBVIOUS
  <2>1. p.id >= nextPacketId /\ p.id \notin DOMAIN buffer
    BY <1>2, <1>3
  <2> QED
    BY <2>1 DEF Stored
<1> HIDE DEF buf
<1>6. /\ n >= nextPacketId /\ n \notin DOMAIN buf
      /\ \A id \in nextPacketId .. n - 1 : id \in DOMAIN buf
      /\ dest' = dest \o [i \in 1 .. n - nextPacketId |-> buf[nextPacketId + i - 1]]
      /\ buffer' = [id \in {j \in DOMAIN buf : j >= n} |-> buf[id]]
      /\ nextPacketId' = n
  BY <1>1 DEF Drain, IsNext
<1>7. n <= nextChunk
  <2>1. SUFFICES ASSUME n > nextPacketId PROVE n <= nextChunk
    BY <1>6, Ranges
  <2>2. n - 1 \in nextPacketId .. n - 1
    BY <2>1, Ranges
  <2>3. n - 1 \in DOMAIN buf
    BY <1>6, <2>2
  <2>4. n - 1 < nextChunk
    BY <1>4, <2>3
  <2> QED
    BY <2>4, Ranges
<1>8. n >= 1
  <2>1. SUFFICES ASSUME n = 0 PROVE FALSE
    OBVIOUS
  <2>2. nextPacketId = 0 /\ nextChunk <= 1
    BY <1>6, <2>1, Ranges DEF TransferInv, FirstPacketAlone
  <2>3. p.id = 0
    BY <1>2, <2>2, Ranges
  <2> QED
    BY <1>5, <1>6, <2>1, <2>2, <2>3
<1>9. dest' = [i \in 1 .. n |-> i - 1]
  <2> DEFINE d == n - nextPacketId
  <2>1. dest = [i \in 1 .. nextPacketId |-> i - 1]
    BY DEF TransferInv, DestIsPrefix
  <2>2. d \in Nat /\ nextPacketId + d = n
    BY <1>6, Ranges
  <2>3. \A i \in 1 .. d : buf[nextPacketId + i - 1] = nextPacketId + i - 1
    <3> SUFFICES ASSUME NEW i \in 1 .. d
                 PROVE  buf[nextPacketId + i - 1] = nextPacketId + i - 1
      OBVIOUS
    <3>1. nextPacketId + i - 1 \in nextPacketId .. n - 1
      BY Ranges, SMTT(30)
    <3> QED
      BY <1>4, <1>6, <3>1
  <2>4. [i \in 1 .. d |-> buf[nextPacketId + i - 1]]
          = [i \in 1 .. d |-> nextPacketId + i - 1]
    BY <2>3
  <2>5. dest' = [i \in 1 .. nextPacketId |-> i - 1]
                  \o [i \in 1 .. d |-> nextPacketId + i - 1]
    BY <1>6, <2>1, <2>4
  <2> HIDE DEF d
  <2> QED
    BY <2>2, <2>5, Ranges, ConcatPrefixes
<1>10. \A id \in DOMAIN buffer' :
         /\ id \in DOMAIN buf /\ id >= n /\ buffer'[id] = buf[id]
  BY <1>6
<1>11. \A id \in DOMAIN buffer' : id > n
  BY <1>4, <1>6, <1>10
<1>12. \A id \in DOMAIN buffer' :
         /\ id \in PacketIds
         /\ buffer'[id] = id /\ id > nextPacketId' /\ id < nextChunk
         /\ id \in DOMAIN buffer \/ id = p.id
  BY <1>4, <1>6, <1>10, <1>11
<1>13. buffer' = [id \in DOMAIN buffer' |-> buffer'[id]]
  BY <1>6
<1>14. nextPacketId' = n
  BY <1>6
<1>16. /\ n \in Nat /\ n >= nextPacketId /\ n >= 1 /\ n <= nextChunk
  BY <1>6, <1>7, <1>8, Ranges
<1>15. \A id \in nextPacketId .. nextPacketId' - 1 : id \in DOMAIN buffer \/ id = p.id
  BY <1>4, <1>6
<1> QED
  BY <1>9, <1>12, <1>13, <1>14, <1>15, <1>16

LEMMA DeliverDataInv ==
  ASSUME TransferInv, NEW p \in dataNet, DeliverData(p)
  PROVE  TransferInv'
<1>1. /\ Receive(p) /\ receiverOpen
      /\ UNCHANGED <<senderVars, dataNet>>
      /\ ackNet' = ackNet \cup {nextPacketId' - 1}
  BY DEF DeliverData, Receive, HasAll, ACKToSend
<1>2. /\ nextPacketId' \in Nat
      /\ nextPacketId' >= nextPacketId /\ nextPacketId' >= 1
      /\ nextPacketId' <= nextChunk
      /\ dest' = [i \in 1 .. nextPacketId' |-> i - 1]
      /\ DOMAIN buffer' \subseteq PacketIds
      /\ \A id \in DOMAIN buffer' : buffer'[id] = id /\ id > nextPacketId' /\ id < nextChunk
      /\ \A id \in DOMAIN buffer' : id \in DOMAIN buffer \/ id = p.id
      /\ \A id \in nextPacketId .. nextPacketId' - 1 : id \in DOMAIN buffer \/ id = p.id
      /\ buffer' = [id \in DOMAIN buffer' |-> buffer'[id]]
  BY <1>1, ReceiveProperties
<1>3. SenderInv' /\ LeftIsNextACK' /\ WindowIsInterval' /\ DataAreChunks'
      /\ ClosedIsFinished'
  BY <1>1 DEF TransferInv, senderVars, SenderInv, SenderTypeOK, SomethingOutstanding,
     PhaseMatchesWindow, ActHasWork, LeftNotAhead, isFinished, allRead,
     LeftIsNextACK, WindowIsInterval, DataAreChunks, ClosedIsFinished
<1>4. nextChunk' = nextChunk /\ lastReceivedACKId' = lastReceivedACKId
  BY <1>1 DEF senderVars
<1>5. BufferIsChunks' /\ DestIsPrefix' /\ FirstPacketAlone'
  BY <1>2, <1>4 DEF BufferIsChunks, DestIsPrefix, FirstPacketAlone
<1>6. ACKsAreWritten' /\ ackNet' \subseteq {-1} \cup PacketIds
  <2>1. nextPacketId' - 1 \in PacketIds
    BY <1>2, Ranges DEF PacketIds
  <2>2. ASSUME NEW ack \in ackNet PROVE ack >= 0 /\ ack < nextPacketId'
    <3>1. ack \in Int /\ ack >= 0 /\ ack < nextPacketId
      BY DEF TransferInv, ACKsAreWritten, PacketIds
    <3> QED
      BY <1>2, <3>1, Ranges
  <2>3. lastReceivedACKId < nextPacketId'
    BY <1>2, Ranges
  <2> QED
    BY <1>1, <1>2, <1>4, <2>1, <2>2, <2>3 DEF TransferInv, ACKsAreWritten
<1>7. /\ p.chunk = p.id
      /\ p.chunk = NumChunks => lastPacketFound' = TRUE /\ lastPacketSeqNo' = NumChunks
      /\ p.chunk # NumChunks => /\ lastPacketFound' = lastPacketFound
                                /\ lastPacketSeqNo' = lastPacketSeqNo
  BY <1>1 DEF Receive, HasAll, FIN, TransferInv, DataAreChunks
<1>8. /\ lastPacketFound' => lastPacketSeqNo' = NumChunks
      /\ lastPacketFound => lastPacketFound'
      /\ p.id = NumChunks => lastPacketFound'
  BY <1>7 DEF TransferInv, LeavesAtEnd
<1>9. NumChunks \in DOMAIN buffer' => lastPacketFound'
  BY <1>2, <1>8 DEF TransferInv, LeavesAtEnd
<1>10. nextPacketId # NumChunks + 1
  BY <1>1 DEF TransferInv, LeavesAtEnd
<1>11. nextPacketId' = NumChunks + 1 => lastPacketFound'
  <2> SUFFICES ASSUME nextPacketId' = NumChunks + 1 PROVE lastPacketFound'
    OBVIOUS
  <2>1. NumChunks \in nextPacketId .. nextPacketId' - 1
    BY <1>2, <1>10, Ranges
  <2>2. NumChunks \in DOMAIN buffer \/ NumChunks = p.id
    BY <1>2, <2>1
  <2> QED
    BY <1>8, <2>2 DEF TransferInv, LeavesAtEnd
<1>12. receiverOpen' <=> nextPacketId' # NumChunks + 1
  <2>1. receiverOpen' = ~ (lastPacketFound' /\ lastPacketSeqNo' = nextPacketId' - 1)
    BY <1>1 DEF Receive, HasAll, ACKToSend
  <2>2. NumChunks = nextPacketId' - 1 <=> nextPacketId' = NumChunks + 1
    BY <1>2, Ranges
  <2> QED
    BY <1>8, <1>11, <2>1, <2>2, Zenon
<1>13. LeavesAtEnd'
  BY <1>8, <1>9, <1>11, <1>12 DEF LeavesAtEnd
<1>14. ReceiverTypeOK'
  <2>1. buffer' \in [DOMAIN buffer' -> Chunks]
    <3>1. \A id \in DOMAIN buffer' : buffer'[id] \in Chunks
      BY <1>2 DEF PacketIds, Chunks
    <3> QED
      BY <1>2, <3>1
  <2>2. dest' \in Seq(Chunks)
    <3>1. \A i \in 1 .. nextPacketId' : i - 1 \in Chunks
      BY <1>2, Ranges DEF Chunks
    <3> QED
      BY <1>2, <3>1
  <2>3. nextPacketId' \in 0 .. NumChunks + 1
    BY <1>2, Ranges
  <2>4. lastPacketSeqNo' \in PacketIds
    BY <1>7, Ranges DEF TransferInv, ReceiverTypeOK, PacketIds
  <2>5. lastPacketFound' \in BOOLEAN
    BY <1>7, Zenon DEF TransferInv, ReceiverTypeOK
  <2>6. receiverOpen' \in BOOLEAN
    BY <1>1, Zenon DEF Receive, HasAll
  <2> QED
    BY <1>2, <2>1, <2>2, <2>3, <2>4, <2>5, <2>6 DEF ReceiverTypeOK
<1> QED
  BY <1>1, <1>3, <1>5, <1>6, <1>13, <1>14 DEF TransferInv

LEMMA LossInv ==
  ASSUME TransferInv,
         \/ \E p \in dataNet : LoseData(p)
         \/ \E ack \in ackNet : LoseACK(ack)
  PROVE  TransferInv'
<1>1. /\ UNCHANGED <<senderVars, receiverVars>>
      /\ dataNet' \subseteq dataNet /\ ackNet' \subseteq ackNet
  BY DEF LoseData, LoseACK
<1>2. SenderInv' /\ LeftIsNextACK' /\ WindowIsInterval' /\ ClosedIsFinished'
  BY <1>1 DEF TransferInv, senderVars, SenderInv, SenderTypeOK, SomethingOutstanding,
     PhaseMatchesWindow, ActHasWork, LeftNotAhead, isFinished, allRead,
     LeftIsNextACK, WindowIsInterval, ClosedIsFinished
<1>3. ReceiverTypeOK' /\ BufferIsChunks' /\ DestIsPrefix' /\ LeavesAtEnd'
      /\ FirstPacketAlone'
  BY <1>1 DEF TransferInv, senderVars, receiverVars, ReceiverTypeOK, BufferIsChunks,
     DestIsPrefix, LeavesAtEnd, FirstPacketAlone
<1>4. DataAreChunks' /\ ACKsAreWritten' /\ dataNet' \subseteq Datagrams
      /\ ackNet' \subseteq {-1} \cup PacketIds
  BY <1>1 DEF TransferInv, senderVars, receiverVars, DataAreChunks, ACKsAreWritten
<1> QED
  BY <1>2, <1>3, <1>4 DEF TransferInv

LEMMA TransferNextInv ==
  ASSUME ReadsOldOrFaults, TransferInv, [Next]_vars
  PROVE  TransferInv'
<1>1. CASE UNCHANGED vars
  BY <1>1 DEF vars, TransferInv, senderVars, receiverVars, SenderInv, SenderTypeOK,
     SomethingOutstanding, PhaseMatchesWindow, ActHasWork, LeftNotAhead, isFinished,
     allRead, LeftIsNextACK, WindowIsInterval, ClosedIsFinished, ReceiverTypeOK,
     BufferIsChunks, DestIsPrefix, LeavesAtEnd, FirstPacketAlone, DataAreChunks,
     ACKsAreWritten
<1>2. CASE Act
  BY <1>2, ActInv
<1>3. CASE RecvTimeout
  BY <1>3, RecvTimeoutInv
<1>4. CASE \E ack \in ackNet : DeliverACK(ack)
  BY <1>4, DeliverACKInv
<1>5. CASE \E p \in dataNet : DeliverData(p)
  BY <1>5, DeliverDataInv
<1>6. CASE (\E p \in dataNet : LoseData(p)) \/ (\E ack \in ackNet : LoseACK(ack))
  BY <1>6, LossInv
<1>7. CASE Terminated
  BY <1>1, <1>7 DEF Terminated
<1> QED
  BY <1>1, <1>2, <1>3, <1>4, <1>5, <1>6, <1>7 DEF Next

THEOREM TransferInvariant ==
  ASSUME ReadsOldOrFaults
  PROVE  Spec => []TransferInv
<1>1. TransferInv /\ [Next]_vars => TransferInv'
  BY TransferNextInv
<1> QED
  BY TransferInitInv, <1>1, PTL DEF Spec

-----------------------------------------------------------------------------
LEMMA InvNothingForgotten == TransferInv => NothingForgotten
<1> SUFFICES ASSUME TransferInv, nextPacketId < nextChunk
             PROVE  \E i \in 1 .. Len(sentButNotAcked) :
                      sentButNotAcked[i] = Packet(nextPacketId, Len(dest))
  BY Ranges DEF NothingForgotten
<1> DEFINE i == nextPacketId - lastReceivedACKId
<1>1. i \in 1 .. Len(sentButNotAcked) /\ lastReceivedACKId + i = nextPacketId
  BY Ranges
<1>2. sentButNotAcked[i] = Packet(nextPacketId, nextPacketId)
  BY <1>1 DEF TransferInv, WindowIsInterval
<1>3. Len(dest) = nextPacketId
  BY Ranges DEF TransferInv, DestIsPrefix
<1> QED
  BY <1>1, <1>2, <1>3

LEMMA InvBufferOnlyAhead == TransferInv => BufferOnlyAhead
<1> SUFFICES ASSUME TransferInv PROVE BufferOnlyAhead
  OBVIOUS
<1>1. \A id \in DOMAIN buffer : id \in Nat /\ id > nextPacketId /\ id < nextChunk
  BY DEF TransferInv, ReceiverTypeOK, PacketIds, BufferIsChunks
<1>2. ~ receiverOpen => DOMAIN buffer = {}
  <2> SUFFICES ASSUME ~ receiverOpen, NEW id \in DOMAIN buffer PROVE FALSE
    OBVIOUS
  <2>1. nextPacketId = NumChunks + 1
    BY DEF TransferInv, LeavesAtEnd
  <2> QED
    BY <1>1, <2>1, Ranges
<1> QED
  BY <1>1, <1>2 DEF BufferOnlyAhead

\* Whatever the network does, and for a file of any length: nothing the
\* receiver waits for is forgotten, the buffer holds only what lies beyond a
\* gap, the file is written in order, no negative ACK is sent, and the left
\* side of the window is the next ACK.
THEOREM TransferSafe ==
  ASSUME ReadsOldOrFaults
  PROVE  Spec => [](/\ TypeOK /\ LeftIsNextACK /\ NoNegativeACK /\ NothingForgotten
                    /\ BufferOnlyAhead /\ WrittenSequentially)
<1>1. ASSUME TransferInv
      PROVE  /\ TypeOK /\ LeftIsNextACK /\ NoNegativeACK /\ NothingForgotten
             /\ BufferOnlyAhead /\ WrittenSequentially
  <2>1. TypeOK
    BY <1>1 DEF TransferInv, TypeOK, SenderInv
  <2>2. NoNegativeACK
    BY <1>1 DEF TransferInv, ACKsAreWritten, NoNegativeACK
  <2>3. WrittenSequentially
    BY <1>1, Ranges DEF TransferInv, DestIsPrefix, WrittenSequentially
  <2>4. LeftIsNextACK
    BY <1>1 DEF TransferInv
  <2> QED
    BY <1>1, <2>1, <2>2, <2>3, <2>4, InvNothingForgotten, InvBufferOnlyAhead
<1> QED
  BY TransferInvariant, <1>1, PTL

\* TypeOK: ids, windows, buffers and datagrams stay in their types, for a file of
\* any length and any losses and duplicates.
THEOREM TransferTypes ==
  ASSUME ReadsOldOrFaults
  PROVE  Spec => []TypeOK
BY TransferSafe, PTL

\* The ACK -1, which the sender would take for that of packet 0, is never sent:
\* until packet 0 has arrived nothing else is under way.
THEOREM PacketZeroFirst ==
  ASSUME ReadsOldOrFaults
  PROVE  Spec => []NoNegativeACK
BY TransferSafe, PTL

\* The reorder buffer holds only packets beyond a gap, however often and in
\* whatever order they came.
THEOREM BufferBeyondGap ==
  ASSUME ReadsOldOrFaults
  PROVE  Spec => []BufferOnlyAhead
BY TransferSafe, PTL

\* leftPacketId_, from which the ids of new packets are made, follows the last
\* ACK through all three phases.
THEOREM LeftFollowsACK ==
  ASSUME ReadsOldOrFaults
  PROVE  Spec => []LeftIsNextACK
BY TransferSafe, PTL

-----------------------------------------------------------------------------
(* The two programs implement FileTransfer.                                *)

Source == [i \in 1 .. NumChunks + 1 |-> i - 1]

LEMMA SourcePrefix ==
  ASSUME NEW n \in 0 .. NumChunks + 1
  PROVE  /\ SubSeq(Source, 1, n) = [i \in 1 .. n |-> i - 1]
         /\ Len([i \in 1 .. n |-> i - 1]) = n
         /\ [i \in 1 .. n |-> i - 1] = Source <=> n = NumChunks + 1
<1> DEFINE s == [i \in 1 .. n |-> i - 1]
<1>1. s \in Seq(Int) /\ Len(s) = n /\ \A i \in 1 .. n : s[i] = i - 1
  BY NumChunksAssumption
<1>2. /\ Source \in Seq(Int) /\ Len(Source) = NumChunks + 1
      /\ \A i \in 1 .. NumChunks + 1 : Source[i] = i - 1
  BY NumChunksAssumption DEF Source
<1>3. \A i \in 1 .. n : Source[i] \in Int
  BY <1>2, NumChunksAssumption
<1>4. /\ SubSeq(Source, 1, n) \in Seq(Int)
      /\ Len(SubSeq(Source, 1, n)) = n
      /\ \A i \in 1 .. n : SubSeq(Source, 1, n)[i] = Source[i]
  <2>1. /\ SubSeq(Source, 1, n) \in Seq(Int)
        /\ Len(SubSeq(Source, 1, n)) = (IF 1 <= n THEN n - 1 + 1 ELSE 0)
        /\ \A i \in 1 .. n - 1 + 1 : SubSeq(Source, 1, n)[i] = Source[1 + i - 1]
    BY <1>3, NumChunksAssumption, SubSeqProperties
  <2>2. \A i \in 1 .. n : 1 + i - 1 = i /\ i \in 1 .. n - 1 + 1
    BY NumChunksAssumption
  <2> QED
    BY <2>1, <2>2, NumChunksAssumption
<1> HIDE DEF s
<1>5. SubSeq(Source, 1, n) = s
  <2> DEFINE u == SubSeq(Source, 1, n)
  <2>1. \A i \in 1 .. n : u[i] = s[i]
    BY <1>1, <1>2, <1>4, NumChunksAssumption
  <2>2. u \in Seq(Int) /\ Len(u) = n
    BY <1>4
  <2> HIDE DEF u
  <2>3. u = s
    BY <1>1, <2>1, <2>2, SeqEqual
  <2> QED
    BY <2>3 DEF u
<1>6. s = Source <=> n = NumChunks + 1
  BY <1>1, <1>2 DEF s, Source
<1> QED
  BY <1>1, <1>5, <1>6 DEF s

LEMMA TransferInitRefines == Init => FT!Init
  BY NumChunksAssumption
  DEF Init, SenderInit, FirstWindow, ReceiverInit, FT!Init

\* A sender that has nothing left to send has a receiver that has it all.
LEMMA FinishedIsWritten == TransferInv /\ isFinished => ~ receiverOpen
<1> SUFFICES ASSUME TransferInv, isFinished PROVE ~ receiverOpen
  OBVIOUS
<1>1. Len(sentButNotAcked) = 0 /\ nextChunk > NumChunks
  BY EmptySeq DEF isFinished, allRead
<1>2. nextPacketId = NumChunks + 1
  BY <1>1, Ranges
<1> QED
  BY <1>2 DEF TransferInv, LeavesAtEnd

LEMMA TransferNextRefines ==
  ASSUME TransferInv, TransferInv', [Next]_vars
  PROVE  [FT!Next]_<<dest, ~ receiverOpen, senderPC = "closed">>
<1>1. CASE UNCHANGED <<receiverVars, senderPC>>
  BY <1>1 DEF receiverVars
<1>2. \* Only the sender moves: it may close, and then all is written.
      ASSUME UNCHANGED receiverVars, senderPC = "closed" => senderPC' = "closed"
      PROVE  [FT!Next]_<<dest, ~ receiverOpen, senderPC = "closed">>
  <2>1. CASE senderPC' # "closed" \/ senderPC = "closed"
    <3>1. (senderPC = "closed") = (senderPC' = "closed")
      BY <1>2, <2>1
    <3> QED
      BY <1>2, <3>1 DEF receiverVars
  <2>2. CASE senderPC' = "closed"
    <3>1. isFinished'
      BY <2>2 DEF TransferInv, ClosedIsFinished
    <3>2. ~ receiverOpen'
      <4>1. (TransferInv /\ isFinished => ~ receiverOpen)'
        BY FinishedIsWritten, PTL
      <4> QED
        BY <3>1, <4>1
    <3>3. FT!Close
      BY <1>2, <2>2, <3>2 DEF FT!Close, receiverVars
    <3> QED
      BY <3>3 DEF FT!Next
  <2> QED
    BY <2>1, <2>2
<1>3. CASE Act \/ RecvTimeout \/ \E ack \in ackNet : DeliverACK(ack)
  <2>1. UNCHANGED receiverVars /\ senderPC # "closed"
    BY <1>3 DEF Act, SenderAct, RecvTimeout, Timeout, AfterLoss, AfterTimeout, DeliverACK,
       ReceiveACK
  <2> QED
    BY <1>2, <2>1
<1>4. ASSUME NEW p \in dataNet, DeliverData(p)
      PROVE  [FT!Next]_<<dest, ~ receiverOpen, senderPC = "closed">>
  <2>0. receiverOpen /\ UNCHANGED senderVars /\ Receive(p)
    BY <1>4 DEF DeliverData, Receive, HasAll
  <2>1. /\ nextPacketId' \in Nat /\ nextPacketId' >= nextPacketId
        /\ nextPacketId' <= nextChunk
        /\ dest' = [i \in 1 .. nextPacketId' |-> i - 1]
    BY <2>0, ReceiveProperties
  <2>2. dest = [i \in 1 .. nextPacketId |-> i - 1]
    BY DEF TransferInv, DestIsPrefix
  <2>3. Len(dest) = nextPacketId /\ Len(Source) = NumChunks + 1
    BY <2>2, Ranges, SourcePrefix DEF Source
  <2>4. dest' = SubSeq(Source, 1, nextPacketId')
    BY <2>1, Ranges, SourcePrefix
  <2>5. nextPacketId' \in Len(dest) .. Len(Source)
    BY <2>1, <2>3, Ranges
  <2>6. dest' = Source <=> nextPacketId' = NumChunks + 1
    BY <2>1, Ranges, SourcePrefix, SMTT(30)
  <2>7. receiverOpen' <=> nextPacketId' # NumChunks + 1
    BY DEF TransferInv, LeavesAtEnd
  <2>8. (~ receiverOpen') = (dest' = Source)
    BY <2>6, <2>7, Zenon
  <2>9. UNCHANGED (senderPC = "closed")
    BY <2>0 DEF senderVars
  <2>10. FT!Write
    BY <2>0, <2>4, <2>5, <2>8, <2>9 DEF FT!Write, Source
  <2> QED
    BY <2>10 DEF FT!Next
<1> QED
  BY <1>1, <1>3, <1>4 DEF Next, vars, senderVars, LoseData, LoseACK, Terminated

\* The receiver's file is at every moment a prefix of the one sent, the
\* receiver ends when it is complete and the sender closes only after that.
THEOREM TransferImplementsFileTransfer ==
  ASSUME ReadsOldOrFaults
  PROVE  Spec => ImplementsFileTransfer
<1>1. TransferInv /\ TransferInv' /\ [Next]_vars
        => [FT!Next]_<<dest, ~ receiverOpen, senderPC = "closed">>
  BY TransferNextRefines
<1> QED
  BY TransferInitRefines, TransferInvariant, <1>1, PTL
  DEF ImplementsFileTransfer, Spec, FT!Spec

\* In the network the sender behaves as module Sender says of it, so that
\* SenderSafe holds of it too.
THEOREM TransferImplementsSender ==
  ASSUME ReadsOldOrFaults
  PROVE  Spec => SenderSpec
<1>1. Init => SenderInit
  BY DEF Init
<1>2. TransferInv /\ [Next]_vars => [SenderNext]_senderVars
  BY DEF TransferInv, Next, vars, Act, RecvTimeout, DeliverACK, LoseACK, DeliverData,
     LoseData, Terminated, SenderNext
<1> QED
  BY <1>1, <1>2, TransferInvariant, PTL DEF Spec, SenderSpec

\* Also against what this network does the congestion phase agrees with the
\* window, by which congestion avoidance divides.
THEOREM PhaseAgrees ==
  ASSUME ReadsOldOrFaults
  PROVE  Spec => []PhaseMatchesWindow
BY TransferImplementsSender, SenderSafe, PTL
=============================================================================
