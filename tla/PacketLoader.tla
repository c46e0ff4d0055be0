---------------------------- MODULE PacketLoader ----------------------------
(***************************************************************************)
(* How the sender of mp2 cuts the file into packets, byte by byte: the     *)
(* loop of ReliableSender::loadNewPacketsFromFile.  bytesToTransfer comes  *)
(* from the command line and "may not equal to file size"                  *)
(* (sender_main.cpp:109): it may be less or more.                          *)
(*                                                                         *)
(* One step is one pass of the loop.  The window decides how many passes a *)
(* call makes and nothing else, so that the calls need not be told apart.  *)
(***************************************************************************)
EXTENDS Integers, Sequences

CONSTANTS
  CONTENT_SIZE,     \* bytes of content in a packet; 4088 in the code
  MaxBytes          \* bound on the two sizes

ASSUME LoaderAssumption ==
  /\ CONTENT_SIZE \in Nat \ {0}
  /\ MaxBytes \in Nat

VARIABLES
  bytesToTransfer,
  fileSize,
  remainingBytesToRead,
  filePosition,     \* of fp_
  isFileExhausted,
  packets           \* created so far: where the content starts, and its length

loaderVars == <<bytesToTransfer, fileSize, remainingBytesToRead, filePosition,
                isFileExhausted, packets>>

LoaderInit ==
  /\ bytesToTransfer \in 0 .. MaxBytes
  /\ fileSize \in 0 .. MaxBytes
  /\ remainingBytesToRead = bytesToTransfer
  /\ filePosition = 0
  /\ isFileExhausted = FALSE
  /\ packets = <<>>

Smaller(a, b) == IF a <= b THEN a ELSE b

\* Everything was read: the FIN packet.
LoadFIN ==
  /\ ~ isFileExhausted
  /\ remainingBytesToRead = 0
  /\ packets' = Append(packets, [from |-> filePosition, size |-> 0])
  /\ isFileExhausted' = TRUE
  /\ UNCHANGED <<bytesToTransfer, fileSize, remainingBytesToRead, filePosition>>

BytesRead == Smaller(CONTENT_SIZE, fileSize - filePosition)       \* fread

\* Mutant: all that fread returned.
ContentSize_WholeBlock == BytesRead

\* What was read, unless that exceeds what is left to transfer.
ContentSize == Smaller(remainingBytesToRead, BytesRead)

RemainingAfter == IF remainingBytesToRead <= BytesRead
                  THEN 0 ELSE remainingBytesToRead - BytesRead

\* Mutant: a short read is taken for the end of the file.
AtEOF_ShortRead == BytesRead < CONTENT_SIZE

\* Mutant: an empty read is not taken for the end of the file.
AtEOF_Unnoticed == BytesRead = 0 /\ Len(packets) > MaxBytes

AtEOF == BytesRead = 0

\* A packet with what was read; at the end of the file it is empty.
LoadContent ==
  /\ ~ isFileExhausted
  /\ remainingBytesToRead > 0
  /\ packets' = Append(packets, [from |-> filePosition, size |-> ContentSize])
  /\ remainingBytesToRead' = RemainingAfter
  /\ filePosition' = filePosition + BytesRead
  /\ isFileExhausted' = AtEOF
  /\ UNCHANGED <<bytesToTransfer, fileSize>>

\* Later calls return at once.
LoadNothing == isFileExhausted /\ UNCHANGED loaderVars

LoaderNext == LoadFIN \/ LoadContent \/ LoadNothing

LoaderSpec == LoaderInit /\ [][LoaderNext]_loaderVars /\ WF_loaderVars(LoaderNext)
-----------------------------------------------------------------------------
LoaderTypeOK ==
  /\ bytesToTransfer \in 0 .. MaxBytes
  /\ fileSize \in 0 .. MaxBytes
  /\ remainingBytesToRead \in 0 .. bytesToTransfer
  /\ filePosition \in 0 .. fileSize
  /\ isFileExhausted \in BOOLEAN
  /\ packets \in Seq([from : Nat, size : 0 .. CONTENT_SIZE])

Total == Smaller(bytesToTransfer, fileSize)
BlockSize(i) ==
  IF i * CONTENT_SIZE <= Total THEN CONTENT_SIZE
  ELSE IF (i - 1) * CONTENT_SIZE < Total THEN Total - (i - 1) * CONTENT_SIZE
  ELSE 0

\* Packet i holds block i of what is to be transferred, so that the contents
\* in the order of the ids are the first Total bytes of the file, whichever of
\* the file and the command line ends first.
PacketsAreBlocks ==
  \A i \in 1 .. Len(packets) :
    /\ packets[i].size = BlockSize(i)
    /\ packets[i].size > 0 => packets[i].from = (i - 1) * CONTENT_SIZE

\* The receiver takes the first empty packet for the last one: no packet but
\* the very last is empty, even when a size is 0 or a multiple of CONTENT_SIZE.
OnlyLastIsEmpty ==
  \A i \in 1 .. Len(packets) :
    packets[i].size = 0 <=> (isFileExhausted /\ i = Len(packets))

\* Loading ends, with as many packets as module Packets assumes: one for every
\* started block and the FIN.
LoadsAllAndFIN ==
  <>(isFileExhausted /\
     Len(packets) = 1 + (Total + CONTENT_SIZE - 1) \div CONTENT_SIZE)
=============================================================================
