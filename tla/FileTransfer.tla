---------------------------- MODULE FileTransfer ----------------------------
(***************************************************************************)
(* What mp2 promises: the receiver's file is at all times the beginning of *)
(* the file that was sent, it only grows, the receiver reports the file    *)
(* received when all of it is written, and the sender closes its socket    *)
(* only after that.                                                        *)
(***************************************************************************)
EXTENDS Integers, Sequences

CONSTANT Source       \* the file, block by block, and the empty block that ends it

VARIABLES file, received, closed

Init ==
  /\ file = <<>>
  /\ received = FALSE
  /\ closed = FALSE

\* The next blocks reach the disk, in order; the last one ends the reception.
Write ==
  /\ ~ received
  /\ \E n \in Len(file) .. Len(Source) : file' = SubSeq(Source, 1, n)
  /\ received' = (file' = Source)
  /\ UNCHANGED closed

Close ==
  /\ received
  /\ closed' = TRUE
  /\ UNCHANGED <<file, received>>

Next == Write \/ Close

Spec == Init /\ [][Next]_<<file, received, closed>>
=============================================================================
