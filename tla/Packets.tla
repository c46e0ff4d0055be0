------------------------------ MODULE Packets -------------------------------
(***************************************************************************)
(* The datagrams of mp2.  The sender cuts the file into packets of up to   *)
(* CONTENT_SIZE bytes; a transfer is NumChunks non-empty packets followed  *)
(* by one packet without content, the FIN.  The content of a packet is     *)
(* abstracted to the position of its chunk in the file: chunk c, c in      *)
(* 0..NumChunks-1, stands for the c-th block of bytes and FIN for the      *)
(* empty block.  Module PacketLoader shows that the byte-level loop of the *)
(* sender produces exactly this sequence of chunks.                        *)
(***************************************************************************)
EXTENDS Integers, Sequences

CONSTANT NumChunks    \* number of packets with content in this transfer

ASSUME NumChunksAssumption == NumChunks \in Nat

FIN == NumChunks                  \* the chunk of data_size 0
Chunks == 0 .. NumChunks
PacketIds == 0 .. NumChunks       \* the ids a complete transfer uses

Packet(id, chunk) == [id |-> id, chunk |-> chunk]
Datagrams == [id : PacketIds, chunk : Chunks]
=============================================================================
