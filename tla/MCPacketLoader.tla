--------------------------- MODULE MCPacketLoader ---------------------------
EXTENDS PacketLoader
=============================================================================
