--------------------------- MODULE MCAuditPacket ----------------------------
(* Instance of AuditPacket for TLC: a correlation id that is used again and *)
(* one that is none of the packet's, and a second export over the first.    *)
EXTENDS AuditPacket

MCCorr == {"want", "other"}
=============================================================================
