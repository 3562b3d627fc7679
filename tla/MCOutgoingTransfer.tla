------------------------- MODULE MCOutgoingTransfer -------------------------
(* OutgoingTransfer for TLC: two files of one chunk.                        *)
EXTENDS OutgoingTransfer

MCSize == <<1, 1>>
=============================================================================
