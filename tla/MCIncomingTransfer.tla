------------------------- MODULE MCIncomingTransfer -------------------------
(* IncomingTransfer for TLC: the cfgs give the constants.                   *)
EXTENDS IncomingTransfer
=============================================================================
