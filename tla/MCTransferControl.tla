-------------------------- MODULE MCTransferControl --------------------------
(* TransferControl with three bytes in two files.                           *)
EXTENDS TransferControl
=============================================================================
