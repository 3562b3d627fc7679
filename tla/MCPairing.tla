------------------------------ MODULE MCPairing ------------------------------
(* Pairing of two devices: one session that either user may start, with     *)
(* messages that are lost, repeated and late, clocks that differ and files  *)
(* that fail.                                                               *)
EXTENDS Pairing
=============================================================================
