----------------------------- MODULE MCReconnect -----------------------------
(* Reconnect with one peer that has two addresses, of which one is          *)
(* remembered.  OtherError stands for the errors of other peers.            *)
EXTENDS Reconnect
=============================================================================
