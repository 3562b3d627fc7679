---------------------------- MODULE MCFileReceive ----------------------------
(* FileReceive for TLC: a file with two checkpoints, one without any, and   *)
(* an empty one.                                                            *)
EXTENDS FileReceive

MCSize == <<3, 1, 0>>
=============================================================================
