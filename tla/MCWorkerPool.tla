---------------------------- MODULE MCWorkerPool ----------------------------
(* WorkerPool for TLC: two hosts that send to each other.                   *)
EXTENDS WorkerPool

CONSTANTS A, B

\* Two transfers each way: as many as a host has threads.
CrossedFrom == <<A, A, B, B>>
CrossedTo == <<B, B, A, A>>
=============================================================================
