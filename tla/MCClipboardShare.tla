-------------------------- MODULE MCClipboardShare --------------------------
(***************************************************************************)
(* Two clients, two values that can be told apart and one over the limit.   *)
(* A copy is sent on leave, and again when its grab is handled, only after  *)
(* two copies and two moves.                                                *)
(***************************************************************************)
EXTENDS ClipboardShare, TLC

CONSTANTS c1, c2, x, y, big

MCSymmetry == Permutations(Clients) \cup Permutations({x, y})
=============================================================================
