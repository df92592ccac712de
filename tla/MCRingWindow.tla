----------------------------- MODULE MCRingWindow -----------------------------
(* A ring of three slots that is appended to up to six times, so that it   *)
(* wraps and comes back to a slot that a rollback left dangling, over two  *)
(* buffers more than slots, so that there is one to leak and one to reuse. *)
EXTENDS RingWindow, TLC

CONSTANTS d1, d2

Lengths == d1 :> 0 @@ d2 :> 3

Symmetry == Permutations(Buf)
=============================================================================
