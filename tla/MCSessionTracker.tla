--------------------------- MODULE MCSessionTracker ---------------------------
(* The session tracker with three sessions, so that an entry can be        *)
(* unlinked from the front, the middle and the end of the chain, and no    *)
(* address to spare, so that freed addresses are reused.                   *)
EXTENDS SessionTracker, TLC

Symmetry == Permutations(Addr)
=============================================================================
