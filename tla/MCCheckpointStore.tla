--------------------------- MODULE MCCheckpointStore ---------------------------
(* The checkpoint store with three sessions over an array that first has   *)
(* room for two, so that a third one moves it, and buffers that first have *)
(* room for one of at most two bytes, so that they grow.                   *)
EXTENDS CheckpointStore, TLC

CONSTANTS x, y

Payloads == {<<>>, <<x>>, <<x, y>>}

Symmetry == Permutations(SessionId)
=============================================================================
