----------------------------- MODULE MCMatchTable -----------------------------
(* Tables of up to three rules, so that two of them match before a third   *)
(* does, over an array that first has room for one; the priorities put a   *)
(* rule's own priority above another's score, tie two scores, and take one *)
(* score out of range.                                                     *)
EXTENDS MatchTable, TLC

Priorities == {-1, 0, 2, 3}
FramePriorities == {0, 1}
JunkInts == {-4, 3}

Symmetry == Permutations(Code)
=============================================================================
