------------------------------ MODULE MCEventLog ------------------------------
(* The event log with two sessions over two addresses, so that a freed     *)
(* address is soon the other session's, and two snapshots over a first     *)
(* capacity of one, so that the array grows twice (from nothing to one and *)
(* from one to two).                                                       *)
EXTENDS EventLog, TLC

Symmetry == Permutations(Addr)
=============================================================================
