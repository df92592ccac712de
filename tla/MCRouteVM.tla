------------------------------ MODULE MCRouteVM ------------------------------
(* All codes of up to twelve bytes for a machine with a stack of four:     *)
(* RANGE needs three values and then two, so it meets a stack that is      *)
(* empty, too short, enough and full.  Bytes go past the last opcode, ints *)
(* take two bytes, and frames have a field on each side of the sign bit.   *)
EXTENDS RouteVM

MCFrames == {[f \in FieldId |-> CASE f = 3 -> 6 [] f = 4 -> 1 [] OTHER -> 0]}
MCLiterals == {-1, 0, 1}
MCBytes == 0 .. 14
=============================================================================
