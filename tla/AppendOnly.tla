------------------------------ MODULE AppendOnly ------------------------------
(* What a growing store promises its caller: what was put into it stays,   *)
(* in order and where the caller was told it is, until all of it is given  *)
(* back.  A call that fails changes nothing.                               *)
EXTENDS Naturals, Sequences, SequencesExt

CONSTANT Value

VARIABLES
  kept,     \* the values, oldest first
  place,    \* where the caller was last told a value is
  failed    \* whether the last call failed

Init == kept = <<>> /\ place = 0 /\ ~failed

(* Values may be put behind the others, and the caller may be told where   *)
(* the first of them is.                                                   *)
Put ==
  /\ kept' \in Seq(Value)
  /\ IsPrefix(kept, kept')
  /\ \/ UNCHANGED place
     \/ kept' # kept /\ place' = Len(kept)
  /\ ~failed'

Fail == failed' /\ UNCHANGED <<kept, place>>

Clear == kept' = <<>> /\ ~failed' /\ UNCHANGED place

Next == Put \/ Fail \/ Clear

Spec == Init /\ [][Next]_<<kept, place, failed>>

=============================================================================
