---------------------------- MODULE SlidingWindow ----------------------------
(* What a ring window promises its caller until the first rollback: the    *)
(* last N values appended, oldest first.  A rollback restores the slots    *)
(* and not the head, so there is no window to speak of after one.          *)
EXTENDS Naturals, Sequences

CONSTANTS N, Data

VARIABLES
  window,     \* the values, oldest first
  promised    \* whether the promise still stands

Init == window = <<>> /\ promised = TRUE

Push(d) ==
  /\ promised
  /\ window' = IF Len(window) < N THEN Append(window, d)
                                  ELSE Append(Tail(window), d)
  /\ UNCHANGED promised

Clear ==
  /\ promised
  /\ window' = <<>>
  /\ UNCHANGED promised

RollBack ==
  /\ window' = <<>>
  /\ promised' = FALSE

Next == (\E d \in Data : Push(d)) \/ Clear \/ RollBack

Spec == Init /\ [][Next]_<<window, promised>>

=============================================================================
