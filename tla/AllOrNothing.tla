----------------------------- MODULE AllOrNothing -----------------------------
(* What every parser of a counted array promises its caller: it returns    *)
(* the whole array with all the buffers of its items, or an error and      *)
(* nothing to free.  Block 0 is the array, and each of the items that the  *)
(* header claims comes with PerItem buffers, which are got together.       *)
EXTENDS Naturals

CONSTANTS
  MaxItems,   \* the most items that a header may claim
  PerItem     \* the buffers of one item

Buffers(i) == PerItem * (i - 1) + 1 .. PerItem * i

Whole(n) == 0 .. PerItem * n

VARIABLES
  phase,    \* "idle", "parsing", "ok" or "failed"
  claimed,  \* the items that the header claims, 0 unless there is an array
  heap      \* the blocks that are allocated

Init == phase = "idle" /\ claimed = 0 /\ heap = {}

Nothing == claimed' = 0 /\ heap' = {}

Fail == phase' = "failed" /\ Nothing

Start ==
  /\ phase = "idle"
  /\ \/ phase' = "parsing" /\ claimed' \in 0 .. MaxItems /\ heap' = {0}
     \/ Fail

Item ==
  /\ phase = "parsing"
  /\ \/ \E i \in 1 .. claimed :
          /\ Buffers(i) \cap heap = {}
          /\ heap' = heap \cup Buffers(i)
          /\ UNCHANGED <<phase, claimed>>
     \/ Fail

(* Success, once nothing that the header claims is missing. *)
Finish ==
  /\ phase = "parsing"
  /\ heap = Whole(claimed)
  /\ phase' = "ok"
  /\ UNCHANGED <<claimed, heap>>

(* The caller is done with the array, or has read the error. *)
Release == phase \in {"ok", "failed"} /\ phase' = "idle" /\ Nothing

Next == Start \/ Item \/ Finish \/ Release

Spec == Init /\ [][Next]_<<phase, claimed, heap>>

=============================================================================
