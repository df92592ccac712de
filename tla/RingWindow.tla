------------------------------ MODULE RingWindow ------------------------------
(***************************************************************************)
(* The ring window (src/session/ring_window.c): a ring of slots, each with *)
(* its own heap buffer, and one checkpoint of the ring.  The checkpoint    *)
(* copies the slots' pointers and lengths, not their buffers, and rollback *)
(* copies them back, without the head.  Between the two, append goes on    *)
(* freeing the buffers it overwrites.                                      *)
(*                                                                         *)
(* Freeing a buffer twice, or rolling back from arrays that could not be   *)
(* allocated, is undefined in C: the ring is then "undefined" and nothing  *)
(* more is said of it.  Reads and frees through a pointer whose buffer was *)
(* freed and handed out again act on the new buffer, as they do in memory. *)
(*                                                                         *)
(* view, snapView, freedSince, tainted and rolledBack are auxiliary: what  *)
(* the caller put in the window, and what has happened to the checkpoint.  *)
(***************************************************************************)
EXTENDS Integers, Sequences, FiniteSets

CONSTANTS
  N,             \* ring->segment_count
  Data,          \* what can be appended
  Length,        \* the length of each of them
  Buf,           \* addresses of buffers
  NULL,          \* the null pointer, and the contents of an empty slot
  Free,          \* what an address holds when it is not allocated
  MaxAppends,    \* bound: appends to one ring
  AllocMayFail   \* whether malloc and calloc may return NULL

Slot == 0 .. N - 1

ASSUME RingAssumption ==
  /\ N \in 1 .. 1024
  /\ Length \in [Data -> Nat]
  /\ NULL \notin Buf
  /\ NULL \notin Data
  /\ NULL \notin [Slot -> Buf \cup {NULL}]
  /\ NULL \notin [Slot -> Nat]
  /\ Free \notin Data
  /\ Free # NULL
  /\ MaxAppends \in Nat
  /\ AllocMayFail \in BOOLEAN

VARIABLES
  mem,            \* what each buffer holds
  segments,       \* ring->segments
  lengths,        \* ring->lengths
  head,           \* ring->head
  snap_segments,  \* ring->snapshot_segments, NULL unless both arrays exist
  snap_lengths,   \* ring->snapshot_lengths, NULL unless both arrays exist
  has_snapshot,   \* ring->has_snapshot
  state,          \* "none" before init and after free, "ready", "undefined"
  appends,        \* appends to this ring that succeeded
  view,           \* auxiliary: what each slot should hold
  snapView,       \* auxiliary: view at the last checkpoint
  freedSince,     \* auxiliary: slots whose checkpointed buffer was freed
  tainted,        \* auxiliary: a rollback brought a freed buffer back
  rolledBack      \* auxiliary: the buffers of a rolled back append are lost

codeVars == <<mem, segments, lengths, head, snap_segments, snap_lengths,
              has_snapshot, state, appends>>
auxVars == <<view, snapView, freedSince, tainted, rolledBack>>
vars == <<codeVars, auxVars>>

Nowhere == [i \in Slot |-> NULL]
Zero == [i \in Slot |-> 0]

TypeOK ==
  /\ mem \in [Buf -> Data \cup {Free}]
  /\ segments \in [Slot -> Buf \cup {NULL}]
  /\ lengths \in [Slot -> Nat]
  /\ head \in Slot
  /\ snap_segments \in [Slot -> Buf \cup {NULL}] \cup {NULL}
  /\ snap_lengths \in [Slot -> Nat] \cup {NULL}
  /\ has_snapshot \in BOOLEAN
  /\ state \in {"none", "ready", "undefined"}
  /\ appends \in Nat
  /\ view \in [Slot -> Data \cup {NULL}]
  /\ snapView \in [Slot -> Data \cup {NULL}]
  /\ freedSince \subseteq Slot
  /\ tainted \in BOOLEAN
  /\ rolledBack \in BOOLEAN

(* The zeroed structure that init starts from and free leaves behind. *)
Zeroed ==
  /\ segments' = Nowhere
  /\ lengths' = Zero
  /\ head' = 0
  /\ snap_segments' = NULL
  /\ snap_lengths' = NULL
  /\ has_snapshot' = FALSE
  /\ view' = Nowhere
  /\ snapView' = Nowhere
  /\ freedSince' = {}

Init ==
  /\ mem = [b \in Buf |-> Free]
  /\ segments = Nowhere
  /\ lengths = Zero
  /\ head = 0
  /\ snap_segments = NULL
  /\ snap_lengths = NULL
  /\ has_snapshot = FALSE
  /\ state = "none"
  /\ appends = 0
  /\ view = Nowhere
  /\ snapView = Nowhere
  /\ freedSince = {}
  /\ tainted = FALSE
  /\ rolledBack = FALSE

-----------------------------------------------------------------------------

(* ipmb_ring_init.  A failed calloc, or a count outside 1 .. 1024, leaves  *)
(* the zeroed structure, which no caller uses.                             *)
RingInit ==
  /\ state = "none"
  /\ Zeroed
  /\ state' \in {"ready"} \cup (IF AllocMayFail THEN {"none"} ELSE {})
  /\ appends' = 0
  /\ tainted' = FALSE
  /\ UNCHANGED <<mem, rolledBack>>

(* Mutant: the head does not move. *)
HeadStuck == head

NextHead == (head + 1) % N

Dangling(b) == b # NULL /\ mem[b] = Free

Undefined ==
  /\ state' = "undefined"
  /\ UNCHANGED <<mem, segments, lengths, head, snap_segments, snap_lengths,
                 has_snapshot, appends, auxVars>>

(* Mutants: the old buffer of the slot is not freed; the buffer of the     *)
(* next slot is.                                                           *)
ReplacedLeaking(b, d) == [mem EXCEPT ![b] = d]

ReplacedFreeingNext(b, d) ==
  [a \in Buf |-> IF a = b THEN d
                 ELSE IF a = segments[NextHead] THEN Free ELSE mem[a]]

Replaced(b, d) ==
  [a \in Buf |-> IF a = b THEN d
                 ELSE IF a = segments[head] THEN Free ELSE mem[a]]

(* ipmb_ring_append, and ipmb_ring_advance, which calls it.  The new       *)
(* buffer is allocated before the old one of the slot is freed.            *)
Put(d) ==
  /\ state = "ready"
  /\ appends < MaxAppends
  /\ ~Dangling(segments[head])
  /\ \E b \in Buf :
       /\ mem[b] = Free
       /\ mem' = Replaced(b, d)
       /\ segments' = [segments EXCEPT ![head] = b]
  /\ lengths' = [lengths EXCEPT ![head] = Length[d]]
  /\ head' = NextHead
  /\ appends' = appends + 1
  /\ view' = [view EXCEPT ![head] = d]
  /\ freedSince' = freedSince \cup
       {i \in Slot : /\ snap_segments # NULL
                     /\ segments[head] # NULL
                     /\ snap_segments[i] = segments[head]}
  /\ UNCHANGED <<snap_segments, snap_lengths, has_snapshot, state, snapView,
                 tainted, rolledBack>>

PutRefused ==
  /\ state = "ready"
  /\ AllocMayFail
  /\ UNCHANGED vars

PutUndefined ==
  /\ state = "ready"
  /\ Dangling(segments[head])
  /\ Undefined

(* ipmb_ring_checkpoint: the old arrays are freed first, and when one of   *)
(* the new ones cannot be allocated has_snapshot stays what it was.        *)
Checkpoint ==
  /\ state = "ready"
  /\ snap_segments' = segments
  /\ snap_lengths' = lengths
  /\ has_snapshot' = TRUE
  /\ snapView' = view
  /\ freedSince' = {}
  /\ UNCHANGED <<mem, segments, lengths, head, state, appends, view, tainted,
                 rolledBack>>

CheckpointFailed ==
  /\ state = "ready"
  /\ AllocMayFail
  /\ snap_segments' = NULL
  /\ snap_lengths' = NULL
  /\ UNCHANGED <<mem, segments, lengths, head, has_snapshot, state, appends,
                 auxVars>>

(* Mutant: only the lengths are rolled back. *)
RollbackKeepingSegments ==
  /\ state = "ready"
  /\ has_snapshot
  /\ snap_segments # NULL
  /\ lengths' = snap_lengths
  /\ view' = snapView
  /\ tainted' = (tainted \/ freedSince # {})
  /\ rolledBack' = TRUE
  /\ UNCHANGED <<mem, segments, head, snap_segments, snap_lengths, has_snapshot,
                 state, appends, snapView, freedSince>>

(* ipmb_ring_rollback.  The head stays where the appends left it, and the  *)
(* buffers appended since the checkpoint are not freed.                    *)
Rollback ==
  /\ state = "ready"
  /\ has_snapshot
  /\ snap_segments # NULL
  /\ segments' = snap_segments
  /\ lengths' = snap_lengths
  /\ view' = snapView
  /\ tainted' = (tainted \/ freedSince # {})
  /\ rolledBack' = TRUE
  /\ UNCHANGED <<mem, head, snap_segments, snap_lengths, has_snapshot, state,
                 appends, snapView, freedSince>>

RollbackUndefined ==
  /\ state = "ready"
  /\ has_snapshot
  /\ snap_segments = NULL
  /\ Undefined

RollbackIgnored ==
  /\ state = "ready"
  /\ ~has_snapshot
  /\ UNCHANGED vars

(* ipmb_ring_free frees the buffer of every slot, once per slot. *)
FreeTwice ==
  \/ \E i \in Slot : Dangling(segments[i])
  \/ \E i, j \in Slot : i # j /\ segments[i] = segments[j] /\ segments[i] # NULL

RingFree ==
  /\ state = "ready"
  /\ ~FreeTwice
  /\ mem' = [b \in Buf |-> IF \E i \in Slot : segments[i] = b THEN Free ELSE mem[b]]
  /\ Zeroed
  /\ state' = "none"
  /\ UNCHANGED <<appends, tainted, rolledBack>>

RingFreeUndefined ==
  /\ state = "ready"
  /\ FreeTwice
  /\ Undefined

Stopped == state = "undefined" /\ UNCHANGED vars

Next ==
  \/ RingInit
  \/ \E d \in Data : Put(d)
  \/ PutRefused
  \/ PutUndefined
  \/ Checkpoint
  \/ CheckpointFailed
  \/ Rollback
  \/ RollbackUndefined
  \/ RollbackIgnored
  \/ RingFree
  \/ RingFreeUndefined
  \/ Stopped

Spec == Init /\ [][Next]_vars

-----------------------------------------------------------------------------

Holds(b, d) == IF b = NULL THEN d = NULL ELSE mem[b] = d

(* Until a rollback brings a freed buffer back, every slot holds what the  *)
(* caller last put there, or what it held at the checkpoint it was rolled  *)
(* back to, with the right length, in a buffer of its own: pointers shared *)
(* between the ring and its checkpoint do no harm as such.                 *)
WindowSound ==
  ~tainted =>
    /\ \A i \in Slot : /\ Holds(segments[i], view[i])
                       /\ view[i] # NULL => lengths[i] = Length[view[i]]
    /\ \A i, j \in Slot :
         segments[i] = segments[j] /\ segments[i] # NULL => i = j

(* A ring is brought into undefined behaviour by nothing but a rollback to *)
(* a checkpoint that an append has since overwritten in part, or, when     *)
(* allocations fail, to one whose arrays could not be allocated.           *)
UndefinedExplained ==
  state = "undefined" =>
    tainted \/ (AllocMayFail /\ has_snapshot /\ snap_segments = NULL)

(* Before the ring has wrapped, checkpoints and rollbacks in any order are *)
(* safe: with at most N appends no slot is overwritten, so no checkpointed *)
(* buffer is ever freed.                                                   *)
SafeUntilWrapped == (state # "none" /\ appends <= N) => freedSince = {}

(* The only way to lose a buffer is a rollback: without one, what is       *)
(* allocated is exactly what the slots point to, so ipmb_ring_free, which  *)
(* walks the slots, releases everything.                                   *)
BuffersOwned ==
  ~rolledBack => \A b \in Buf : mem[b] # Free <=> \E i \in Slot : segments[i] = b

Held == {i \in Slot : segments[i] # NULL}

(* The window: what the slots in use hold, from as many places before the  *)
(* head on as there are of them, oldest first.                             *)
Window ==
  LET held == Cardinality(Held)
      slot(k) == segments[(head + N - held + k - 1) % N]
  IN [k \in 1 .. held |-> IF slot(k) = NULL THEN NULL ELSE mem[slot(k)]]

Sliding == INSTANCE SlidingWindow WITH
  window <- IF rolledBack THEN <<>> ELSE Window,
  promised <- ~rolledBack

(* Until it is rolled back the ring is a sliding window over the last N    *)
(* values appended, in order, whatever checkpoints are taken and whichever *)
(* allocations fail.                                                       *)
ImplementsWindow == Sliding!Spec

=============================================================================
