--------------------------- MODULE RingWindowProofs ---------------------------
(***************************************************************************)
(* Proofs about the ring window, for a ring of any size and any number of  *)
(* appends, checkpoints and rollbacks.                                     *)
(*                                                                         *)
(* The inductive invariant says of the checkpoint what WindowSound says of *)
(* the ring: each checkpointed slot whose buffer was not freed since still *)
(* holds what it held, and no two share a buffer.  A rollback then brings  *)
(* back a sound window unless some buffer was freed, which taints it.      *)
(***************************************************************************)
EXTENDS RingWindow, FiniteSetTheorems, SequenceTheorems, TLAPS

SnapshotSound ==
  snap_segments # NULL =>
    /\ ~tainted =>
         \A i \in Slot \ freedSince :
           /\ Holds(snap_segments[i], snapView[i])
           /\ snapView[i] # NULL => snap_lengths[i] = Length[snapView[i]]
    /\ ~tainted =>
         \A i, j \in Slot :
           snap_segments[i] = snap_segments[j] /\ snap_segments[i] # NULL => i = j

(* Before the ring wraps, the head counts the appends, and no slot from    *)
(* the head on was ever used.                                              *)
Unwrapped ==
  state = "ready" =>
    /\ appends < N =>
         /\ head = appends
         /\ \A i \in appends .. N - 1 :
              segments[i] = NULL /\ (snap_segments # NULL => snap_segments[i] = NULL)

RingInv ==
  /\ TypeOK
  /\ snap_segments = NULL <=> snap_lengths = NULL
  /\ has_snapshot /\ snap_segments = NULL => AllocMayFail
  /\ tainted => rolledBack
  /\ state = "none" => segments = Nowhere /\ snap_segments = NULL /\ ~has_snapshot
  /\ WindowSound
  /\ SnapshotSound
  /\ UndefinedExplained
  /\ Unwrapped
  /\ SafeUntilWrapped
  /\ BuffersOwned

LEMMA SlotFacts ==
  /\ 0 \in Slot /\ N \in Nat /\ N > 0
  /\ \A h \in Slot : (h + 1) % N \in Slot /\ (h + 1 < N => (h + 1) % N = h + 1)
BY RingAssumption DEF Slot

LEMMA ZeroTypes ==
  /\ Nowhere \in [Slot -> Buf \cup {NULL}] /\ Nowhere \in [Slot -> Data \cup {NULL}]
  /\ Zero \in [Slot -> Nat]
  /\ \A i \in Slot : Nowhere[i] = NULL
BY DEF Nowhere, Zero

LEMMA InitInv == Init => RingInv
<1> SUFFICES ASSUME Init PROVE RingInv
  OBVIOUS
<1> USE SlotFacts, ZeroTypes DEF Init
<1>1. TypeOK
  BY DEF TypeOK
<1>2. WindowSound /\ SnapshotSound /\ UndefinedExplained
  BY DEF WindowSound, SnapshotSound, UndefinedExplained, Holds
<1>3. Unwrapped /\ SafeUntilWrapped /\ BuffersOwned
  BY RingAssumption DEF Unwrapped, SafeUntilWrapped, BuffersOwned
<1> QED BY <1>1, <1>2, <1>3 DEF RingInv

(* init and free leave a zeroed ring. *)
LEMMA ZeroedInv ==
  ASSUME RingInv, Zeroed, mem' \in [Buf -> Data \cup {Free}],
         state' \in {"ready", "none"}, appends' \in Nat,
         state' = "ready" => appends' = 0,
         tainted' \in BOOLEAN, rolledBack' = rolledBack,
         tainted' => rolledBack,
         ~rolledBack => \A b \in Buf : mem'[b] = Free
  PROVE  RingInv'
<1> USE SlotFacts, ZeroTypes DEF Zeroed
<1>1. TypeOK'
  BY DEF TypeOK, RingInv
<1>2. WindowSound' /\ SnapshotSound' /\ UndefinedExplained'
  BY DEF WindowSound, SnapshotSound, UndefinedExplained, Holds
<1>3. Unwrapped' /\ SafeUntilWrapped'
  BY DEF Unwrapped, SafeUntilWrapped, Slot
<1>4. BuffersOwned'
  BY RingAssumption DEF BuffersOwned
<1> QED BY <1>1, <1>2, <1>3, <1>4 DEF RingInv

LEMMA RingInitInv ==
  ASSUME RingInv, RingInit
  PROVE  RingInv'
<1>1. ~rolledBack => \A b \in Buf : mem'[b] = Free
  <2>1. UNCHANGED mem /\ state = "none"
    BY DEF RingInit
  <2> QED BY <2>1, ZeroTypes, RingAssumption DEF RingInv, BuffersOwned
<1> QED BY <1>1, ZeroedInv DEF RingInit, RingInv, TypeOK

LEMMA RingFreeInv ==
  ASSUME RingInv, RingFree
  PROVE  RingInv'
<1>1. mem' \in [Buf -> Data \cup {Free}]
  BY DEF RingFree, RingInv, TypeOK
<1>2. ~rolledBack => \A b \in Buf : mem'[b] = Free
  BY DEF RingFree, RingInv, BuffersOwned, TypeOK
<1> QED BY <1>1, <1>2, ZeroedInv DEF RingFree, RingInv, TypeOK

(* Until a rollback taints the ring, a slot that is in use has a live      *)
(* buffer of its own.                                                      *)
LEMMA SlotsLive ==
  ASSUME RingInv, ~tainted, NEW i \in Slot
  PROVE  /\ ~Dangling(segments[i])
         /\ segments[i] # NULL => segments[i] \in Buf /\ mem[segments[i]] \in Data
BY RingAssumption DEF RingInv, TypeOK, WindowSound, Holds, Dangling

LEMMA PutInv ==
  ASSUME RingInv, NEW d \in Data, Put(d)
  PROVE  RingInv'
<1> USE RingAssumption, SlotFacts
<1>1. PICK b \in Buf :
        /\ mem[b] = Free
        /\ mem' = Replaced(b, d)
        /\ segments' = [segments EXCEPT ![head] = b]
  BY DEF Put
<1>2. /\ state = "ready" /\ ~Dangling(segments[head])
      /\ lengths' = [lengths EXCEPT ![head] = Length[d]]
      /\ head' = NextHead
      /\ appends' = appends + 1
      /\ view' = [view EXCEPT ![head] = d]
      /\ UNCHANGED <<snap_segments, snap_lengths, has_snapshot, state, snapView,
                     tainted, rolledBack>>
  BY DEF Put
<1>3. freedSince' = freedSince \cup
        {i \in Slot : /\ snap_segments # NULL
                      /\ segments[head] # NULL
                      /\ snap_segments[i] = segments[head]}
  BY DEF Put
<1>4. /\ head \in Slot /\ b # NULL /\ Length[d] \in Nat /\ appends \in Nat
      /\ segments[head] # b
  BY <1>1, <1>2 DEF RingInv, TypeOK, Dangling
<1>5. /\ mem'[b] = d
      /\ \A a \in Buf : a # b /\ a # segments[head] => mem'[a] = mem[a]
      /\ \A a \in Buf : a = segments[head] => mem'[a] = Free
  BY <1>1, <1>4 DEF Replaced
<1>6. /\ segments'[head] = b /\ view'[head] = d /\ lengths'[head] = Length[d]
      /\ \A i \in Slot : i # head =>
           segments'[i] = segments[i] /\ view'[i] = view[i] /\ lengths'[i] = lengths[i]
  BY <1>1, <1>2, <1>4 DEF RingInv, TypeOK
<1>7. TypeOK'
  <2>1. mem' \in [Buf -> Data \cup {Free}]
    BY <1>1 DEF Replaced, RingInv, TypeOK
  <2>2. head' \in Slot
    BY <1>2, <1>4 DEF NextHead
  <2>3. segments' \in [Slot -> Buf \cup {NULL}] /\ lengths' \in [Slot -> Nat]
        /\ view' \in [Slot -> Data \cup {NULL}]
    BY <1>1, <1>2, <1>4 DEF RingInv, TypeOK
  <2>4. freedSince' \subseteq Slot
    BY <1>3 DEF RingInv, TypeOK
  <2> QED BY <1>2, <2>1, <2>2, <2>3, <2>4 DEF RingInv, TypeOK
<1>8. WindowSound'
  <2>1. SUFFICES ASSUME ~tainted
        PROVE  /\ \A i \in Slot :
                    /\ Holds(segments[i], view[i])'
                    /\ view'[i] # NULL => lengths'[i] = Length[view'[i]]
               /\ \A i, j \in Slot :
                    segments'[i] = segments'[j] /\ segments'[i] # NULL => i = j
    BY <1>2 DEF WindowSound
  <2>2. \A i \in Slot : segments[i] # b
    BY <1>1, <1>4, <2>1, SlotsLive DEF RingInv, TypeOK
  <2>3. \A i, j \in Slot : segments[i] = segments[j] /\ segments[i] # NULL => i = j
    BY <2>1 DEF RingInv, WindowSound
  <2>4. \A i \in Slot : /\ Holds(segments[i], view[i])
                        /\ view[i] # NULL => lengths[i] = Length[view[i]]
    BY <2>1 DEF RingInv, WindowSound
  <2>5. ASSUME NEW i \in Slot
        PROVE  /\ Holds(segments[i], view[i])'
               /\ view'[i] # NULL => lengths'[i] = Length[view'[i]]
    <3>1. CASE i = head
      BY <1>4, <1>5, <1>6, <3>1 DEF Holds
    <3>2. CASE i # head /\ segments[i] = NULL
      BY <1>6, <2>4, <3>2 DEF Holds
    <3>3. CASE i # head /\ segments[i] # NULL
      <4>1. segments[i] \in Buf /\ segments[i] # segments[head] /\ segments[i] # b
        BY <1>4, <2>1, <2>2, <2>3, <3>3, SlotsLive
      <4> QED BY <1>5, <1>6, <2>4, <3>3, <4>1 DEF Holds
    <3> QED BY <3>1, <3>2, <3>3
  <2>6. ASSUME NEW i \in Slot, NEW j \in Slot,
               segments'[i] = segments'[j], segments'[i] # NULL
        PROVE  i = j
    BY <1>6, <2>2, <2>3, <2>6
  <2> QED BY <2>5, <2>6
<1>9. SnapshotSound'
  <2>1. SUFFICES ASSUME ~tainted, snap_segments # NULL
        PROVE  /\ \A i \in Slot \ freedSince' :
                    /\ Holds(snap_segments[i], snapView[i])'
                    /\ snapView[i] # NULL => snap_lengths[i] = Length[snapView[i]]
               /\ \A i, j \in Slot :
                    snap_segments[i] = snap_segments[j] /\ snap_segments[i] # NULL => i = j
    BY <1>2 DEF SnapshotSound
  <2>2. ASSUME NEW i \in Slot \ freedSince'
        PROVE  Holds(snap_segments[i], snapView[i])'
    <3>1. i \in Slot \ freedSince
      BY <1>3, <2>2
    <3>2. Holds(snap_segments[i], snapView[i])
      BY <2>1, <3>1 DEF RingInv, SnapshotSound
    <3>3. CASE snap_segments[i] = NULL
      BY <1>2, <3>2, <3>3 DEF Holds
    <3>4. CASE snap_segments[i] # NULL
      <4>1. snap_segments[i] \in Buf /\ snapView[i] \in Data \cup {NULL}
        BY <2>1, <3>1, <3>4 DEF RingInv, TypeOK
      <4>2. mem[snap_segments[i]] = snapView[i] /\ mem[snap_segments[i]] # Free
        BY <3>2, <3>4, <4>1 DEF Holds
      <4>3. snap_segments[i] # segments[head]
        BY <1>3, <2>1, <2>2, <3>4
      <4> QED BY <1>1, <1>2, <1>5, <3>4, <4>1, <4>2, <4>3 DEF Holds
    <3> QED BY <3>3, <3>4
  <2>3. \A i \in Slot \ freedSince' :
          snapView[i] # NULL => snap_lengths[i] = Length[snapView[i]]
    BY <1>3, <2>1 DEF RingInv, SnapshotSound
  <2>4. \A i, j \in Slot :
          snap_segments[i] = snap_segments[j] /\ snap_segments[i] # NULL => i = j
    BY <2>1 DEF RingInv, SnapshotSound
  <2> QED BY <2>2, <2>3, <2>4
<1>10. Unwrapped' /\ SafeUntilWrapped'
  <2>1. CASE appends < N
    <3>1. /\ head = appends
          /\ \A i \in appends .. N - 1 :
               segments[i] = NULL /\ (snap_segments # NULL => snap_segments[i] = NULL)
      BY <1>2, <2>1 DEF RingInv, Unwrapped
    <3>2. segments[head] = NULL /\ freedSince = {}
      BY <1>2, <1>4, <2>1, <3>1 DEF RingInv, SafeUntilWrapped, Slot
    <3>3. freedSince' = {}
      BY <1>3, <3>2
    <3>4. appends + 1 < N => head' = appends + 1
      BY <1>2, <1>4, <3>1 DEF NextHead
    <3>5. \A i \in appends + 1 .. N - 1 :
            /\ segments'[i] = NULL
            /\ snap_segments # NULL => snap_segments[i] = NULL
      <4>1. SUFFICES ASSUME NEW i \in appends + 1 .. N - 1
                     PROVE  /\ segments'[i] = NULL
                            /\ snap_segments # NULL => snap_segments[i] = NULL
        OBVIOUS
      <4>2. i \in appends .. N - 1 /\ i \in Slot /\ i # head
        BY <1>4, <3>1, <4>1 DEF Slot
      <4> QED BY <1>6, <3>1, <4>2
    <3> QED BY <1>2, <3>3, <3>4, <3>5 DEF Unwrapped, SafeUntilWrapped
  <2>2. CASE appends >= N
    BY <1>2, <1>4, <2>2 DEF Unwrapped, SafeUntilWrapped
  <2> QED BY <1>4, <2>1, <2>2
<1>11. BuffersOwned'
  <2>1. SUFFICES ASSUME ~rolledBack, NEW a \in Buf
                 PROVE  mem'[a] # Free <=> \E i \in Slot : segments'[i] = a
    BY <1>2 DEF BuffersOwned
  <2>2. ~tainted /\ (mem[a] # Free <=> \E i \in Slot : segments[i] = a)
    BY <2>1 DEF RingInv, BuffersOwned
  <2>3. CASE a = b
    BY <1>4, <1>5, <1>6, <2>3
  <2>4. CASE a # b /\ a = segments[head]
    <3>1. mem'[a] = Free
      BY <1>5, <2>4
    <3>2. \A i \in Slot : segments'[i] # a
      <4>1. \A i, j \in Slot : segments[i] = segments[j] /\ segments[i] # NULL => i = j
        BY <2>2 DEF RingInv, WindowSound
      <4>2. segments[head] # NULL
        BY <2>4
      <4> QED BY <1>4, <1>6, <2>4, <4>1, <4>2
    <3> QED BY <3>1, <3>2
  <2>5. CASE a # b /\ a # segments[head]
    <3>1. mem'[a] = mem[a]
      BY <1>5, <2>5
    <3>2. (\E i \in Slot : segments'[i] = a) <=> \E i \in Slot : segments[i] = a
      BY <1>6, <2>5
    <3> QED BY <2>2, <3>1, <3>2
  <2> QED BY <2>3, <2>4, <2>5
<1>12. UndefinedExplained'
  BY <1>2 DEF UndefinedExplained
<1> QED BY <1>2, <1>7, <1>8, <1>9, <1>10, <1>11, <1>12 DEF RingInv

LEMMA CheckpointInv ==
  ASSUME RingInv, Checkpoint
  PROVE  RingInv'
<1> USE RingAssumption DEF Checkpoint, RingInv
<1>1. TypeOK' /\ snap_segments' # NULL /\ snap_lengths' # NULL
  BY DEF TypeOK
<1>2. WindowSound' /\ SnapshotSound' /\ UndefinedExplained'
  BY DEF WindowSound, SnapshotSound, UndefinedExplained, Holds
<1>3. Unwrapped' /\ SafeUntilWrapped' /\ BuffersOwned'
  BY DEF Unwrapped, SafeUntilWrapped, BuffersOwned
<1> QED BY <1>1, <1>2, <1>3

LEMMA CheckpointFailedInv ==
  ASSUME RingInv, CheckpointFailed
  PROVE  RingInv'
<1> USE DEF CheckpointFailed, RingInv, auxVars
<1>1. TypeOK'
  BY DEF TypeOK
<1>2. WindowSound' /\ SnapshotSound' /\ UndefinedExplained'
  BY DEF WindowSound, SnapshotSound, UndefinedExplained, Holds
<1>3. Unwrapped' /\ SafeUntilWrapped' /\ BuffersOwned'
  BY DEF Unwrapped, SafeUntilWrapped, BuffersOwned
<1> QED BY <1>1, <1>2, <1>3

LEMMA RollbackInv ==
  ASSUME RingInv, Rollback
  PROVE  RingInv'
<1> USE DEF Rollback, RingInv
<1>1. TypeOK'
  BY DEF TypeOK
<1>2. SnapshotSound' /\ UndefinedExplained'
  BY DEF SnapshotSound, UndefinedExplained, Holds
<1>3. WindowSound'
  BY DEF WindowSound, SnapshotSound, Holds
<1>4. Unwrapped' /\ SafeUntilWrapped' /\ BuffersOwned'
  BY DEF Unwrapped, SafeUntilWrapped, BuffersOwned
<1> QED BY <1>1, <1>2, <1>3, <1>4

LEMMA UndefinedInv ==
  ASSUME RingInv, Undefined, state = "ready",
         \/ tainted
         \/ has_snapshot /\ snap_segments = NULL
  PROVE  RingInv'
<1> USE DEF Undefined, RingInv, auxVars
<1>1. TypeOK'
  BY DEF TypeOK
<1>2. WindowSound' /\ SnapshotSound' /\ UndefinedExplained'
  BY DEF WindowSound, SnapshotSound, UndefinedExplained, Holds
<1>3. Unwrapped' /\ SafeUntilWrapped' /\ BuffersOwned'
  BY DEF Unwrapped, SafeUntilWrapped, BuffersOwned
<1> QED BY <1>1, <1>2, <1>3

LEMMA UnchangedInv == RingInv /\ UNCHANGED vars => RingInv'
BY DEF vars, codeVars, auxVars, RingInv, TypeOK, WindowSound, SnapshotSound,
       UndefinedExplained, Unwrapped, SafeUntilWrapped, BuffersOwned, Holds

LEMMA NextInv == RingInv /\ [Next]_vars => RingInv'
<1> SUFFICES ASSUME RingInv, [Next]_vars PROVE RingInv'
  OBVIOUS
<1>1. CASE PutUndefined
  <2>1. tainted
    BY <1>1, SlotsLive DEF PutUndefined, RingInv, TypeOK
  <2> QED BY <1>1, <2>1, UndefinedInv DEF PutUndefined
<1>2. CASE RollbackUndefined
  BY <1>2, UndefinedInv DEF RollbackUndefined
<1>3. CASE RingFreeUndefined
  <2>1. tainted
    BY <1>3, SlotsLive DEF RingFreeUndefined, FreeTwice, RingInv, WindowSound
  <2> QED BY <1>3, <2>1, UndefinedInv DEF RingFreeUndefined
<1>4. CASE PutRefused \/ RollbackIgnored \/ Stopped \/ UNCHANGED vars
  BY <1>4, UnchangedInv DEF PutRefused, RollbackIgnored, Stopped
<1> QED BY <1>1, <1>2, <1>3, <1>4, RingInitInv, PutInv, CheckpointInv,
           CheckpointFailedInv, RollbackInv, RingFreeInv DEF Next

THEOREM RingInvariant == Spec => []RingInv
BY InitInv, NextInv, PTL DEF Spec

(* The types of the ring's state. *)
THEOREM TypeCorrect == Spec => []TypeOK
<1>1. RingInv => TypeOK
  BY DEF RingInv
<1> QED BY <1>1, RingInvariant, PTL

(* Until a rollback brings back a freed buffer, every slot holds what it   *)
(* should, in a buffer of its own.                                         *)
THEOREM WindowSoundAlways == Spec => []WindowSound
<1>1. RingInv => WindowSound
  BY DEF RingInv
<1> QED BY <1>1, RingInvariant, PTL

(* Undefined behaviour has one cause: such a rollback, or one whose arrays *)
(* could not be allocated.                                                 *)
THEOREM UndefinedExplainedAlways == Spec => []UndefinedExplained
<1>1. RingInv => UndefinedExplained
  BY DEF RingInv
<1> QED BY <1>1, RingInvariant, PTL

(* Until the ring has wrapped, no checkpointed buffer is ever freed. *)
THEOREM SafeUntilWrappedAlways == Spec => []SafeUntilWrapped
<1>1. RingInv => SafeUntilWrapped
  BY DEF RingInv
<1> QED BY <1>1, RingInvariant, PTL

(* Without a rollback the ring owns every buffer that is allocated. *)
THEOREM BuffersOwnedAlways == Spec => []BuffersOwned
<1>1. RingInv => BuffersOwned
  BY DEF RingInv
<1> QED BY <1>1, RingInvariant, PTL

-----------------------------------------------------------------------------

(***************************************************************************)
(* The ring as a sliding window.  Until a rollback the slots in use are    *)
(* those before the head or, once the ring has wrapped, all of them.       *)
(***************************************************************************)

Contiguous ==
  ~rolledBack =>
    \/ \A i \in Slot : segments[i] # NULL <=> i < head
    \/ \A i \in Slot : segments[i] # NULL

WindowInv == RingInv /\ Contiguous

(* Slots are counted on, and back, over the end of the array. *)
LEMMA Around ==
  \A x \in 0 .. 2 * N - 1 : x % N = IF x < N THEN x ELSE x - N
BY SlotFacts

(* The k-th of n slots in use. *)
At(n, k) == IF head - n + k - 1 >= 0 THEN head - n + k - 1 ELSE head + N - n + k - 1

InUse(n) ==
  /\ \/ n = N /\ \A i \in Slot : segments[i] # NULL
     \/ n = head /\ \A i \in Slot : segments[i] # NULL <=> i < head
  /\ \A k \in 1 .. n : At(n, k) \in Slot /\ segments[At(n, k)] \in Buf
  /\ Window = [k \in 1 .. n |-> mem[segments[At(n, k)]]]
  /\ Window \in Seq(Data)
  /\ Len(Window) = n

LEMMA WindowIs == WindowInv /\ ~rolledBack => \E n \in 0 .. N : InUse(n)
<1> SUFFICES ASSUME WindowInv, ~rolledBack
             PROVE  \E n \in 0 .. N : InUse(n)
  OBVIOUS
<1> USE SlotFacts
<1>1. head \in Slot /\ segments \in [Slot -> Buf \cup {NULL}] /\ ~tainted
  BY DEF WindowInv, RingInv, TypeOK
<1>2. \E n \in 0 .. N : /\ \/ n = N /\ \A i \in Slot : segments[i] # NULL
                           \/ n = head /\ \A i \in Slot : segments[i] # NULL <=> i < head
                        /\ Cardinality(Held) = n
  <2>1. CASE \A i \in Slot : segments[i] # NULL
    <3>1. Held = 0 .. N - 1
      BY <2>1 DEF Held, Slot
    <3>2. Cardinality(Held) = N
      BY <3>1, FS_Interval
    <3> QED BY <2>1, <3>2
  <2>2. CASE \A i \in Slot : segments[i] # NULL <=> i < head
    <3>1. Held = 0 .. head - 1
      BY <1>1, <2>2 DEF Held, Slot
    <3>2. Cardinality(Held) = head
      BY <1>1, <3>1, FS_Interval DEF Slot
    <3> QED BY <1>1, <2>2, <3>2 DEF Slot
  <2> QED BY <2>1, <2>2 DEF WindowInv, Contiguous
<1>3. PICK n \in 0 .. N :
        /\ \/ n = N /\ \A i \in Slot : segments[i] # NULL
           \/ n = head /\ \A i \in Slot : segments[i] # NULL <=> i < head
        /\ Cardinality(Held) = n
  BY <1>2
<1>4. ASSUME NEW k \in 1 .. n
      PROVE  /\ (head + N - n + k - 1) % N = At(n, k)
             /\ At(n, k) \in Slot
             /\ segments[At(n, k)] # NULL
  <2>1. head + N - n + k - 1 \in 0 .. 2 * N - 1
    BY <1>1 DEF Slot
  <2>2. (head + N - n + k - 1) % N = At(n, k)
    BY <1>1, <2>1, Around DEF At, Slot
  <2>3. At(n, k) \in Slot /\ (n = head => At(n, k) = k - 1)
    BY <1>1 DEF At, Slot
  <2>4. segments[At(n, k)] # NULL
    BY <1>1, <1>3, <2>3 DEF Slot
  <2> QED BY <2>2, <2>3, <2>4
<1>5. \A k \in 1 .. n : segments[At(n, k)] \in Buf /\ mem[segments[At(n, k)]] \in Data
  BY <1>1, <1>4, SlotsLive DEF WindowInv
<1>6. Window = [k \in 1 .. n |-> mem[segments[At(n, k)]]]
  BY <1>3, <1>4 DEF Window
<1>7. Window \in Seq(Data) /\ Len(Window) = n
  <2> DEFINE w == [k \in 1 .. n |-> mem[segments[At(n, k)]]]
  <2>1. w \in [1 .. n -> Data]
    BY <1>5
  <2> HIDE DEF w
  <2>2. w \in Seq(Data) /\ Len(w) = n
    BY <2>1
  <2> QED BY <1>6, <2>2 DEF w
<1> QED BY <1>3, <1>4, <1>5, <1>6, <1>7 DEF InUse

LEMMA WindowIsNext ==
  WindowInv' /\ ~rolledBack' => (\E n \in 0 .. N : InUse(n))'
BY WindowIs, PTL

(* The window after an append: the new value follows the older ones, of    *)
(* which the oldest goes if every slot was in use.                         *)
LEMMA PutWindow ==
  ASSUME WindowInv, WindowInv', ~rolledBack, NEW d \in Data, Put(d)
  PROVE  Window' = IF Len(Window) < N THEN Append(Window, d)
                                     ELSE Append(Tail(Window), d)
<1> USE SlotFacts
<1>1. PICK b \in Buf : /\ mem[b] = Free
                       /\ mem' = Replaced(b, d)
                       /\ segments' = [segments EXCEPT ![head] = b]
  BY DEF Put
<1>2. /\ head' = IF head + 1 < N THEN head + 1 ELSE 0
      /\ head \in Slot /\ ~rolledBack'
      /\ ~tainted /\ segments \in [Slot -> Buf \cup {NULL}]
      /\ mem \in [Buf -> Data \cup {Free}]
  <2>1. head' = (head + 1) % N /\ head \in Slot /\ ~rolledBack'
    BY DEF Put, NextHead, WindowInv, RingInv, TypeOK
  <2>2. (head + 1) % N = IF head + 1 < N THEN head + 1 ELSE 0
    BY <2>1, Around DEF Slot
  <2> QED BY <2>1, <2>2 DEF WindowInv, RingInv, TypeOK
<1>3. PICK n \in 0 .. N :
        /\ \/ n = N /\ \A i \in Slot : segments[i] # NULL
           \/ n = head /\ \A i \in Slot : segments[i] # NULL <=> i < head
        /\ \A k \in 1 .. n : At(n, k) \in Slot /\ segments[At(n, k)] \in Buf
        /\ Window = [k \in 1 .. n |-> mem[segments[At(n, k)]]]
        /\ Window \in Seq(Data)
        /\ Len(Window) = n
  BY WindowIs DEF InUse
<1> DEFINE m == IF n < N THEN n + 1 ELSE N
<1>4. /\ Window' = [k \in 1 .. m |-> mem'[segments'[At(m, k)']]]
      /\ Window' \in Seq(Data)
      /\ Len(Window') = m
      /\ \A k \in 1 .. m : At(m, k)' \in Slot
  <2>1. PICK o \in 0 .. N :
          /\ \/ o = N /\ \A i \in Slot : segments'[i] # NULL
             \/ o = head' /\ \A i \in Slot : segments'[i] # NULL <=> i < head'
          /\ \A k \in 1 .. o : At(o, k)' \in Slot /\ segments'[At(o, k)'] \in Buf
          /\ Window' = [k \in 1 .. o |-> mem'[segments'[At(o, k)']]]
          /\ Window' \in Seq(Data)
          /\ Len(Window') = o
    BY <1>2, WindowIsNext DEF InUse
  <2>2. segments'[head] # NULL
    BY <1>1, <1>2, RingAssumption
  <2>3. o = m
    <3>1. CASE n = N
      <4>1. \A i \in Slot : segments'[i] # NULL
        BY <1>1, <1>2, <1>3, <3>1, RingAssumption DEF Slot
      <4>2. head' \in Slot
        BY <1>2 DEF Slot
      <4> QED BY <2>1, <3>1, <4>1, <4>2
    <3>2. CASE n = head /\ n < N /\ head + 1 < N
      <4>1. segments'[head + 1] = NULL
        BY <1>1, <1>2, <1>3, <3>2 DEF Slot
      <4> QED BY <1>2, <2>1, <3>2, <4>1 DEF Slot
    <3>3. CASE n = head /\ n < N /\ head + 1 = N
      BY <1>2, <2>1, <2>2, <3>3 DEF Slot
    <3> QED BY <1>2, <1>3, <3>1, <3>2, <3>3 DEF Slot
  <2> QED BY <2>1, <2>3
<1>5. ASSUME NEW k \in 1 .. m
      PROVE  Window'[k] = IF k = m THEN d ELSE Window[IF n < N THEN k ELSE k + 1]
  <2>1. CASE k = m
    <3>1. At(m, k)' = head
      BY <1>2, <1>3, <2>1 DEF At, Slot
    <3>2. mem'[b] = d
      BY <1>1 DEF Replaced
    <3> QED BY <1>1, <1>2, <1>4, <2>1, <3>1, <3>2
  <2>2. CASE k # m
    <3> DEFINE j == IF n < N THEN k ELSE k + 1
    <3>1. j \in 1 .. n /\ At(m, k)' = At(n, j) /\ At(n, j) # head
      BY <1>2, <1>3, <2>2 DEF At, Slot
    <3>2. /\ At(n, j) \in Slot
          /\ segments'[At(n, j)] = segments[At(n, j)]
          /\ Window[j] = mem[segments[At(n, j)]]
      BY <1>1, <1>2, <1>3, <3>1
    <3>3. segments[At(n, j)] \in Buf /\ mem[segments[At(n, j)]] # Free
      BY <1>2, <1>3, <3>1, <3>2, SlotsLive, RingAssumption DEF WindowInv
    <3>4. segments[At(n, j)] # segments[head]
      BY <1>2, <1>3, <3>1, <3>2, <3>3, RingAssumption
         DEF WindowInv, RingInv, WindowSound
    <3>5. mem'[segments[At(n, j)]] = mem[segments[At(n, j)]]
      BY <1>1, <3>3, <3>4 DEF Replaced
    <3> QED BY <1>4, <2>2, <3>1, <3>2, <3>5
  <2> QED BY <2>1, <2>2
<1> HIDE DEF m
<1>6. CASE n < N
  <2> DEFINE w == Append(Window, d)
  <2>1. w \in Seq(Data) /\ Len(w) = m /\ m = n + 1
    BY <1>3, <1>6 DEF m
  <2>2. \A k \in 1 .. m : w[k] = IF k = m THEN d ELSE Window[k]
    BY <1>3, <2>1
  <2>3. \A k \in 1 .. m : Window'[k] = w[k]
    BY <1>5, <1>6, <2>2
  <2> HIDE DEF w
  <2>4. Window' = w
    BY <1>4, <2>1, <2>3, SeqEqual
  <2> QED BY <1>3, <1>6, <2>4 DEF w
<1>7. CASE n = N
  <2> DEFINE t == Tail(Window)
             w == Append(t, d)
  <2>1. /\ t \in Seq(Data) /\ Len(t) = n - 1
        /\ \A k \in 1 .. n - 1 : t[k] = Window[k + 1]
    BY <1>3, <1>7
  <2> HIDE DEF t
  <2>2. w \in Seq(Data) /\ Len(w) = m /\ m = n
    BY <1>7, <2>1 DEF m
  <2>3. \A k \in 1 .. m : Window'[k] = w[k]
    BY <1>5, <1>7, <2>1, <2>2
  <2> HIDE DEF w
  <2>4. Window' = w
    BY <1>4, <2>2, <2>3, SeqEqual
  <2>5. Window' = Append(Tail(Window), d)
    BY <2>4 DEF t, w
  <2>6. ~(Len(Window) < N)
    BY <1>3, <1>7, SlotFacts
  <2> QED BY <2>5, <2>6
<1>8. n < N \/ n = N
  OBVIOUS
<1> QED BY <1>6, <1>7, <1>8

LEMMA ContiguousInit == Init => Contiguous
BY SlotFacts, ZeroTypes DEF Init, Contiguous, Slot

LEMMA ContiguousNext == WindowInv /\ [Next]_vars => WindowInv'
<1> SUFFICES ASSUME WindowInv, [Next]_vars PROVE Contiguous'
  BY NextInv DEF WindowInv
<1>1. ASSUME UNCHANGED <<segments, head, rolledBack>>
      PROVE  Contiguous'
  BY <1>1 DEF WindowInv, Contiguous
<1>2. CASE RingInit \/ RingFree
  BY <1>2, SlotFacts, ZeroTypes DEF RingInit, RingFree, Zeroed, Contiguous, Slot
<1>3. ASSUME NEW d \in Data, Put(d), ~rolledBack
      PROVE  Contiguous'
  <2> USE SlotFacts
  <2>1. PICK b \in Buf : segments' = [segments EXCEPT ![head] = b]
    BY <1>3 DEF Put
  <2>2. /\ head \in Slot /\ segments \in [Slot -> Buf \cup {NULL}]
        /\ head' = (head + 1) % N
    BY <1>3 DEF Put, NextHead, WindowInv, RingInv, TypeOK
  <2>3. head' = IF head + 1 < N THEN head + 1 ELSE 0
    BY <2>2, Around DEF Slot
  <2>4. \A i \in Slot : segments'[i] # NULL <=> (i = head \/ segments[i] # NULL)
    BY <2>1, <2>2, RingAssumption
  <2>5. CASE \A i \in Slot : segments[i] # NULL
    BY <2>4, <2>5 DEF Contiguous
  <2>6. CASE \A i \in Slot : segments[i] # NULL <=> i < head
    <3>1. CASE head + 1 < N
      BY <2>2, <2>3, <2>4, <2>6, <3>1 DEF Contiguous, Slot
    <3>2. CASE ~(head + 1 < N)
      BY <2>2, <2>4, <2>6, <3>2 DEF Contiguous, Slot
    <3> QED BY <3>1, <3>2
  <2> QED BY <1>3, <2>5, <2>6 DEF WindowInv, Contiguous
<1>4. ASSUME NEW d \in Data, Put(d), rolledBack
      PROVE  Contiguous'
  BY <1>4 DEF Put, Contiguous
<1>5. CASE Rollback
  BY <1>5 DEF Rollback, Contiguous
<1>6. CASE UNCHANGED vars
  BY <1>1, <1>6 DEF vars, codeVars, auxVars
<1> QED BY <1>1, <1>2, <1>3, <1>4, <1>5, <1>6
        DEF Next, PutRefused, PutUndefined, Checkpoint, CheckpointFailed,
            RollbackUndefined, RollbackIgnored, RingFreeUndefined, Stopped,
            Undefined, vars, codeVars, auxVars

LEMMA WindowInvariant == Spec => []WindowInv
<1>1. Init => WindowInv
  BY InitInv, ContiguousInit DEF WindowInv
<1> QED BY <1>1, ContiguousNext, PTL DEF Spec

LEMMA EmptyWindow == (\A i \in Slot : segments[i] = NULL) => Window = <<>>
<1> SUFFICES ASSUME \A i \in Slot : segments[i] = NULL
             PROVE  Window = <<>>
  OBVIOUS
<1>1. Held = {}
  BY DEF Held
<1>2. Cardinality(Held) = 0
  BY <1>1, FS_EmptySet
<1> QED BY <1>2 DEF Window

LEMMA EmptyWindowNext ==
  (\A i \in Slot : segments[i] = NULL)' => (Window = <<>>)'
BY EmptyWindow, PTL

LEMMA WindowStep ==
  ASSUME WindowInv, WindowInv', [Next]_vars
  PROVE  [Sliding!Next]_<<IF rolledBack THEN <<>> ELSE Window, ~rolledBack>>
<1> DEFINE abstract == <<IF rolledBack THEN <<>> ELSE Window, ~rolledBack>>
<1>1. ASSUME UNCHANGED <<mem, segments, head, rolledBack>>
      PROVE  abstract' = abstract
  BY <1>1 DEF Window, Held
<1>2. CASE RingInit \/ RingFree
  <2>1. \A i \in Slot : segments'[i] = NULL
    BY <1>2, ZeroTypes DEF RingInit, RingFree, Zeroed
  <2>2. Window' = <<>>
    BY <2>1, EmptyWindowNext
  <2>3. rolledBack' = rolledBack
    BY <1>2 DEF RingInit, RingFree
  <2> QED BY <2>2, <2>3 DEF Sliding!Next, Sliding!Clear
<1>3. ASSUME NEW d \in Data, Put(d)
      PROVE  [Sliding!Next]_abstract
  <2>1. rolledBack' = rolledBack
    BY <1>3 DEF Put
  <2>2. CASE ~rolledBack
    <3>1. Window' = IF Len(Window) < N THEN Append(Window, d)
                                       ELSE Append(Tail(Window), d)
      BY <1>3, <2>2, PutWindow
    <3> QED BY <2>1, <2>2, <3>1 DEF Sliding!Next, Sliding!Push
  <2> QED BY <2>1, <2>2
<1>4. CASE Rollback
  BY <1>4 DEF Rollback, Sliding!Next, Sliding!RollBack
<1>5. CASE UNCHANGED vars
  BY <1>1, <1>5 DEF vars, codeVars, auxVars
<1> QED BY <1>1, <1>2, <1>3, <1>4, <1>5
        DEF Next, PutRefused, PutUndefined, Checkpoint, CheckpointFailed,
            RollbackUndefined, RollbackIgnored, RingFreeUndefined, Stopped,
            Undefined, vars, codeVars, auxVars

(* Until it is rolled back the ring is a sliding window over the last N    *)
(* values appended, in order, for every N and whatever checkpoints are     *)
(* taken.                                                                  *)
THEOREM RingImplementsWindow == Spec => ImplementsWindow
<1>1. Init => Sliding!Init
  BY EmptyWindow, ZeroTypes DEF Init, Sliding!Init
<1>2. WindowInv /\ WindowInv' /\ [Next]_vars
        => [Sliding!Next]_<<IF rolledBack THEN <<>> ELSE Window, ~rolledBack>>
  BY WindowStep
<1> QED BY <1>1, <1>2, WindowInvariant, PTL DEF Spec, ImplementsWindow, Sliding!Spec

=============================================================================
