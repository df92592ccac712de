-------------------------- MODULE ReplayEngineProofs --------------------------
(***************************************************************************)
(* Proofs about the path of a replay: the session tracker, the event log   *)
(* over it and the engine that drives both, for any sets of sessions,      *)
(* payloads and addresses, any capacities, any records and any journal.    *)
(* Each of the three extends the one before it, and so do its proofs.      *)
(***************************************************************************)
EXTENDS ReplayEngine, Recursion, SequenceTheorems

(***************************************************************************)
(* The session tracker.                                                    *)
(*                                                                         *)
(* The inductive invariant is the conjunction of the three invariants that *)
(* the runs check: OneEntryPerSession needs ChainOwnsHeap (a new entry's   *)
(* address is on no chain), which needs the types, which need count to be  *)
(* the length of a chain that is not empty when an entry is unlinked.      *)
(***************************************************************************)

TrackerInv == TypeOK /\ ChainOwnsHeap /\ OneEntryPerSession

(* Unlinking place k keeps the other places, in order. *)
LEMMA UnlinkPlaces ==
  ASSUME list \in Seq(Addr), NEW k \in DOMAIN list
  PROVE  /\ Unlink(k) \in Seq(Addr)
         /\ Len(Unlink(k)) = Len(list) - 1
         /\ DOMAIN Unlink(k) = 1 .. Len(list) - 1
         /\ \A i \in 1 .. Len(list) - 1 :
              Unlink(k)[i] = IF i < k THEN list[i] ELSE list[i + 1]
<1>1. Len(list) \in Nat /\ DOMAIN list = 1 .. Len(list) /\ Len(list) - 1 \in Nat
  OBVIOUS
<1>2. \A i \in 1 .. Len(list) - 1 :
        (IF i < k THEN list[i] ELSE list[i + 1]) \in Addr
  BY <1>1
<1> QED BY <1>1, <1>2 DEF Unlink

(* Linking an entry in front keeps the other places, one further on. *)
LEMMA LinkPlaces ==
  ASSUME list \in Seq(Addr), NEW a \in Addr
  PROVE  /\ <<a>> \o list \in Seq(Addr)
         /\ Len(<<a>> \o list) = Len(list) + 1
         /\ (<<a>> \o list)[1] = a
         /\ \A i \in 1 .. Len(list) : (<<a>> \o list)[i + 1] = list[i]
         /\ \A i \in 2 .. Len(list) + 1 : (<<a>> \o list)[i] = list[i - 1]
<1>1. <<a>> \in Seq(Addr) /\ Len(<<a>>) = 1 /\ <<a>>[1] = a
  OBVIOUS
<1> QED BY <1>1

(* What the operators that fill an entry return. *)
LEMMA EntryTypes ==
  /\ \A sid \in SessionId, peer \in PeerId :
       /\ NewEntry(sid, peer) \in Entry
       /\ NewEntry(sid, peer).session_id = sid
  /\ \A e \in Entry, payload \in Payload :
       /\ Updated(e, payload) \in Entry
       /\ Updated(e, payload).session_id = e.session_id
<1>1. \A sid \in SessionId, peer \in PeerId :
        /\ NewEntry(sid, peer) \in Entry
        /\ NewEntry(sid, peer).session_id = sid
  BY DEF NewEntry, Entry
<1>2. ASSUME NEW e \in Entry, NEW payload \in Payload
      PROVE  /\ Updated(e, payload) \in Entry
             /\ Updated(e, payload).session_id = e.session_id
  <2> DEFINE st == IF payload = NoChunk THEN e.state ELSE Append(e.state, payload)
         u == e.updates + 1
  <2>1. u \in Nat /\ st \in Seq(Chunk)
    BY <1>2 DEF Entry, Payload
  <2>2. Updated(e, payload) = [e EXCEPT !.updates = u, !.state = st]
    BY DEF Updated
  <2> HIDE DEF st, u
  <2> QED BY <1>2, <2>1, <2>2 DEF Entry
<1> QED BY <1>1, <1>2

LEMMA InitInv == Init => TrackerInv
BY TrackerAssumption DEF Init, TrackerInv, TypeOK, Status, ChainOwnsHeap, OneEntryPerSession

LEMMA UpsertKnownInv ==
  ASSUME TrackerInv, NEW sid \in SessionId, NEW payload \in Payload,
         UpsertKnown(sid, payload)
  PROVE  TrackerInv'
<1> USE DEF TrackerInv
<1>1. PICK k \in DOMAIN list :
        /\ FoundAt(k, sid)
        /\ heap' = [heap EXCEPT ![list[k]] = Updated(@, payload)] \/ heap' = heap
        /\ list' = list /\ count' = count /\ status' \in Status
  BY DEF UpsertKnown, Status
<1>2. list[k] \in Addr /\ heap[list[k]] \in Entry
  BY <1>1 DEF TypeOK, ChainOwnsHeap
<1>3. Updated(heap[list[k]], payload) \in Entry
      /\ Updated(heap[list[k]], payload).session_id = heap[list[k]].session_id
  BY <1>2, EntryTypes
<1>4. TypeOK'
  BY <1>1, <1>2, <1>3 DEF TypeOK
<1>5. ChainOwnsHeap'
  BY <1>1, <1>2, <1>3, TrackerAssumption DEF TypeOK, ChainOwnsHeap
<1>6. OneEntryPerSession'
  BY <1>1, <1>2, <1>3 DEF TypeOK, ChainOwnsHeap, OneEntryPerSession
<1> QED BY <1>4, <1>5, <1>6

LEMMA UpsertNewInv ==
  ASSUME TrackerInv, NEW sid \in SessionId, NEW peer \in PeerId,
         NEW payload \in Payload, UpsertNew(sid, peer, payload)
  PROVE  TrackerInv'
<1> USE DEF TrackerInv
<1>1. CASE UNCHANGED <<heap, list, count>> /\ status' \in Status
  BY <1>1 DEF TypeOK, ChainOwnsHeap, OneEntryPerSession
<1>2. CASE \E a \in Addr, e \in Entry :
             /\ heap[a] = Free
             /\ e.session_id = sid
             /\ list' = <<a>> \o list
             /\ count' = count + 1
             /\ heap' = [heap EXCEPT ![a] = e]
             /\ status' \in Status
  <2>1. PICK a \in Addr, e \in Entry :
             /\ heap[a] = Free
             /\ e.session_id = sid
             /\ list' = <<a>> \o list
             /\ count' = count + 1
             /\ heap' = [heap EXCEPT ![a] = e]
             /\ status' \in Status
    BY <1>2
  <2>2. list \in Seq(Addr) /\ Len(list) \in Nat /\ DOMAIN list = 1 .. Len(list)
    BY DEF TypeOK
  <2>3. \A k \in 1 .. Len(list) : list[k] # a
    BY <2>1, <2>2 DEF ChainOwnsHeap
  <2>4. /\ list' \in Seq(Addr) /\ Len(list') = Len(list) + 1
        /\ DOMAIN list' = 1 .. Len(list) + 1
        /\ list'[1] = a
        /\ \A i \in 1 .. Len(list) : list'[i + 1] = list[i]
        /\ \A i \in 2 .. Len(list) + 1 : list'[i] = list[i - 1] /\ i - 1 \in 1 .. Len(list)
    BY <2>1, <2>2, LinkPlaces
  <2>5. TypeOK'
    BY <2>1, <2>4 DEF TypeOK
  <2>6. \A b \in Addr : heap'[b] # Free <=> \E k \in DOMAIN list' : list'[k] = b
    <3>1. TAKE b \in Addr
    <3>2. CASE b = a
      BY <2>1, <2>4, <3>2, TrackerAssumption DEF TypeOK
    <3>3. CASE b # a
      <4>1. heap'[b] = heap[b]
        BY <2>1, <3>3 DEF TypeOK
      <4>2. ASSUME NEW k \in DOMAIN list', list'[k] = b
            PROVE  \E m \in DOMAIN list : list[m] = b
        <5>1. k \in 2 .. Len(list) + 1
          BY <2>2, <2>4, <3>3, <4>2
        <5> QED BY <2>2, <2>4, <4>2, <5>1
      <4>3. ASSUME NEW k \in DOMAIN list, list[k] = b
            PROVE  \E m \in DOMAIN list' : list'[m] = b
        <5>1. k + 1 \in DOMAIN list' /\ list'[k + 1] = b
          BY <2>2, <2>4, <4>3
        <5> QED BY <5>1
      <4> QED BY <4>1, <4>2, <4>3 DEF ChainOwnsHeap
    <3> QED BY <3>2, <3>3
  <2>7. \A j, k \in DOMAIN list' : list'[j] = list'[k] => j = k
    <3>1. SUFFICES ASSUME NEW j \in DOMAIN list', NEW k \in DOMAIN list',
                          list'[j] = list'[k]
                   PROVE  j = k
      OBVIOUS
    <3>2. j = 1 \/ (j \in 2 .. Len(list) + 1 /\ j - 1 \in 1 .. Len(list))
      BY <2>2, <2>4
    <3>3. k = 1 \/ (k \in 2 .. Len(list) + 1 /\ k - 1 \in 1 .. Len(list))
      BY <2>2, <2>4
    <3> QED BY <2>2, <2>3, <2>4, <3>1, <3>2, <3>3 DEF ChainOwnsHeap
  <2>8. ChainOwnsHeap'
    BY <2>1, <2>2, <2>4, <2>6, <2>7 DEF ChainOwnsHeap
  <2>9. \A i \in 1 .. Len(list) : heap'[list[i]] = heap[list[i]]
                                 /\ heap[list[i]].session_id # sid
    <3>1. \A i \in DOMAIN list : heap[list[i]].session_id # sid
      BY DEF UpsertNew, Known
    <3>2. \A i \in 1 .. Len(list) : list[i] \in Addr
      BY <2>2
    <3>3. \A b \in Addr : b # a => heap'[b] = heap[b]
      BY <2>1 DEF TypeOK
    <3> QED BY <2>2, <2>3, <3>1, <3>2, <3>3
  <2>10. OneEntryPerSession'
    <3>1. SUFFICES ASSUME NEW j \in DOMAIN list', NEW k \in DOMAIN list',
                          heap'[list'[j]].session_id = heap'[list'[k]].session_id
                   PROVE  j = k
      BY DEF OneEntryPerSession
    <3>2. heap'[a].session_id = sid
      BY <2>1 DEF TypeOK
    <3>3. j = 1 \/ (j \in 2 .. Len(list) + 1 /\ j - 1 \in 1 .. Len(list))
      BY <2>2, <2>4
    <3>4. k = 1 \/ (k \in 2 .. Len(list) + 1 /\ k - 1 \in 1 .. Len(list))
      BY <2>2, <2>4
    <3>5. CASE j = 1
      BY <2>4, <2>9, <3>1, <3>2, <3>4, <3>5
    <3>6. CASE j - 1 \in 1 .. Len(list) /\ j \in 2 .. Len(list) + 1 /\ k = 1
      BY <2>4, <2>9, <3>1, <3>2, <3>6
    <3>7. CASE /\ j - 1 \in 1 .. Len(list) /\ j \in 2 .. Len(list) + 1
               /\ k - 1 \in 1 .. Len(list) /\ k \in 2 .. Len(list) + 1
      <4>1. /\ heap'[list'[j]] = heap[list[j - 1]]
            /\ heap'[list'[k]] = heap[list[k - 1]]
        BY <2>4, <2>9, <3>7
      <4>2. j - 1 = k - 1
        BY <2>2, <3>1, <3>7, <4>1 DEF OneEntryPerSession
      <4> QED BY <4>2, <3>7
    <3> QED BY <3>3, <3>4, <3>5, <3>6, <3>7
  <2> QED BY <2>5, <2>8, <2>10
<1>3. NewEntry(sid, peer) \in Entry /\ Updated(NewEntry(sid, peer), payload) \in Entry
      /\ NewEntry(sid, peer).session_id = sid
      /\ Updated(NewEntry(sid, peer), payload).session_id = sid
  BY EntryTypes
<1> QED BY <1>1, <1>2, <1>3 DEF UpsertNew, Status

LEMMA TerminateKnownInv ==
  ASSUME TrackerInv, NEW sid \in SessionId, TerminateKnown(sid)
  PROVE  TrackerInv'
<1> USE DEF TrackerInv
<1>1. PICK k \in DOMAIN list :
        /\ list' = Unlink(k)
        /\ count' = count - 1
        /\ heap' = [heap EXCEPT ![list[k]] = Free]
        /\ status' = "IPMB_OK"
  BY DEF TerminateKnown
<1>2. list \in Seq(Addr) /\ Len(list) \in Nat /\ DOMAIN list = 1 .. Len(list)
      /\ Len(list) - 1 \in Nat /\ list[k] \in Addr
  BY DEF TypeOK
<1>3. /\ list' \in Seq(Addr) /\ Len(list') = Len(list) - 1
      /\ DOMAIN list' = 1 .. Len(list) - 1
      /\ \A i \in 1 .. Len(list) - 1 :
           list'[i] = IF i < k THEN list[i] ELSE list[i + 1]
  BY <1>1, <1>2, UnlinkPlaces
<1> DEFINE old(i) == IF i < k THEN i ELSE i + 1
<1>4. \A i \in DOMAIN list' : old(i) \in DOMAIN list /\ old(i) # k /\ list'[i] = list[old(i)]
  BY <1>2, <1>3
<1>5. \A i, j \in DOMAIN list' : old(i) = old(j) => i = j
  BY <1>2, <1>3
<1>6. \A i \in DOMAIN list : i # k => \E j \in DOMAIN list' : old(j) = i
  <2>1. TAKE i \in DOMAIN list
  <2>2. CASE i < k
    BY <1>2, <1>3, <2>2
  <2>3. CASE i > k
    <3>1. i - 1 \in DOMAIN list' /\ old(i - 1) = i
      BY <1>2, <1>3, <2>3
    <3> QED BY <3>1
  <2> QED BY <1>2, <2>2, <2>3
<1> HIDE DEF old
<1>7. TypeOK'
  BY <1>1, <1>2, <1>3 DEF TypeOK, ChainOwnsHeap, Status
<1>8. \A i \in DOMAIN list' : heap'[list'[i]] = heap[list[old(i)]]
  BY <1>1, <1>2, <1>4 DEF TypeOK, ChainOwnsHeap
<1>9. ChainOwnsHeap'
  <2>1. \A a \in Addr : heap'[a] # Free <=> \E i \in DOMAIN list' : list'[i] = a
    <3>1. TAKE a \in Addr
    <3>2. CASE a = list[k]
      BY <1>1, <1>2, <1>4, <3>2 DEF TypeOK, ChainOwnsHeap
    <3>3. CASE a # list[k]
      <4>1. heap'[a] = heap[a]
        BY <1>1, <3>3 DEF TypeOK
      <4>2. (\E i \in DOMAIN list' : list'[i] = a) <=> \E i \in DOMAIN list : list[i] = a
        BY <1>4, <1>6, <3>3
      <4> QED BY <4>1, <4>2 DEF ChainOwnsHeap
    <3> QED BY <3>2, <3>3
  <2>2. \A i, j \in DOMAIN list' : list'[i] = list'[j] => i = j
    BY <1>4, <1>5 DEF ChainOwnsHeap
  <2>3. count' = Len(list')
    BY <1>1, <1>2, <1>3 DEF ChainOwnsHeap
  <2> QED BY <2>1, <2>2, <2>3 DEF ChainOwnsHeap
<1>10. OneEntryPerSession'
  BY <1>4, <1>5, <1>8 DEF OneEntryPerSession
<1> QED BY <1>7, <1>9, <1>10

LEMMA FreeTrackerInv ==
  ASSUME TrackerInv, FreeTracker
  PROVE  TrackerInv'
<1> USE DEF TrackerInv
<1>1. list' = <<>> /\ DOMAIN list' = {} /\ Len(list') = 0
  BY DEF FreeTracker
<1>2. \A a \in Addr : heap'[a] = Free
  BY DEF FreeTracker, ChainOwnsHeap, TypeOK
<1>3. TypeOK'
  BY <1>1 DEF FreeTracker, TypeOK, Status
<1>4. ChainOwnsHeap' /\ OneEntryPerSession'
  BY <1>1, <1>2 DEF FreeTracker, ChainOwnsHeap, OneEntryPerSession
<1> QED BY <1>3, <1>4

LEMMA NextInv == TrackerInv /\ [Next]_trackerVars => TrackerInv'
<1> SUFFICES ASSUME TrackerInv, [Next]_trackerVars PROVE TrackerInv'
  OBVIOUS
<1>1. ASSUME NEW sid \in SessionId, NEW peer \in PeerId, NEW payload \in Payload,
             Upsert(sid, peer, payload)
      PROVE  TrackerInv'
  BY <1>1, UpsertKnownInv, UpsertNewInv DEF Upsert
<1>2. ASSUME NEW sid \in SessionId, TerminateUnknown(sid)
      PROVE  TrackerInv'
  BY <1>2 DEF TerminateUnknown, TrackerInv, TypeOK, ChainOwnsHeap,
              OneEntryPerSession, Status
<1>3. ASSUME NEW sid \in SessionId, Terminate(sid)
      PROVE  TrackerInv'
  BY <1>2, <1>3, TerminateKnownInv DEF Terminate
<1>4. CASE UNCHANGED trackerVars
  BY <1>4 DEF trackerVars, TrackerInv, TypeOK, ChainOwnsHeap, OneEntryPerSession
<1> QED BY <1>1, <1>3, <1>4, FreeTrackerInv DEF Next

(* The types of the tracker's state hold in every reachable state. *)
THEOREM TypeCorrect == Spec => []TypeOK
<1>1. Spec => []TrackerInv
  BY InitInv, NextInv, PTL DEF Spec
<1> QED BY <1>1, PTL DEF TrackerInv

(* The chain owns exactly the heap's entries, in every reachable state:    *)
(* no call leaks an entry, links one twice, or frees one it leaves linked. *)
THEOREM ChainOwnsHeapAlways == Spec => []ChainOwnsHeap
<1>1. Spec => []TrackerInv
  BY InitInv, NextInv, PTL DEF Spec
<1> QED BY <1>1, PTL DEF TrackerInv

(* No session ever has two entries. *)
THEOREM OneEntryAlways == Spec => []OneEntryPerSession
<1>1. Spec => []TrackerInv
  BY InitInv, NextInv, PTL DEF Spec
<1> QED BY <1>1, PTL DEF TrackerInv

-----------------------------------------------------------------------------

(* What one call does to the heap, by what it does to one entry. *)
LEMMA UpdatedGrows ==
  ASSUME NEW e \in Entry, NEW payload \in Payload
  PROVE  LET f == Updated(e, payload)
         IN /\ f.session_id = e.session_id
            /\ f.peer_id = e.peer_id
            /\ f.updates = e.updates + 1
            /\ Len(f.state) - Len(e.state) \in {0, 1}
            /\ Starts(e.state, f.state)
<1> DEFINE st == IF payload = NoChunk THEN e.state ELSE Append(e.state, payload)
           u == e.updates + 1
<1>1. e.state \in Seq(Chunk) /\ Len(e.state) \in Nat
  BY DEF Entry
<1>2. Starts(e.state, e.state)
  BY <1>1 DEF Starts
<1>3. ASSUME payload # NoChunk
      PROVE  Starts(e.state, Append(e.state, payload))
  BY <1>1, <1>3 DEF Payload, Starts
<1>4. Starts(e.state, st) /\ Len(st) - Len(e.state) \in {0, 1}
  BY <1>1, <1>2, <1>3 DEF Payload
<1>5. Updated(e, payload) = [e EXCEPT !.updates = u, !.state = st]
  BY DEF Updated
<1> HIDE DEF st
<1> QED BY <1>4, <1>5 DEF Entry

LEMMA StepGrows ==
  TrackerInv /\ [Next]_trackerVars =>
    [\A a \in Addr :
       LET old == heap[a]
           new == heap'[a]
       IN (old # Free /\ new # Free /\ new # old) =>
            /\ Captured(new).session_id = Captured(old).session_id
            /\ new.peer_id = old.peer_id
            /\ Captured(new).updates = Captured(old).updates + 1
            /\ Captured(new).state_len - Captured(old).state_len \in {0, 1}
            /\ Starts(old.state, new.state)
            /\ status' = "IPMB_OK"
    ]_trackerVars
<1> SUFFICES ASSUME TrackerInv, Next, NEW a \in Addr,
                    heap[a] # Free, heap'[a] # Free, heap'[a] # heap[a]
             PROVE  /\ heap'[a].session_id = heap[a].session_id
                    /\ heap'[a].peer_id = heap[a].peer_id
                    /\ heap'[a].updates = heap[a].updates + 1
                    /\ Len(heap'[a].state) - Len(heap[a].state) \in {0, 1}
                    /\ Starts(heap[a].state, heap'[a].state)
                    /\ status' = "IPMB_OK"
  BY DEF Captured
<1> USE DEF TrackerInv
<1>1. heap[a] \in Entry
  BY DEF TypeOK
<1>2. ASSUME NEW sid \in SessionId, NEW payload \in Payload, UpsertKnown(sid, payload)
      PROVE  status' = "IPMB_OK" /\ heap'[a] = Updated(heap[a], payload)
  BY <1>2 DEF UpsertKnown, TypeOK
<1>3. ASSUME NEW sid \in SessionId, NEW peer \in PeerId, NEW payload \in Payload,
             UpsertNew(sid, peer, payload)
      PROVE  FALSE
  BY <1>3 DEF UpsertNew, TypeOK
<1>4. ASSUME NEW sid \in SessionId, Terminate(sid)
      PROVE  FALSE
  BY <1>4 DEF Terminate, TerminateKnown, TerminateUnknown, TypeOK
<1>5. ASSUME FreeTracker
      PROVE  FALSE
  BY <1>5 DEF FreeTracker
<1>6. PICK sid \in SessionId, payload \in Payload : UpsertKnown(sid, payload)
  BY <1>3, <1>4, <1>5 DEF Next, Upsert
<1> QED BY <1>1, <1>2, <1>6, UpdatedGrows

(* An entry that stays allocated is only ever appended to, by its own      *)
(* session's counted updates.                                              *)
THEOREM EntriesOnlyGrowAlways == Spec => EntriesOnlyGrow
<1>1. Spec => []TrackerInv
  BY InitInv, NextInv, PTL DEF Spec
<1> QED BY <1>1, StepGrows, PTL DEF Spec, EntriesOnlyGrow

-----------------------------------------------------------------------------

(* Which address holds a session. *)
Binds(a, sid) == heap[a] # Free /\ heap[a].session_id = sid

LEMMA BindsOne ==
  TrackerInv => \A a, b \in Addr, sid \in SessionId :
                  Binds(a, sid) /\ Binds(b, sid) => a = b
<1> SUFFICES ASSUME TrackerInv, NEW a \in Addr, NEW b \in Addr, NEW sid \in SessionId,
                    Binds(a, sid), Binds(b, sid)
             PROVE  a = b
  OBVIOUS
<1>1. PICK j \in DOMAIN list : list[j] = a
  BY DEF TrackerInv, ChainOwnsHeap, Binds
<1>2. PICK k \in DOMAIN list : list[k] = b
  BY DEF TrackerInv, ChainOwnsHeap, Binds
<1> QED BY <1>1, <1>2 DEF TrackerInv, OneEntryPerSession, Binds

LEMMA BindsKnown ==
  TrackerInv => \A sid \in SessionId : Known(sid) <=> \E a \in Addr : Binds(a, sid)
<1> SUFFICES ASSUME TrackerInv, NEW sid \in SessionId
             PROVE  Known(sid) <=> \E a \in Addr : Binds(a, sid)
  OBVIOUS
<1>1. ASSUME NEW k \in DOMAIN list, heap[list[k]].session_id = sid
      PROVE  list[k] \in Addr /\ Binds(list[k], sid)
  BY <1>1 DEF TrackerInv, TypeOK, ChainOwnsHeap, Binds
<1>2. ASSUME NEW a \in Addr, Binds(a, sid)
      PROVE  \E k \in DOMAIN list : list[k] = a
  BY <1>2 DEF TrackerInv, ChainOwnsHeap, Binds
<1> QED BY <1>1, <1>2 DEF Known, Binds

(* The map has what the address that binds a session holds, Free if none. *)
MapBound ==
  /\ SessionsOf = [sid \in SessionId |-> SessionsOf[sid]]
  /\ \A sid \in SessionId :
       /\ \A a \in Addr : Binds(a, sid) => SessionsOf[sid] = heap[a]
       /\ (\A a \in Addr : ~Binds(a, sid)) => SessionsOf[sid] = Free

LEMMA SessionsBound == TrackerInv => MapBound
<1> SUFFICES ASSUME TrackerInv PROVE MapBound
  OBVIOUS
<1>1. ASSUME NEW sid \in SessionId, NEW a \in Addr, Binds(a, sid)
      PROVE  AddrOf(sid) = a /\ Known(sid)
  <2>1. Binds(AddrOf(sid), sid) /\ AddrOf(sid) \in Addr
    BY <1>1 DEF AddrOf, Binds
  <2> QED BY <1>1, <2>1, BindsOne, BindsKnown
<1>2. ASSUME NEW sid \in SessionId, \A a \in Addr : ~Binds(a, sid)
      PROVE  ~Known(sid)
  BY <1>2, BindsKnown
<1>3. SessionsOf = [sid \in SessionId |-> SessionsOf[sid]]
  BY DEF SessionsOf
<1> QED BY <1>1, <1>2, <1>3 DEF SessionsOf, MapBound

LEMMA SessionsBoundNext == TrackerInv' => MapBound'
BY SessionsBound, PTL

(* A step that changes the entry of one session only changes the map there. *)
LEMMA OneSessionMoves ==
  ASSUME TrackerInv, TrackerInv', NEW a \in Addr, NEW sid \in SessionId,
         \A b \in Addr : b # a => heap'[b] = heap[b],
         heap[a] # Free => heap[a].session_id = sid,
         heap'[a] # Free => heap'[a].session_id = sid,
         \A b \in Addr : Binds(b, sid) => b = a
  PROVE  SessionsOf' = [SessionsOf EXCEPT ![sid] = heap'[a]]
<1>1. MapBound /\ MapBound'
  BY SessionsBound, SessionsBoundNext
<1>2. \A s \in SessionId, b \in Addr :
        s # sid => (Binds(b, s)' <=> Binds(b, s)) /\ (Binds(b, s) => heap'[b] = heap[b])
  BY DEF Binds
<1>3. ASSUME NEW s \in SessionId, s # sid
      PROVE  SessionsOf'[s] = SessionsOf[s]
  <2>1. CASE \E b \in Addr : Binds(b, s)
    BY <1>1, <1>2, <1>3, <2>1 DEF MapBound
  <2>2. CASE \A b \in Addr : ~Binds(b, s)
    BY <1>1, <1>2, <1>3, <2>2 DEF MapBound
  <2> QED BY <2>1, <2>2
<1>4. SessionsOf'[sid] = heap'[a]
  <2>1. CASE heap'[a] # Free
    BY <1>1, <2>1 DEF MapBound, Binds
  <2>2. CASE heap'[a] = Free
    BY <1>1, <2>2 DEF MapBound, Binds
  <2> QED BY <2>1, <2>2
<1>5. SessionsOf' = [s \in SessionId |-> SessionsOf'[s]]
  BY <1>1 DEF MapBound
<1>6. SessionsOf = [s \in SessionId |-> SessionsOf[s]]
  BY <1>1 DEF MapBound
<1> QED BY <1>3, <1>4, <1>5, <1>6

(* Each call is a step of the map. *)
LEMMA MapInit == Init => Map!Init
BY DEF Init, Map!Init, SessionsOf, Known

LEMMA MapUpsertKnown ==
  ASSUME TrackerInv, TrackerInv', NEW sid \in SessionId, NEW peer \in PeerId,
         NEW payload \in Payload, UpsertKnown(sid, payload)
  PROVE  Map!Next \/ UNCHANGED SessionsOf
<1>1. PICK k \in DOMAIN list :
        /\ FoundAt(k, sid)
        /\ heap' = [heap EXCEPT ![list[k]] = Updated(@, payload)] \/ heap' = heap
        /\ list' = list
  BY DEF UpsertKnown
<1>2. CASE heap' = heap
  BY <1>1, <1>2 DEF SessionsOf, Known, AddrOf
<1>3. CASE heap' = [heap EXCEPT ![list[k]] = Updated(@, payload)]
  <2> DEFINE a == list[k]
  <2>1. a \in Addr /\ Binds(a, sid) /\ heap[a] \in Entry
    BY <1>1 DEF TrackerInv, TypeOK, ChainOwnsHeap, FoundAt, Binds
  <2>2. heap'[a] = Updated(heap[a], payload) /\ \A b \in Addr : b # a => heap'[b] = heap[b]
    BY <1>3, <2>1 DEF TrackerInv, TypeOK
  <2>3. heap'[a].session_id = sid
    BY <2>1, <2>2, EntryTypes DEF Binds
  <2>4. \A b \in Addr : Binds(b, sid) => b = a
    BY <2>1, BindsOne
  <2> HIDE DEF a
  <2>5. SessionsOf' = [SessionsOf EXCEPT ![sid] = Updated(heap[a], payload)]
    BY <2>1, <2>2, <2>3, <2>4, OneSessionMoves DEF Binds
  <2>6. SessionsOf[sid] = heap[a] /\ heap[a] # Free
    BY <2>1, SessionsBound DEF MapBound, Binds
  <2>7. Map!Update(sid, peer, payload)
    BY <2>5, <2>6 DEF Map!Update, Map!Before, Updated
  <2> QED BY <2>7 DEF Map!Next, Payload
<1> QED BY <1>1, <1>2, <1>3

LEMMA MapUpsertNew ==
  ASSUME TrackerInv, TrackerInv', NEW sid \in SessionId, NEW peer \in PeerId,
         NEW payload \in Payload, UpsertNew(sid, peer, payload)
  PROVE  Map!Next \/ UNCHANGED SessionsOf
<1>1. CASE UNCHANGED <<heap, list, count>>
  BY <1>1 DEF SessionsOf, Known, AddrOf
<1>2. ASSUME NEW a \in Addr, NEW e \in Entry, heap[a] = Free, e.session_id = sid,
             heap' = [heap EXCEPT ![a] = e]
      PROVE  SessionsOf[sid] = Free /\ SessionsOf' = [SessionsOf EXCEPT ![sid] = e]
  <2>1. \A b \in Addr : ~Binds(b, sid)
    BY BindsKnown DEF UpsertNew
  <2>2. heap'[a] = e /\ \A b \in Addr : b # a => heap'[b] = heap[b]
    BY <1>2 DEF TrackerInv, TypeOK
  <2>3. SessionsOf' = [SessionsOf EXCEPT ![sid] = heap'[a]]
    BY <1>2, <2>1, <2>2, OneSessionMoves
  <2> QED BY <2>1, <2>2, <2>3, SessionsBound DEF MapBound
<1>3. /\ NewEntry(sid, peer) \in Entry /\ NewEntry(sid, peer).session_id = sid
      /\ Updated(NewEntry(sid, peer), payload) \in Entry
      /\ Updated(NewEntry(sid, peer), payload).session_id = sid
  BY EntryTypes
<1>4. ASSUME NEW a \in Addr, heap[a] = Free,
             heap' = [heap EXCEPT ![a] = Updated(NewEntry(sid, peer), payload)]
      PROVE  Map!Update(sid, peer, payload)
  <2>1. /\ SessionsOf[sid] = Free
        /\ SessionsOf' = [SessionsOf EXCEPT ![sid] = Updated(NewEntry(sid, peer), payload)]
    BY <1>2, <1>3, <1>4
  <2>2. Map!Before(sid, peer) = NewEntry(sid, peer)
    BY <2>1 DEF Map!Before, Map!Fresh, NewEntry
  <2> QED BY <2>1, <2>2 DEF Map!Update, Updated
<1>5. ASSUME NEW a \in Addr, heap[a] = Free,
             heap' = [heap EXCEPT ![a] = NewEntry(sid, peer)]
      PROVE  Map!Refuse(sid, peer)
  <2>1. /\ SessionsOf[sid] = Free
        /\ SessionsOf' = [SessionsOf EXCEPT ![sid] = NewEntry(sid, peer)]
    BY <1>2, <1>3, <1>5
  <2>2. Map!Before(sid, peer) = NewEntry(sid, peer)
    BY <2>1 DEF Map!Before, Map!Fresh, NewEntry
  <2> QED BY <2>1, <2>2 DEF Map!Refuse
<1> QED BY <1>1, <1>4, <1>5 DEF UpsertNew, Map!Next, Payload

LEMMA MapTerminate ==
  ASSUME TrackerInv, TrackerInv', NEW sid \in SessionId, TerminateKnown(sid)
  PROVE  Map!Next
<1>1. PICK k \in DOMAIN list : FoundAt(k, sid) /\ heap' = [heap EXCEPT ![list[k]] = Free]
  BY DEF TerminateKnown
<1> DEFINE a == list[k]
<1>2. a \in Addr /\ Binds(a, sid)
  BY <1>1 DEF TrackerInv, TypeOK, ChainOwnsHeap, FoundAt, Binds
<1>3. heap'[a] = Free /\ \A b \in Addr : b # a => heap'[b] = heap[b]
  BY <1>1, <1>2 DEF TrackerInv, TypeOK
<1>4. \A b \in Addr : Binds(b, sid) => b = a
  BY <1>2, BindsOne
<1> HIDE DEF a
<1>5. SessionsOf' = [SessionsOf EXCEPT ![sid] = Free]
  BY <1>2, <1>3, <1>4, OneSessionMoves DEF Binds
<1>6. SessionsOf[sid] # Free
  BY <1>2, SessionsBound DEF MapBound, Binds
<1>7. Map!Remove(sid)
  BY <1>5, <1>6 DEF Map!Remove
<1> QED BY <1>7 DEF Map!Next

LEMMA MapFreeTracker ==
  ASSUME TrackerInv, TrackerInv', FreeTracker
  PROVE  Map!Next
<1>1. \A sid \in SessionId : ~Known(sid)'
  BY DEF FreeTracker, Known
<1>2. Map!Clear
  BY <1>1 DEF Map!Clear, SessionsOf
<1> QED BY <1>2 DEF Map!Next

LEMMA MapStep ==
  TrackerInv /\ TrackerInv' /\ [Next]_trackerVars => [Map!Next]_SessionsOf
<1> SUFFICES ASSUME TrackerInv, TrackerInv', [Next]_trackerVars
             PROVE  Map!Next \/ UNCHANGED SessionsOf
  OBVIOUS
<1>1. ASSUME NEW sid \in SessionId, TerminateUnknown(sid)
      PROVE  UNCHANGED SessionsOf
  BY <1>1 DEF TerminateUnknown, SessionsOf, Known, AddrOf
<1>2. CASE UNCHANGED trackerVars
  BY <1>2 DEF trackerVars, SessionsOf, Known, AddrOf
<1> QED BY <1>1, <1>2, MapUpsertKnown, MapUpsertNew, MapTerminate, MapFreeTracker
        DEF Next, Upsert, Terminate

(* The tracker implements the abstract session map, for any number of      *)
(* sessions and addresses, with allocations that may fail.                 *)
THEOREM TrackerImplementsMap == Spec => ImplementsMap
<1>1. Spec => []TrackerInv
  BY InitInv, NextInv, PTL DEF Spec
<1> QED BY <1>1, MapInit, MapStep, PTL DEF Spec, ImplementsMap, Map!Spec

-----------------------------------------------------------------------------
(***************************************************************************)
(* The event log.                                                          *)
(*                                                                         *)
(* The inductive invariant adds to the tracker's own that every snapshot   *)
(* refers to addresses that are good until their session ends.  A tracker  *)
(* call preserves it for a reason that is the tracker's alone: it frees    *)
(* the entries of the sessions it ends (StaysAllocated) and only appends   *)
(* to the others (StepGrows).                                              *)
(***************************************************************************)

LogInv ==
  /\ TrackerInv
  /\ LogTypeOK
  /\ Len(taken) = Len(log)
  /\ SnapshotsWhole
  /\ SnapshotsHold

LEMMA StartsTransitive ==
  ASSUME NEW S, NEW r \in Seq(S), NEW s \in Seq(S), NEW t \in Seq(S),
         Starts(r, s), Starts(s, t)
  PROVE  Starts(r, t)
BY DEF Starts

(* A tracker call that ends some sessions frees the entries of no other.   *)
LEMMA StaysAllocated ==
  ASSUME TrackerInv, NEW ended,
         \/ \E sid \in SessionId, peer \in PeerId, payload \in Payload :
              Upsert(sid, peer, payload)
         \/ \E sid \in SessionId : Terminate(sid) /\ ended = {sid}
         \/ FreeTracker /\ ended = SessionId,
         NEW a \in Addr, heap[a] # Free, heap[a].session_id \notin ended
  PROVE  heap'[a] # Free
<1> USE DEF TrackerInv, TypeOK
<1>1. heap[a] \in Entry
  OBVIOUS
<1>2. ASSUME NEW sid \in SessionId, NEW payload \in Payload, UpsertKnown(sid, payload)
      PROVE  heap'[a] # Free
  <2>1. PICK k \in DOMAIN list :
          heap' = [heap EXCEPT ![list[k]] = Updated(@, payload)] \/ heap' = heap
    BY <1>2 DEF UpsertKnown
  <2>2. Updated(heap[a], payload) \in Entry
    BY <1>1, EntryTypes
  <2> QED BY <2>1, <2>2, TrackerAssumption
<1>3. ASSUME NEW sid \in SessionId, NEW peer \in PeerId, NEW payload \in Payload,
             UpsertNew(sid, peer, payload)
      PROVE  heap'[a] # Free
  BY <1>3 DEF UpsertNew
<1>4. ASSUME NEW sid \in SessionId, TerminateKnown(sid), ended = {sid}
      PROVE  heap'[a] # Free
  BY <1>4 DEF TerminateKnown, FoundAt
<1>5. ASSUME NEW sid \in SessionId, TerminateUnknown(sid)
      PROVE  heap'[a] # Free
  BY <1>5 DEF TerminateUnknown
<1>6. ASSUME FreeTracker, ended = SessionId
      PROVE  FALSE
  BY <1>1, <1>6 DEF Entry
<1> QED BY <1>2, <1>3, <1>4, <1>5, <1>6 DEF Upsert, Terminate

LEMMA LogInitInv == LogInit => LogInv
<1> SUFFICES ASSUME LogInit PROVE LogInv
  OBVIOUS
<1>1. TrackerInv
  BY InitInv DEF LogInit
<1>2. log = <<>> /\ logCap = 0 /\ taken = <<>> /\ stale = {} /\ Len(log) = 0
      /\ DOMAIN log = {} /\ Len(taken) = 0
  BY DEF LogInit
<1>3. log \in Seq(Snap) /\ taken \in Seq(Seq(Entry))
  BY <1>2
<1> QED BY <1>1, <1>2, <1>3
        DEF LogInv, LogTypeOK, TrackerInv, SnapshotsWhole, SnapshotsHold, Refs

(* What the invariant says of one reference. *)
LEMMA RefTypes ==
  ASSUME LogInv, NEW ref \in Refs
  PROVE  /\ ref[1] \in DOMAIN log /\ ref[2] \in DOMAIN log[ref[1]].entries
         /\ ref[1] \in Nat /\ ref[2] \in Nat
         /\ At(ref) \in Addr
         /\ ref[1] \in DOMAIN taken /\ ref[2] \in DOMAIN taken[ref[1]]
         /\ taken[ref[1]][ref[2]] \in Entry
<1> USE DEF LogInv, LogTypeOK
<1>1. PICK i \in DOMAIN log : ref \in {i} \X DOMAIN log[i].entries
  BY DEF Refs
<1>2. ref[1] = i /\ ref[2] \in DOMAIN log[i].entries
  BY <1>1
<1>3. i \in Nat /\ log[i].entries \in Seq(Addr)
  <2>1. i \in Nat /\ log[i] \in Snap
    BY <1>1
  <2> QED BY <2>1 DEF Snap
<1>4. i \in DOMAIN taken /\ taken[i] \in Seq(Entry)
  BY <1>1
<1>5. DOMAIN taken[i] = DOMAIN log[i].entries
  BY <1>1, <1>3, <1>4 DEF SnapshotsWhole
<1> QED BY <1>1, <1>2, <1>3, <1>4, <1>5 DEF At

LEMMA TrackerMovesInv ==
  ASSUME LogInv, NEW ended,
         \/ \E sid \in SessionId, peer \in PeerId, payload \in Payload :
              Upsert(sid, peer, payload)
         \/ \E sid \in SessionId : Terminate(sid) /\ ended = {sid}
         \/ FreeTracker /\ ended = SessionId,
         TrackerMoves(ended)
  PROVE  LogInv'
<1>1. Next /\ TrackerInv /\ TrackerInv'
  BY NextInv DEF Next, LogInv
<1>2. log' = log /\ logCap' = logCap /\ taken' = taken /\ Refs' = Refs
      /\ \A ref : At(ref)' = At(ref)
  BY DEF TrackerMoves, Refs, At
<1>3. Refs \subseteq Nat \X Nat
  <2>1. SUFFICES ASSUME NEW ref \in Refs PROVE ref \in Nat \X Nat
    OBVIOUS
  <2>2. PICK i \in DOMAIN log : ref \in {i} \X DOMAIN log[i].entries
    BY DEF Refs
  <2> QED BY <2>2, RefTypes
<1>4. LogTypeOK'
  BY <1>1, <1>2, <1>3 DEF LogInv, LogTypeOK, TrackerMoves, TrackerInv
<1>5. SnapshotsWhole' /\ Len(taken') = Len(log')
  BY <1>2 DEF LogInv, SnapshotsWhole
<1>6. SnapshotsHold'
  <2>1. SUFFICES ASSUME NEW ref \in Refs, ref \notin stale'
        PROVE  LET now == heap'[At(ref)]
                   was == taken[ref[1]][ref[2]]
               IN /\ now # Free
                  /\ now.session_id = was.session_id
                  /\ now.peer_id = was.peer_id
                  /\ now.updates >= was.updates
                  /\ Starts(was.state, now.state)
    BY <1>2 DEF SnapshotsHold
  <2> DEFINE a == At(ref)
             was == taken[ref[1]][ref[2]]
  <2>2. a \in Addr /\ was \in Entry
    BY RefTypes
  <2>3. ref \notin stale /\ was.session_id \notin ended
    BY <2>1 DEF TrackerMoves
  <2>4. /\ heap[a] # Free
        /\ heap[a].session_id = was.session_id
        /\ heap[a].peer_id = was.peer_id
        /\ heap[a].updates >= was.updates
        /\ Starts(was.state, heap[a].state)
    BY <2>1, <2>3 DEF LogInv, SnapshotsHold
  <2> HIDE DEF a, was
  <2>5. heap'[a] # Free
    BY <1>1, <2>2, <2>3, <2>4, StaysAllocated
  <2>6. heap[a] \in Entry /\ heap'[a] \in Entry
    BY <1>1, <2>2, <2>4, <2>5 DEF TrackerInv, TypeOK
  <2>7. CASE heap'[a] = heap[a]
    BY <2>4, <2>5, <2>7 DEF a, was
  <2>8. CASE heap'[a] # heap[a]
    <3>1. /\ heap'[a].session_id = heap[a].session_id
          /\ heap'[a].peer_id = heap[a].peer_id
          /\ heap'[a].updates = heap[a].updates + 1
          /\ Starts(heap[a].state, heap'[a].state)
      BY <1>1, <2>2, <2>4, <2>5, <2>8, StepGrows DEF trackerVars, Captured
    <3>2. Starts(was.state, heap'[a].state)
      BY <2>2, <2>4, <2>6, <3>1, StartsTransitive DEF Entry
    <3>3. heap'[a].updates >= was.updates
      BY <2>2, <2>4, <2>6, <3>1 DEF Entry
    <3> QED BY <2>4, <2>5, <3>1, <3>2, <3>3 DEF a, was
  <2> QED BY <2>7, <2>8
<1> QED BY <1>1, <1>4, <1>5, <1>6 DEF LogInv

LEMMA SnapshotInv ==
  ASSUME LogInv, Snapshot
  PROVE  LogInv'
<1> USE DEF LogInv
<1>1. CASE SnapshotRefused
  <2>1. /\ UNCHANGED <<heap, list, count, log, logCap, taken, stale>>
        /\ status' \in Status
    BY <1>1 DEF SnapshotRefused, logVars, Status
  <2>2. TrackerInv'
    BY <2>1 DEF TrackerInv, TypeOK, ChainOwnsHeap, OneEntryPerSession
  <2>3. LogTypeOK'
    BY <2>1, <2>2 DEF LogTypeOK, TrackerInv
  <2>4. SnapshotsWhole'
    BY <2>1 DEF SnapshotsWhole
  <2>5. SnapshotsHold'
    BY <2>1 DEF SnapshotsHold, Refs, At
  <2> QED BY <2>1, <2>2, <2>3, <2>4, <2>5
<1>2. CASE SnapshotTaken
  <2> DEFINE seen == [k \in 1 .. Len(list) |-> heap[list[k]]]
  <2>1. PICK es \in Seq(Addr), ts \in Seq(Entry) :
          /\ log' = Append(log, [count |-> count, entries |-> es])
          /\ taken' = Append(taken, ts)
          /\ \/ es = list /\ ts = seen
             \/ AllocMayFail /\ es = <<>> /\ ts = <<>>
    <3>1. list \in Seq(Addr) /\ seen \in Seq(Entry)
      <4>1. \A k \in 1 .. Len(list) : heap[list[k]] \in Entry
        BY DEF TrackerInv, TypeOK, ChainOwnsHeap
      <4>2. list \in Seq(Addr) /\ Len(list) \in Nat
        BY DEF TrackerInv, TypeOK
      <4> QED BY <4>1, <4>2
    <3>2. <<>> \in Seq(Addr) /\ <<>> \in Seq(Entry)
      OBVIOUS
    <3> HIDE DEF seen
    <3>3. CASE log' = Append(log, [count |-> count, entries |-> list])
               /\ taken' = Append(taken, seen)
      BY <3>1, <3>3
    <3>4. CASE /\ AllocMayFail
               /\ log' = Append(log, [count |-> count, entries |-> <<>>])
               /\ taken' = Append(taken, <<>>)
      BY <3>2, <3>4
    <3> QED BY <1>2, <3>3, <3>4 DEF SnapshotTaken, seen
  <2>2. UNCHANGED <<heap, list, count, stale>> /\ status' \in Status
        /\ logCap' = IF Len(log) = logCap THEN Grown ELSE logCap
    BY <1>2 DEF SnapshotTaken, Status
  <2>3. TrackerInv'
    BY <2>2 DEF TrackerInv, TypeOK, ChainOwnsHeap, OneEntryPerSession
  <2>4. [count |-> count, entries |-> es] \in Snap
    BY <2>1 DEF TrackerInv, TypeOK, Snap
  <2>5. logCap' \in Nat /\ Len(log) + 1 <= logCap'
    BY <2>2, LogAssumption DEF LogTypeOK, Grown
  <2>6. /\ log' \in Seq(Snap) /\ Len(log') = Len(log) + 1
        /\ taken' \in Seq(Seq(Entry)) /\ Len(taken') = Len(log) + 1
        /\ \A i \in DOMAIN log : log'[i] = log[i] /\ taken'[i] = taken[i]
        /\ log'[Len(log) + 1] = [count |-> count, entries |-> es]
        /\ taken'[Len(log) + 1] = ts
        /\ DOMAIN log' = DOMAIN log \cup {Len(log) + 1}
        /\ DOMAIN log = 1 .. Len(log) /\ Len(log) \in Nat
    <3>1. /\ log \in Seq(Snap) /\ taken \in Seq(Seq(Entry)) /\ Len(taken) = Len(log)
          /\ DOMAIN log = 1 .. Len(log) /\ DOMAIN taken = 1 .. Len(log) /\ Len(log) \in Nat
      BY DEF LogTypeOK
    <3>2. /\ log' \in Seq(Snap) /\ Len(log') = Len(log) + 1
          /\ \A i \in DOMAIN log : log'[i] = log[i]
          /\ log'[Len(log) + 1] = [count |-> count, entries |-> es]
          /\ DOMAIN log' = DOMAIN log \cup {Len(log) + 1}
      <4> DEFINE snap == [count |-> count, entries |-> es]
      <4>1. log' = Append(log, snap) /\ snap \in Snap
        BY <2>1, <2>4
      <4> HIDE DEF snap
      <4>2. /\ log' \in Seq(Snap) /\ Len(log') = Len(log) + 1 /\ log'[Len(log) + 1] = snap
            /\ \A i \in DOMAIN log : log'[i] = log[i]
        BY <3>1, <4>1
      <4>3. DOMAIN log' = DOMAIN log \cup {Len(log) + 1}
        BY <3>1, <4>2
      <4> QED BY <4>2, <4>3 DEF snap
    <3>3. /\ taken' \in Seq(Seq(Entry)) /\ Len(taken') = Len(log) + 1
          /\ \A i \in DOMAIN log : taken'[i] = taken[i]
          /\ taken'[Len(log) + 1] = ts
      <4>1. taken' = Append(taken, ts) /\ ts \in Seq(Entry) /\ taken \in Seq(Seq(Entry))
        BY <2>1, <3>1
      <4>2. /\ taken' \in Seq(Seq(Entry)) /\ Len(taken') = Len(taken) + 1
            /\ \A i \in 1 .. Len(taken) : taken'[i] = taken[i]
            /\ taken'[Len(taken) + 1] = ts
        BY <4>1, AppendProperties
      <4> QED BY <3>1, <4>2
    <3> QED BY <3>1, <3>2, <3>3
  <2>7. LogTypeOK'
    BY <2>2, <2>3, <2>5, <2>6 DEF LogTypeOK, TrackerInv
  <2>8. Len(ts) = Len(es) /\ DOMAIN ts = DOMAIN es
    BY <2>1
  <2>9. SnapshotsWhole'
    <3>1. SUFFICES ASSUME NEW i \in DOMAIN log'
                   PROVE  /\ Len(taken'[i]) = Len(log'[i].entries)
                          /\ \A j, k \in DOMAIN taken'[i] :
                               taken'[i][j].session_id = taken'[i][k].session_id => j = k
                          /\ \/ Len(log'[i].entries) = log'[i].count
                             \/ AllocMayFail /\ log'[i].entries = <<>>
      BY DEF SnapshotsWhole
    <3>2. CASE i \in DOMAIN log
      BY <2>6, <3>2 DEF SnapshotsWhole
    <3>3. CASE i = Len(log) + 1
      <4>1. log'[i].entries = es /\ log'[i].count = count /\ taken'[i] = ts
        BY <2>6, <3>3
      <4>2. \A j, k \in DOMAIN ts : ts[j].session_id = ts[k].session_id => j = k
        <5>1. CASE es = list /\ ts = seen
          <6>1. DOMAIN ts = DOMAIN list /\ \A j \in DOMAIN ts : ts[j] = heap[list[j]]
            BY <5>1 DEF TrackerInv, TypeOK
          <6> HIDE DEF seen
          <6> QED BY <6>1 DEF TrackerInv, OneEntryPerSession
        <5>2. CASE ts = <<>>
          BY <5>2
        <5> QED BY <2>1, <5>1, <5>2
      <4>3. Len(es) = count \/ (AllocMayFail /\ es = <<>>)
        BY <2>1 DEF TrackerInv, ChainOwnsHeap
      <4> QED BY <2>8, <4>1, <4>2, <4>3
    <3> QED BY <2>6, <3>2, <3>3
  <2>10. SnapshotsHold'
    <3>1. SUFFICES ASSUME NEW ref \in Refs', ref \notin stale
          PROVE  LET now == heap[At(ref)']
                     was == taken'[ref[1]][ref[2]]
                 IN /\ now # Free
                    /\ now.session_id = was.session_id
                    /\ now.peer_id = was.peer_id
                    /\ now.updates >= was.updates
                    /\ Starts(was.state, now.state)
      BY <2>2 DEF SnapshotsHold
    <3>2. PICK i \in DOMAIN log' : ref \in {i} \X DOMAIN log'[i].entries
      BY DEF Refs
    <3>3. ref[1] = i /\ ref[2] \in DOMAIN log'[i].entries
      BY <3>2
    <3>4. CASE i \in DOMAIN log
      <4>1. ref \in Refs
        BY <2>6, <3>2, <3>4 DEF Refs
      <4>2. At(ref)' = At(ref) /\ taken'[ref[1]] = taken[ref[1]]
        BY <2>6, <3>3, <3>4 DEF At
      <4> QED BY <3>1, <4>1, <4>2 DEF SnapshotsHold
    <3>5. CASE i = Len(log) + 1
      <4>1. ref[2] \in DOMAIN es /\ At(ref)' = es[ref[2]] /\ taken'[ref[1]] = ts
        BY <2>6, <3>3, <3>5 DEF At
      <4>2. es = list /\ ts = seen
        BY <2>1, <4>1
      <4>3. taken'[ref[1]][ref[2]] = heap[list[ref[2]]] /\ At(ref)' = list[ref[2]]
        BY <4>1, <4>2 DEF TrackerInv, TypeOK
      <4>4. heap[list[ref[2]]] \in Entry
        BY <4>1, <4>2 DEF TrackerInv, TypeOK, ChainOwnsHeap
      <4>5. Starts(heap[list[ref[2]]].state, heap[list[ref[2]]].state)
        BY <4>4 DEF Starts, Entry
      <4> QED BY <4>3, <4>4, <4>5, TrackerAssumption DEF Entry
    <3> QED BY <2>6, <3>4, <3>5
  <2> QED BY <2>3, <2>6, <2>7, <2>9, <2>10
<1> QED BY <1>1, <1>2 DEF Snapshot

LEMMA FreeLogInv ==
  ASSUME LogInv, FreeLog, UNCHANGED trackerVars
  PROVE  LogInv'
<1>1. TrackerInv'
  BY DEF LogInv, trackerVars, TrackerInv, TypeOK, ChainOwnsHeap, OneEntryPerSession
<1>2. log' = <<>> /\ logCap' = 0 /\ taken' = <<>> /\ stale' = {} /\ Len(log') = 0
      /\ DOMAIN log' = {} /\ Len(taken') = 0
  BY DEF FreeLog
<1>3. log' \in Seq(Snap) /\ taken' \in Seq(Seq(Entry))
  BY <1>2
<1> QED BY <1>1, <1>2, <1>3
        DEF LogInv, LogTypeOK, TrackerInv, SnapshotsWhole, SnapshotsHold, Refs

LEMMA LogNextInv == LogInv /\ [LogNext]_vars => LogInv'
<1> SUFFICES ASSUME LogInv, [LogNext]_vars PROVE LogInv'
  OBVIOUS
<1>1. CASE UNCHANGED vars
  <2>1. TrackerInv'
    BY <1>1 DEF vars, LogInv, TrackerInv, TypeOK, ChainOwnsHeap, OneEntryPerSession
  <2>2. LogTypeOK'
    BY <1>1, <2>1 DEF vars, LogInv, LogTypeOK, TrackerInv
  <2>3. SnapshotsWhole'
    BY <1>1 DEF vars, LogInv, SnapshotsWhole
  <2>4. SnapshotsHold'
    BY <1>1 DEF vars, LogInv, SnapshotsHold, Refs, At
  <2> QED BY <1>1, <2>1, <2>2, <2>3, <2>4 DEF vars, LogInv
<1>2. ASSUME NEW sid \in SessionId, NEW peer \in PeerId, NEW payload \in Payload,
             Upsert(sid, peer, payload), TrackerMoves({})
      PROVE  LogInv'
  BY <1>2, TrackerMovesInv
<1>3. ASSUME NEW sid \in SessionId, Terminate(sid), TrackerMoves({sid})
      PROVE  LogInv'
  BY <1>3, TrackerMovesInv
<1>4. ASSUME FreeTracker, TrackerMoves(SessionId)
      PROVE  LogInv'
  BY <1>4, TrackerMovesInv
<1> QED BY <1>1, <1>2, <1>3, <1>4, SnapshotInv, FreeLogInv DEF LogNext

(* The types of the log, its capacity included. *)
THEOREM LogTypeCorrect == LogSpec => []LogTypeOK
<1>1. LogSpec => []LogInv
  BY LogInitInv, LogNextInv, PTL DEF LogSpec
<1> QED BY <1>1, PTL DEF LogInv

(* An address in a snapshot is good exactly until its session is           *)
(* terminated: this is what makes summarizing by reference possible.       *)
THEOREM SnapshotsHoldAlways == LogSpec => []SnapshotsHold
<1>1. LogSpec => []LogInv
  BY LogInitInv, LogNextInv, PTL DEF LogSpec
<1> QED BY <1>1, PTL DEF LogInv

(* Every snapshot lists each session it saw once, or is a counted one      *)
(* whose array could not be allocated.                                     *)
THEOREM SnapshotsWholeAlways == LogSpec => []SnapshotsWhole
<1>1. LogSpec => []LogInv
  BY LogInitInv, LogNextInv, PTL DEF LogSpec
<1> QED BY <1>1, PTL DEF LogInv

-----------------------------------------------------------------------------
(***************************************************************************)
(* The replay engine.                                                      *)
(*                                                                         *)
(* The replay drives its tracker and its log through their own operations, *)
(* so their inductive invariant is the replay's as well; what it adds is   *)
(* the end, where the two are freed in one go.  A second invariant relates *)
(* them to the records of the journal, and so says why a read goes wrong.  *)
(***************************************************************************)

ReplayInv ==
  /\ LogInv
  /\ journal \in Seq(Record)
  /\ event_count \in Nat
  /\ hashed \in Hash
  /\ phase \in {"replaying", "done", "crashed"}
  /\ unfailing \in BOOLEAN
  /\ NothingLeft

LEMMA ReplayInitInv == ReplayInit => ReplayInv
<1> SUFFICES ASSUME ReplayInit PROVE ReplayInv
  OBVIOUS
<1>1. LogInv
  BY LogInitInv DEF ReplayInit
<1>2. journal \in Seq(Record) /\ event_count \in Nat /\ hashed \in Hash
  BY DEF ReplayInit, Hash
<1> QED BY <1>1, <1>2 DEF ReplayInit, ReplayInv, NothingLeft

(* What is hashed is well formed when every array is there and no address  *)
(* in one is free.                                                         *)
LEMMA SummarizedIsSeq ==
  ASSUME LogInv, ~HasMissingArray, ~ReadsFree
  PROVE  Summarized \in Seq(Seq(SessionId \X Nat))
<1> DEFINE pair(i, j) == LET e == heap[log[i].entries[j]] IN <<e.session_id, e.updates>>
           row(i) == [j \in 1 .. log[i].count |-> pair(i, j)]
<1>1. ASSUME NEW i \in 1 .. Len(log) PROVE row(i) \in Seq(SessionId \X Nat)
  <2>1. i \in DOMAIN log /\ log[i] \in Snap
    BY <1>1 DEF LogInv, LogTypeOK
  <2>2. log[i].count \in Nat /\ log[i].entries \in Seq(Addr)
    BY <2>1 DEF Snap
  <2>3. log[i].count <= Len(log[i].entries)
    BY <2>1, <2>2 DEF HasMissingArray
  <2>4. ASSUME NEW j \in 1 .. log[i].count PROVE pair(i, j) \in SessionId \X Nat
    <3>1. j \in DOMAIN log[i].entries
      BY <2>2, <2>3, <2>4
    <3>2. <<i, j>> \in Refs
      BY <2>1, <3>1 DEF Refs
    <3>3. heap[At(<<i, j>>)] # Free /\ At(<<i, j>>) \in Addr
      BY <3>2, RefTypes DEF ReadsFree
    <3>4. heap[log[i].entries[j]] \in Entry
      BY <3>3 DEF At, LogInv, TrackerInv, TypeOK
    <3> QED BY <3>4 DEF Entry
  <2> HIDE DEF pair
  <2> QED BY <2>2, <2>4
<1> HIDE DEF row
<1>2. Len(log) \in Nat
  BY DEF LogInv, LogTypeOK
<1>3. [i \in 1 .. Len(log) |-> row(i)] \in Seq(Seq(SessionId \X Nat))
  BY <1>1, <1>2
<1>4. Summarized = [i \in 1 .. Len(log) |-> row(i)]
  BY DEF Summarized, row
<1> QED BY <1>3, <1>4

LEMMA ReplayRecordInv ==
  ASSUME ReplayInv, NEW r \in Record, Replay(r)
  PROVE  ReplayInv'
<1>1. r.type \in RecordType /\ r.session_id \in SessionId /\ r.peer_id \in PeerId
      /\ r.payload \in Payload
  BY ReplayAssumption
<1>2. LogInv'
  <2>1. CASE Upsert(r.session_id, r.peer_id, r.payload) /\ TrackerMoves({})
    BY <1>1, <2>1, LogNextInv DEF LogNext, ReplayInv
  <2>2. CASE Snapshot
    BY <2>2, LogNextInv DEF LogNext, ReplayInv
  <2>3. CASE Terminate(r.session_id) /\ TrackerMoves({r.session_id})
    BY <1>1, <2>3, LogNextInv DEF LogNext, ReplayInv
  <2>4. CASE UNCHANGED vars
    BY <2>4, LogNextInv DEF ReplayInv
  <2> QED BY <2>1, <2>2, <2>3, <2>4 DEF Replay
<1>3. journal' \in Seq(Record) /\ event_count' \in Nat
  BY DEF Replay, ReplayInv
<1> QED BY <1>2, <1>3 DEF Replay, ReplayInv, NothingLeft

LEMMA FinishInv ==
  ASSUME ReplayInv, Finish
  PROVE  ReplayInv'
<1>1. FreeTracker /\ FreeLog
  BY DEF Finish
<1>2. TrackerInv'
  BY <1>1, FreeTrackerInv DEF ReplayInv, LogInv
<1>3. log' = <<>> /\ logCap' = 0 /\ taken' = <<>> /\ stale' = {} /\ Len(log') = 0
      /\ DOMAIN log' = {} /\ Len(taken') = 0
  BY <1>1 DEF FreeLog
<1>4. log' \in Seq(Snap) /\ taken' \in Seq(Seq(Entry))
  BY <1>3
<1>5. LogInv'
  BY <1>2, <1>3, <1>4
     DEF LogInv, LogTypeOK, TrackerInv, SnapshotsWhole, SnapshotsHold, Refs
<1>6. hashed' \in Hash
  <2>1. CASE ~ReadsFree /\ hashed' = Summarized
    BY <2>1, SummarizedIsSeq DEF Finish, ReplayInv, Hash
  <2>2. CASE hashed' = Garbage
    BY <2>2 DEF Hash
  <2> QED BY <2>1, <2>2 DEF Finish
<1>7. \A a \in Addr : heap'[a] = Free
  BY <1>1 DEF FreeTracker, ReplayInv, LogInv, TrackerInv, ChainOwnsHeap
<1> QED BY <1>3, <1>5, <1>6, <1>7 DEF Finish, ReplayInv, NothingLeft

LEMMA ReplayNextInv == ReplayInv /\ [ReplayNext]_replayVars => ReplayInv'
<1> SUFFICES ASSUME ReplayInv, [ReplayNext]_replayVars PROVE ReplayInv'
  OBVIOUS
<1>1. ASSUME UNCHANGED <<vars, journal, event_count, hashed, unfailing>>,
             phase' \in {"replaying", "done", "crashed"},
             phase' = "done" => phase = "done"
      PROVE  ReplayInv'
  <2>1. LogInv'
    BY <1>1, LogNextInv DEF ReplayInv
  <2> QED BY <1>1, <2>1 DEF ReplayInv, NothingLeft, vars
<1>2. CASE Crash
  BY <1>1, <1>2 DEF Crash
<1>3. CASE UNCHANGED replayVars
  BY <1>1, <1>3 DEF replayVars, ReplayInv
<1> QED BY <1>2, <1>3, ReplayRecordInv, FinishInv DEF ReplayNext, Stopped

(* The types of a replay's state. *)
THEOREM ReplayTypeCorrect == ReplaySpec => []ReplayTypeOK
<1>1. ReplaySpec => []ReplayInv
  BY ReplayInitInv, ReplayNextInv, PTL DEF ReplaySpec
<1>2. ReplayInv => ReplayTypeOK
  BY DEF ReplayInv, ReplayTypeOK, LogInv
<1> QED BY <1>1, <1>2, PTL

(* A replay that completes has freed every entry and every snapshot,       *)
(* whatever the journal, and whichever allocations failed.                 *)
THEOREM NothingLeftAlways == ReplaySpec => []NothingLeft
<1>1. ReplaySpec => []ReplayInv
  BY ReplayInitInv, ReplayNextInv, PTL DEF ReplaySpec
<1>2. ReplayInv => NothingLeft
  BY DEF ReplayInv
<1> QED BY <1>1, <1>2, PTL
-----------------------------------------------------------------------------

(* Why a read may go wrong.  The sessions the tracker knows, and those a   *)
(* snapshot saw, are alive in the journal: at its end, and at one of its   *)
(* checkpoints.  So an address that goes stale betrays a termination       *)
(* behind a checkpoint.                                                    *)
KnownAreLive ==
  \A a \in Addr : heap[a] # Free => heap[a].session_id \in Live(Len(journal))

SeenWereLive ==
  \A i \in DOMAIN taken : \A j \in DOMAIN taken[i] :
    \E n \in DOMAIN journal :
      journal[n].type = "CHECKPOINT" /\ taken[i][j].session_id \in Live(n)

CauseInv ==
  /\ KnownAreLive
  /\ SeenWereLive
  /\ stale # {} => ~Ordered
  /\ phase = "replaying" => hashed # Garbage
  /\ BadReadsExplained

(* The part of the journal that was replayed stays as it is.               *)
LEMMA RecordsKept ==
  ASSUME journal \in Seq(Record), NEW r \in Record, journal' = Append(journal, r)
  PROVE  /\ Len(journal) \in Nat /\ DOMAIN journal = 1 .. Len(journal)
         /\ journal' \in Seq(Record) /\ Len(journal') = Len(journal) + 1
         /\ DOMAIN journal' = 1 .. Len(journal) + 1
         /\ \A n \in 1 .. Len(journal) : journal'[n] = journal[n]
         /\ journal'[Len(journal) + 1] = r
  OBVIOUS

LEMMA LiveKept ==
  ASSUME journal \in Seq(Record), NEW r \in Record, journal' = Append(journal, r),
         NEW n \in 0 .. Len(journal)
  PROVE  Live(n)' = Live(n)
<1>1. \A sid, m : m \in 1 .. Len(journal) =>
        (Terminates(sid, m)' <=> Terminates(sid, m)) /\ (Upserts(sid, m)' <=> Upserts(sid, m))
  BY RecordsKept DEF Terminates, Upserts
<1>2. ASSUME NEW sid \in SessionId
      PROVE  UpsertsOf(sid, n)' = UpsertsOf(sid, n)
  <2>1. 1 .. n \subseteq 1 .. Len(journal)
    BY RecordsKept
  <2>2. \A m \in 1 .. n : m .. n \subseteq 1 .. n
    OBVIOUS
  <2> QED BY <1>1, <2>1, <2>2 DEF UpsertsOf
<1> QED BY <1>2 DEF Live

(* A session lives until it is terminated.                                 *)
LEMMA LiveOn ==
  ASSUME journal \in Seq(Record), NEW r \in Record, journal' = Append(journal, r),
         NEW sid \in Live(Len(journal)),
         ~(r.type = "TERMINATE" /\ r.session_id = sid)
  PROVE  sid \in Live(Len(journal))'
<1>1. PICK m \in 1 .. Len(journal) :
        Upserts(sid, m) /\ \A t \in m .. Len(journal) : ~Terminates(sid, t)
  BY DEF Live, UpsertsOf
<1>2. Upserts(sid, m)' /\ m \in 1 .. Len(journal')
  BY <1>1, RecordsKept DEF Upserts
<1>3. ASSUME NEW t \in m .. Len(journal')
      PROVE  ~Terminates(sid, t)'
  <2>1. CASE t \in m .. Len(journal)
    BY <1>1, <2>1, RecordsKept DEF Terminates
  <2>2. CASE t = Len(journal) + 1
    BY <2>2, RecordsKept DEF Terminates
  <2> QED BY <1>3, <2>1, <2>2, RecordsKept
<1>4. m \in UpsertsOf(sid, Len(journal))' /\ sid \in SessionId
  BY <1>2, <1>3 DEF UpsertsOf, Live
<1> QED BY <1>4 DEF Live

LEMMA LiveUpserted ==
  ASSUME journal \in Seq(Record), NEW r \in Record, journal' = Append(journal, r),
         r.type \in UpsertType, r.session_id \in SessionId
  PROVE  r.session_id \in Live(Len(journal))'
<1>0. PICK n \in Nat : n = Len(journal') /\ n \in 1 .. n /\ n .. n = {n} /\ journal'[n] = r
  BY RecordsKept
<1>1. Upserts(r.session_id, n)' /\ ~Terminates(r.session_id, n)'
  BY <1>0 DEF Upserts, Terminates, UpsertType
<1>2. n \in UpsertsOf(r.session_id, Len(journal))'
  BY <1>0, <1>1 DEF UpsertsOf
<1> QED BY <1>2 DEF Live

(* A record behind a disorder does not mend it.                            *)
LEMMA DisorderStays ==
  ASSUME journal \in Seq(Record), NEW r \in Record, journal' = Append(journal, r),
         ~Ordered
  PROVE  ~Ordered'
<1>1. PICK n \in DOMAIN journal, t \in DOMAIN journal :
        n < t /\ journal[n].type = "CHECKPOINT" /\ \E sid \in Live(n) : Terminates(sid, t)
  BY DEF Ordered
<1>2. Live(n)' = Live(n)
  BY LiveKept, RecordsKept
<1>3. (\E sid \in Live(n) : Terminates(sid, t)') /\ journal'[n].type = "CHECKPOINT"
      /\ n \in DOMAIN journal' /\ t \in DOMAIN journal'
  BY <1>1, RecordsKept DEF Terminates
<1> QED BY <1>1, <1>2, <1>3 DEF Ordered

(* What a record does to the tracker keeps what it knows alive.            *)
LEMMA KnownUpserted ==
  ASSUME LogInv, KnownAreLive, journal \in Seq(Record), NEW r \in Record,
         journal' = Append(journal, r), r.type \in UpsertType,
         Upsert(r.session_id, r.peer_id, r.payload)
  PROVE  KnownAreLive'
<1>1. r.session_id \in SessionId /\ r.peer_id \in PeerId /\ r.payload \in Payload
  BY ReplayAssumption
<1>2. heap \in [Addr -> Entry \cup {Free}] /\ list \in Seq(Addr)
  BY DEF LogInv, TrackerInv, TypeOK
<1>3. ASSUME NEW a \in Addr, heap'[a] # Free
      PROVE  \/ heap'[a].session_id = r.session_id
             \/ heap[a] # Free /\ heap'[a].session_id = heap[a].session_id
  <2>1. CASE UpsertKnown(r.session_id, r.payload)
    <3>1. PICK k \in DOMAIN list :
            \/ heap' = heap
            \/ heap' = [heap EXCEPT ![list[k]] = Updated(@, r.payload)]
      BY <2>1 DEF UpsertKnown
    <3>2. heap[list[k]] \in Entry /\ list[k] \in Addr
      BY <1>2 DEF LogInv, TrackerInv, ChainOwnsHeap
    <3>3. Updated(heap[list[k]], r.payload).session_id = heap[list[k]].session_id
      BY <1>1, <3>2, EntryTypes
    <3>4. heap[list[k]] # Free
      BY <3>2 DEF LogInv, TrackerInv, ChainOwnsHeap
    <3> QED BY <1>2, <1>3, <3>1, <3>2, <3>3, <3>4
  <2>2. CASE UpsertNew(r.session_id, r.peer_id, r.payload)
    <3>1. NewEntry(r.session_id, r.peer_id) \in Entry
          /\ NewEntry(r.session_id, r.peer_id).session_id = r.session_id
      BY <1>1, EntryTypes
    <3>2. Updated(NewEntry(r.session_id, r.peer_id), r.payload).session_id = r.session_id
      BY <1>1, <3>1, EntryTypes
    <3> QED BY <1>2, <1>3, <2>2, <3>1, <3>2 DEF UpsertNew
  <2> QED BY <2>1, <2>2 DEF Upsert
<1>4. \A a \in Addr : heap'[a] # Free => heap'[a].session_id \in Live(Len(journal))'
  <2>1. TAKE a \in Addr
  <2>2. CASE heap'[a].session_id = r.session_id
    BY <1>1, <2>2, LiveUpserted
  <2>3. CASE heap[a] # Free /\ heap'[a].session_id = heap[a].session_id
    <3>1. heap[a].session_id \in Live(Len(journal))
      BY <2>3 DEF KnownAreLive
    <3>2. r.type # "TERMINATE"
      BY DEF UpsertType
    <3> QED BY <2>3, <3>1, <3>2, LiveOn
  <2> QED BY <1>3, <2>2, <2>3
<1> QED BY <1>4 DEF KnownAreLive

LEMMA KnownTerminated ==
  ASSUME LogInv, KnownAreLive, journal \in Seq(Record), NEW r \in Record,
         journal' = Append(journal, r), Terminate(r.session_id)
  PROVE  KnownAreLive'
<1>1. heap \in [Addr -> Entry \cup {Free}] /\ list \in Seq(Addr)
  BY DEF LogInv, TrackerInv, TypeOK
<1>2. ASSUME NEW a \in Addr, heap'[a] # Free
      PROVE  heap[a] # Free /\ heap'[a] = heap[a] /\ heap[a].session_id # r.session_id
  <2>1. CASE TerminateKnown(r.session_id)
    <3>1. PICK k \in DOMAIN list :
            FoundAt(k, r.session_id) /\ heap' = [heap EXCEPT ![list[k]] = Free]
      BY <2>1 DEF TerminateKnown
    <3>2. a # list[k] /\ heap'[a] = heap[a]
      BY <1>1, <1>2, <3>1
    <3>3. PICK m \in DOMAIN list : list[m] = a
      BY <1>2, <3>2 DEF LogInv, TrackerInv, ChainOwnsHeap
    <3> QED BY <1>2, <3>1, <3>2, <3>3
            DEF FoundAt, LogInv, TrackerInv, OneEntryPerSession
  <2>2. CASE TerminateUnknown(r.session_id)
    BY <1>2, <2>2 DEF TerminateUnknown, Known, LogInv, TrackerInv, ChainOwnsHeap
  <2> QED BY <2>1, <2>2 DEF Terminate
<1>3. \A a \in Addr : heap'[a] # Free => heap'[a].session_id \in Live(Len(journal))'
  BY <1>2, LiveOn DEF KnownAreLive
<1> QED BY <1>3 DEF KnownAreLive

(* Nothing happens to the tracker.                                         *)
LEMMA KnownKept ==
  ASSUME KnownAreLive, journal \in Seq(Record), NEW r \in Record,
         journal' = Append(journal, r), r.type # "TERMINATE", heap' = heap
  PROVE  KnownAreLive'
<1>1. \A a \in Addr : heap'[a] # Free => heap'[a].session_id \in Live(Len(journal))'
  BY LiveOn DEF KnownAreLive
<1> QED BY <1>1 DEF KnownAreLive

(* What a snapshot saw is alive at the record that took it, and at no      *)
(* other record does what was seen change.                                 *)
LEMMA SeenKept ==
  ASSUME SeenWereLive, journal \in Seq(Record), NEW r \in Record,
         journal' = Append(journal, r), NEW i \in DOMAIN taken, NEW j \in DOMAIN taken[i]
  PROVE  \E n \in DOMAIN journal' :
           journal'[n].type = "CHECKPOINT" /\ taken[i][j].session_id \in Live(n)'
<1>1. PICK n \in DOMAIN journal :
        journal[n].type = "CHECKPOINT" /\ taken[i][j].session_id \in Live(n)
  BY DEF SeenWereLive
<1>2. Live(n)' = Live(n) /\ n \in DOMAIN journal' /\ journal'[n] = journal[n]
  BY LiveKept, RecordsKept
<1> QED BY <1>1, <1>2

LEMMA SeenSnapshot ==
  ASSUME LogInv, KnownAreLive, SeenWereLive, journal \in Seq(Record), NEW r \in Record,
         journal' = Append(journal, r), r.type = "CHECKPOINT", Snapshot
  PROVE  SeenWereLive'
<1>1. CASE taken' = taken
  BY <1>1, SeenKept DEF SeenWereLive
<1>2. ASSUME NEW ts, taken' = Append(taken, ts),
             \A j \in DOMAIN ts : \E a \in Addr :
                heap[a] # Free /\ ts[j] = heap[a]
      PROVE  SeenWereLive'
  <2>1. /\ taken \in Seq(Seq(Entry)) /\ Len(taken) \in Nat
        /\ \A i \in DOMAIN taken : taken'[i] = taken[i]
        /\ DOMAIN taken' = DOMAIN taken \cup {Len(taken) + 1}
        /\ taken'[Len(taken) + 1] = ts
    BY <1>2 DEF LogInv, LogTypeOK
  <2>2. ASSUME NEW i \in DOMAIN taken', NEW j \in DOMAIN taken'[i]
        PROVE  \E n \in DOMAIN journal' :
                 journal'[n].type = "CHECKPOINT" /\ taken'[i][j].session_id \in Live(n)'
    <3>1. CASE i \in DOMAIN taken
      BY <2>1, <2>2, <3>1, SeenKept
    <3>2. CASE i = Len(taken) + 1
      <4>1. PICK a \in Addr : heap[a] # Free /\ taken'[i][j] = heap[a]
        BY <1>2, <2>1, <2>2, <3>2
      <4>2. heap[a].session_id \in Live(Len(journal))'
        BY <4>1, LiveOn DEF KnownAreLive
      <4>3. PICK n \in DOMAIN journal' : n = Len(journal') /\ journal'[n] = r
        BY RecordsKept
      <4>4. taken'[i][j].session_id \in Live(n)'
        BY <4>1, <4>2, <4>3 DEF Live, UpsertsOf
      <4> QED BY <4>3, <4>4
    <3> QED BY <2>1, <2>2, <3>1, <3>2
  <2> QED BY <2>2 DEF SeenWereLive
<1>3. CASE SnapshotRefused
  BY <1>1, <1>3 DEF SnapshotRefused, logVars
<1>4. CASE SnapshotTaken
  <2>1. CASE taken' = Append(taken, <<>>)
    BY <1>2, <2>1
  <2>2. CASE taken' = Append(taken, [k \in 1 .. Len(list) |-> heap[list[k]]])
    <3>1. \A k \in 1 .. Len(list) : list[k] \in Addr /\ heap[list[k]] # Free
      BY DEF LogInv, TrackerInv, TypeOK, ChainOwnsHeap
    <3> DEFINE ts == [k \in 1 .. Len(list) |-> heap[list[k]]]
    <3>2. \A j \in DOMAIN ts : \E a \in Addr : heap[a] # Free /\ ts[j] = heap[a]
      BY <3>1
    <3> HIDE DEF ts
    <3>3. taken' = Append(taken, ts)
      BY <2>2 DEF ts
    <3> QED BY <1>2, <3>2, <3>3
  <2> QED BY <1>4, <2>1, <2>2 DEF SnapshotTaken
<1> QED BY <1>3, <1>4 DEF Snapshot

(* What is said of live sessions is about nothing but the journal.         *)
LEMMA SameCauses ==
  ASSUME journal' = journal
  PROVE  /\ Ordered' <=> Ordered
         /\ UNCHANGED heap => (KnownAreLive' <=> KnownAreLive)
         /\ UNCHANGED taken => (SeenWereLive' <=> SeenWereLive)
<1>1. \A n : Live(n)' = Live(n)
  BY DEF Live, UpsertsOf, Upserts, Terminates
<1> QED BY <1>1 DEF Ordered, Terminates, KnownAreLive, SeenWereLive

LEMMA CauseInitInv == ReplayInit => CauseInv
<1> SUFFICES ASSUME ReplayInit
             PROVE  CauseInv
  OBVIOUS
<1>1. /\ \A a \in Addr : heap[a] = Free
      /\ taken = <<>> /\ DOMAIN taken = {} /\ stale = {}
      /\ phase = "replaying" /\ hashed = <<>>
  BY DEF ReplayInit, LogInit, Init
<1>2. hashed # Garbage
  <2>1. <<>> \in Seq(Seq(SessionId \X Nat))
    OBVIOUS
  <2> QED BY <1>1, <2>1, ReplayAssumption
<1> QED BY <1>1, <1>2 DEF CauseInv, KnownAreLive, SeenWereLive, BadReadsExplained

LEMMA CauseRecordInv ==
  ASSUME ReplayInv, CauseInv, NEW r \in Record, Replay(r)
  PROVE  CauseInv'
<1>1. /\ LogInv /\ journal \in Seq(Record) /\ journal' = Append(journal, r)
      /\ phase = "replaying" /\ phase' = "replaying" /\ hashed' = hashed
      /\ r.session_id \in SessionId
  BY ReplayAssumption DEF ReplayInv, Replay
<1>2. KnownAreLive /\ SeenWereLive /\ (stale # {} => ~Ordered)
  BY DEF CauseInv
<1>3. ASSUME ~Ordered PROVE ~Ordered'
  BY <1>1, <1>3, DisorderStays
<1>4. ASSUME taken' = taken PROVE SeenWereLive'
  BY <1>1, <1>2, <1>4, SeenKept DEF SeenWereLive
<1>5. hashed' # Garbage /\ BadReadsExplained'
  BY <1>1 DEF CauseInv, BadReadsExplained
<1>6. KnownAreLive' /\ SeenWereLive' /\ (stale' # {} => ~Ordered')
  <2>1. CASE /\ r.type \in UpsertType
             /\ Upsert(r.session_id, r.peer_id, r.payload)
             /\ TrackerMoves({})
    <3>1. taken' = taken /\ stale' = stale
      BY <2>1 DEF TrackerMoves
    <3> QED BY <1>1, <1>2, <1>3, <1>4, <2>1, <3>1, KnownUpserted
  <2>2. CASE r.type = "CHECKPOINT" /\ Snapshot
    <3>1. heap' = heap /\ stale' = stale
      BY <2>2 DEF Snapshot, SnapshotTaken, SnapshotRefused, logVars
    <3> QED BY <1>1, <1>2, <1>3, <2>2, <3>1, KnownKept, SeenSnapshot
  <2>3. CASE /\ r.type = "TERMINATE"
             /\ Terminate(r.session_id)
             /\ TrackerMoves({r.session_id})
    <3>1. taken' = taken
          /\ stale' = stale \cup {ref \in Refs : taken[ref[1]][ref[2]].session_id = r.session_id}
      BY <2>3 DEF TrackerMoves
    <3>2. ASSUME NEW ref \in Refs, taken[ref[1]][ref[2]].session_id = r.session_id
          PROVE  ~Ordered'
      <4>1. PICK n \in DOMAIN journal :
              journal[n].type = "CHECKPOINT" /\ r.session_id \in Live(n)
        BY <1>1, <1>2, <3>2, RefTypes DEF SeenWereLive
      <4>2. PICK t \in DOMAIN journal' : n < t /\ journal'[t] = r
        BY <1>1, RecordsKept
      <4>3. Live(n)' = Live(n) /\ n \in DOMAIN journal' /\ journal'[n] = journal[n]
        BY <1>1, LiveKept, RecordsKept
      <4>4. Terminates(r.session_id, t)'
        BY <2>3, <4>2 DEF Terminates
      <4> QED BY <4>1, <4>2, <4>3, <4>4 DEF Ordered
    <3> QED BY <1>1, <1>2, <1>3, <1>4, <2>3, <3>1, <3>2, KnownTerminated
  <2>4. CASE r.type \notin UpsertType \cup {"CHECKPOINT", "TERMINATE"} /\ UNCHANGED vars
    <3>1. heap' = heap /\ taken' = taken /\ stale' = stale
      BY <2>4 DEF vars
    <3> QED BY <1>1, <1>2, <1>3, <1>4, <2>4, <3>1, KnownKept
  <2> QED BY <2>1, <2>2, <2>3, <2>4 DEF Replay
<1> QED BY <1>5, <1>6 DEF CauseInv

LEMMA CauseFinishInv ==
  ASSUME ReplayInv, CauseInv, Finish
  PROVE  CauseInv'
<1>1. /\ \A a \in Addr : heap'[a] = Free
      /\ taken' = <<>> /\ DOMAIN taken' = {} /\ stale' = {}
      /\ phase' = "done" /\ journal' = journal
  BY DEF Finish, FreeTracker, FreeLog, ReplayInv, LogInv, TrackerInv, ChainOwnsHeap
<1>2. hashed' = Garbage => ~Ordered
  <2>1. CASE ~ReadsFree /\ hashed' = Summarized
    <3>1. Summarized \in Seq(Seq(SessionId \X Nat))
      BY <2>1, SummarizedIsSeq DEF Finish, ReplayInv
    <3> QED BY <2>1, <3>1, ReplayAssumption
  <2>2. CASE HasStale
    BY <2>2 DEF HasStale, CauseInv
  <2> QED BY <2>1, <2>2 DEF Finish
<1>3. Ordered' <=> Ordered
  BY <1>1 DEF Ordered, Live, UpsertsOf, Upserts, Terminates
<1> QED BY <1>1, <1>2, <1>3 DEF CauseInv, KnownAreLive, SeenWereLive, BadReadsExplained

(* A read that goes wrong has met a missing array, which is a snapshot's   *)
(* that claims entries, or an address that is stale: a free one is.        *)
LEMMA CauseCrashInv ==
  ASSUME ReplayInv, CauseInv, Crash
  PROVE  CauseInv'
<1>1. UNCHANGED <<heap, log, taken, stale, journal, hashed>> /\ phase' = "crashed"
  BY DEF Crash, vars
<1>2. BadReadsExplained' => CauseInv'
  <2>1. (Ordered' <=> Ordered) /\ (KnownAreLive' <=> KnownAreLive)
        /\ (SeenWereLive' <=> SeenWereLive)
    BY <1>1, SameCauses
  <2> QED BY <1>1, <2>1 DEF CauseInv
<1>3. CASE HasMissingArray
  <2>1. PICK i \in DOMAIN log : Len(log[i].entries) < log[i].count
    BY <1>3 DEF HasMissingArray
  <2>2. log[i].count \in Nat /\ Len(log[i].entries) \in Nat
    <3>1. log[i] \in Snap
      BY DEF ReplayInv, LogInv, LogTypeOK
    <3> QED BY <3>1 DEF Snap
  <2>3. log[i].count > 0 /\ log[i].entries = <<>>
    BY <2>1, <2>2 DEF ReplayInv, LogInv, SnapshotsWhole
  <2>4. BadReadsExplained'
    BY <1>1, <2>3 DEF BadReadsExplained
  <2> QED BY <1>2, <2>4
<1>4. CASE HasStale \/ ReadsFree
  <2>1. ReadsFree => HasStale
    BY DEF ReadsFree, HasStale, ReplayInv, LogInv, SnapshotsHold, At
  <2>2. ~Ordered
    BY <1>4, <2>1 DEF HasStale, CauseInv
  <2>3. BadReadsExplained'
    <3>1. ~Ordered'
      BY <1>1, <2>2, SameCauses
    <3> QED BY <3>1 DEF BadReadsExplained
  <2> QED BY <1>2, <2>3
<1> QED BY <1>3, <1>4 DEF Crash

LEMMA CauseNextInv ==
  ReplayInv /\ CauseInv /\ [ReplayNext]_replayVars => CauseInv'
<1> SUFFICES ASSUME ReplayInv, CauseInv, [ReplayNext]_replayVars
             PROVE  CauseInv'
  OBVIOUS
<1>1. CASE UNCHANGED replayVars
  <2>1. UNCHANGED <<heap, log, taken, stale, journal, hashed, phase>>
    BY <1>1 DEF replayVars, vars
  <2>2. BadReadsExplained' <=> BadReadsExplained
    BY <2>1, SameCauses DEF BadReadsExplained
  <2> QED BY <2>1, <2>2, SameCauses DEF CauseInv
<1> QED BY <1>1, CauseRecordInv, CauseFinishInv, CauseCrashInv DEF ReplayNext, Stopped

(* Of any journal, a replay reads what it must not only behind the         *)
(* termination of a session that a checkpoint saw, or for want of a        *)
(* snapshot's array: no other failed allocation does any harm.             *)
THEOREM BadReadsExplainedAlways == ReplaySpec => []BadReadsExplained
<1>1. ReplaySpec => []ReplayInv
  BY ReplayInitInv, ReplayNextInv, PTL DEF ReplaySpec
<1>2. ReplaySpec => []CauseInv
  BY <1>1, CauseInitInv, CauseNextInv, PTL DEF ReplaySpec
<1>3. CauseInv => BadReadsExplained
  BY DEF CauseInv
<1> QED BY <1>2, <1>3, PTL

-----------------------------------------------------------------------------

(* What a replay that is defined computes.  While no allocation fails the  *)
(* chain is the one the journal means (IsChain, TrackerMirrors), and every *)
(* snapshot holds that of its checkpoint (LogMirrors); what a snapshot     *)
(* refers to is still there at the end when no session it saw was          *)
(* terminated (CauseInv, SnapshotsHold), and by then has the updates of    *)
(* the whole journal.                                                      *)

(* The sessions alive after record n, last established first.              *)
IsChain(n, c) ==
  /\ \E m \in Nat : DOMAIN c = 1 .. m
  /\ \A k \in DOMAIN c : c[k] \in Live(n)
  /\ \A sid \in Live(n) : \E k \in DOMAIN c : c[k] = sid
  /\ \A j, k \in DOMAIN c : j < k => Established(c[j], n) > Established(c[k], n)

Sessions == [k \in DOMAIN list |-> heap[list[k]].session_id]

TrackerMirrors(n) ==
  /\ IsChain(n, Sessions)
  /\ \A k \in DOMAIN list :
       heap[list[k]].updates = Cardinality(UpsertsOf(heap[list[k]].session_id, n))

(* Record n is checkpoint i.                                               *)
Marks(n) == {m \in 1 .. n : journal[m].type = "CHECKPOINT"}

CheckpointsTo(n, i) ==
  /\ n \in DOMAIN journal
  /\ journal[n].type = "CHECKPOINT"
  /\ Cardinality(Marks(n)) = i

Seen(i) == [k \in DOMAIN taken[i] |-> taken[i][k].session_id]

SnapshotMirrors(i) ==
  /\ Len(log[i].entries) = log[i].count
  /\ \E n \in Nat : CheckpointsTo(n, i) /\ IsChain(n, Seen(i))

LogMirrors(n) ==
  /\ Len(log) = Cardinality(Marks(n))
  /\ \A i \in DOMAIN log : SnapshotMirrors(i)

MirrorInv ==
  /\ event_count = Len(journal)
  /\ phase = "replaying" /\ unfailing =>
       \A n \in Nat : n = Len(journal) => TrackerMirrors(n) /\ LogMirrors(n)
  /\ SummaryFollowsJournal

(* The least member of a set of numbers is its only least one.             *)
LEMMA LeastIs ==
  ASSUME NEW S \in SUBSET Nat, NEW m \in S, \A k \in S : m <= k
  PROVE  (CHOOSE x \in S : \A k \in S : x <= k) = m
<1>1. \A x \in S : (\A k \in S : x <= k) => x = m
  OBVIOUS
<1> QED BY <1>1

(* Counting a set by listing it.                                           *)
LEMMA ListedOnce ==
  ASSUME NEW m \in Nat, NEW T, NEW f \in [1 .. m -> T],
         \A t \in T : \E k \in 1 .. m : f[k] = t,
         \A j, k \in 1 .. m : j < k => f[j] # f[k]
  PROVE  IsFiniteSet(T) /\ Cardinality(T) = m
<1>1. \A j, k \in 1 .. m : f[j] = f[k] => j = k
  OBVIOUS
<1>2. f \in Injection(1 .. m, T)
  BY <1>1 DEF Injection, IsInjective
<1>3. f \in Surjection(1 .. m, T)
  BY DEF Surjection
<1>4. IsFiniteSet(1 .. m) /\ Cardinality(1 .. m) = m
  <2>1. m \in Int /\ 1 \in Int /\ (IF 1 > m THEN 0 ELSE m - 1 + 1) = m
    OBVIOUS
  <2> QED BY <2>1, FS_Interval
<1> QED BY <1>2, <1>3, <1>4, FS_Surjection

LEMMA UpsertsInside ==
  ASSUME NEW n \in Nat, NEW sid
  PROVE  /\ UpsertsOf(sid, n) \subseteq 1 .. n
         /\ IsFiniteSet(UpsertsOf(sid, n)) /\ Cardinality(UpsertsOf(sid, n)) \in Nat
<1>1. UpsertsOf(sid, n) \subseteq 1 .. n
  BY DEF UpsertsOf
<1>2. IsFiniteSet(1 .. n)
  BY FS_Interval
<1>3. IsFiniteSet(UpsertsOf(sid, n))
  BY <1>1, <1>2, FS_Subset
<1> QED BY <1>1, <1>3, FS_CardinalityType

LEMMA EstablishedIs ==
  ASSUME NEW n \in Nat, NEW sid \in Live(n)
  PROVE  /\ Established(sid, n) \in UpsertsOf(sid, n)
         /\ Established(sid, n) \in 1 .. n
         /\ \A k \in UpsertsOf(sid, n) : Established(sid, n) <= k
<1>1. UpsertsOf(sid, n) \subseteq 1 .. n /\ UpsertsOf(sid, n) # {}
  BY UpsertsInside DEF Live
<1>2. UpsertsOf(sid, n) \in SUBSET Nat
  BY <1>1
<1>3. \E m \in UpsertsOf(sid, n) : \A k \in UpsertsOf(sid, n) : m <= k
  BY <1>1, <1>2, LeastNumber
<1> QED BY <1>1, <1>3 DEF Established

(* The chain the journal means is the only one.                            *)
LEMMA ChainIs ==
  ASSUME NEW n \in Nat, NEW m \in Nat, NEW S, NEW c \in [1 .. m -> S], IsChain(n, c)
  PROVE  ChainAt(n) = c
<1> DEFINE E(s) == Established(s, n)
           L == Live(n)
           Later(s) == {t \in L : E(t) > E(s)}
<1>1. /\ \A k \in 1 .. m : c[k] \in L
      /\ \A s \in L : \E k \in 1 .. m : c[k] = s
      /\ \A j, k \in 1 .. m : j < k => E(c[j]) > E(c[k])
      /\ \A s \in L : E(s) \in Nat
  BY EstablishedIs DEF IsChain
<1> HIDE DEF E, L
<1>2. \A j, k \in 1 .. m : j < k => c[j] # c[k]
  BY <1>1
<1>3. Cardinality(L) = m
  <2>1. c \in [1 .. m -> L]
    BY <1>1
  <2> QED BY <1>1, <1>2, <2>1, ListedOnce
<1>4. ASSUME NEW k \in 1 .. m
      PROVE  Cardinality(Later(c[k])) = k - 1
  <2> DEFINE f == [j \in 1 .. k - 1 |-> c[j]]
             T == Later(c[k])
  <2>1. f \in [1 .. k - 1 -> T]
    BY <1>1
  <2>2. \A t \in T : \E j \in 1 .. k - 1 : f[j] = t
    <3> SUFFICES ASSUME NEW t \in T
                 PROVE  \E j \in 1 .. k - 1 : f[j] = t
      OBVIOUS
    <3>1. PICK j \in 1 .. m : c[j] = t
      BY <1>1
    <3>2. E(c[j]) > E(c[k]) /\ E(c[j]) \in Nat /\ E(c[k]) \in Nat
      BY <1>1, <3>1
    <3>3. j < k
      BY <1>1, <3>2
    <3> QED BY <3>1, <3>3
  <2>3. \A i, j \in 1 .. k - 1 : i < j => f[i] # f[j]
    BY <1>2
  <2>4. k - 1 \in Nat
    OBVIOUS
  <2> HIDE DEF f, T
  <2>5. Cardinality(T) = k - 1
    BY <2>1, <2>2, <2>3, <2>4, ListedOnce
  <2> QED BY <2>5 DEF T
<1> HIDE DEF Later
<1>5. ASSUME NEW k \in 1 .. m
      PROVE  (CHOOSE s \in L : Cardinality(Later(s)) = k - 1) = c[k]
  <2>1. c[k] \in L /\ Cardinality(Later(c[k])) = k - 1
    BY <1>1, <1>4
  <2>2. ASSUME NEW s \in L, Cardinality(Later(s)) = k - 1
        PROVE  s = c[k]
    <3>1. PICK j \in 1 .. m : c[j] = s
      BY <1>1
    <3>2. k - 1 = j - 1
      BY <1>4, <2>2, <3>1
    <3>3. k = j
      BY <3>2
    <3> QED BY <3>1, <3>3
  <2> QED BY <2>1, <2>2
<1>6. ChainAt(n) = [k \in 1 .. m |-> CHOOSE s \in L : Cardinality(Later(s)) = k - 1]
  BY <1>3 DEF ChainAt, L, Later, E
<1> QED BY <1>5, <1>6

(* What a record changes of what the journal means.                        *)
LEMMA UpsertsNow ==
  ASSUME journal \in Seq(Record), NEW r \in Record, journal' = Append(journal, r),
         NEW n \in Nat, n = Len(journal), NEW sid
  PROVE  UpsertsOf(sid, n + 1)' =
           IF r.type = "TERMINATE" /\ r.session_id = sid THEN {}
           ELSE IF r.type \in UpsertType /\ r.session_id = sid
             THEN UpsertsOf(sid, n) \cup {n + 1}
             ELSE UpsertsOf(sid, n)
<1> DEFINE ends == r.type = "TERMINATE" /\ r.session_id = sid
           adds == r.type \in UpsertType /\ r.session_id = sid
           U == UpsertsOf(sid, n)
           V == UpsertsOf(sid, n + 1)'
<1>1. \A m \in 1 .. n : /\ Terminates(sid, m)' <=> Terminates(sid, m)
                        /\ Upserts(sid, m)' <=> Upserts(sid, m)
  BY RecordsKept DEF Terminates, Upserts
<1>2. (Terminates(sid, n + 1)' <=> ends) /\ (Upserts(sid, n + 1)' <=> adds)
  BY RecordsKept DEF Terminates, Upserts
<1>3. \A m : m \in V <=> m \in 1 .. n + 1 /\ Upserts(sid, m)'
                         /\ \A t \in m .. n + 1 : ~Terminates(sid, t)'
  BY DEF UpsertsOf
<1>4. \A m : m \in U <=> m \in 1 .. n /\ Upserts(sid, m) /\ \A t \in m .. n : ~Terminates(sid, t)
  BY DEF UpsertsOf
<1>5. adds => ~ends
  BY DEF UpsertType
<1> HIDE DEF ends, adds, U, V
<1>6. ASSUME ends
      PROVE  V = {}
  <2>1. \A m \in 1 .. n + 1 : n + 1 \in m .. n + 1
    OBVIOUS
  <2> QED BY <1>2, <1>3, <1>6, <2>1
<1>7. ASSUME ~ends, NEW m \in 1 .. n
      PROVE  m \in V <=> m \in U
  <2>1. m .. n + 1 = m .. n \cup {n + 1} /\ m .. n \subseteq 1 .. n /\ m \in 1 .. n + 1
    OBVIOUS
  <2> QED BY <1>1, <1>2, <1>3, <1>4, <1>7, <2>1
<1>8. ASSUME ~ends
      PROVE  n + 1 \in V <=> adds
  <2>1. n + 1 .. n + 1 = {n + 1} /\ n + 1 \in 1 .. n + 1
    OBVIOUS
  <2> QED BY <1>2, <1>3, <1>8, <2>1
<1>9. ASSUME ~ends
      PROVE  V = IF adds THEN U \cup {n + 1} ELSE U
  <2>1. V \subseteq 1 .. n \cup {n + 1} /\ U \subseteq 1 .. n
    <3>1. 1 .. n + 1 \subseteq 1 .. n \cup {n + 1}
      OBVIOUS
    <3> QED BY <1>3, <1>4, <3>1
  <2>2. n + 1 \notin 1 .. n
    OBVIOUS
  <2>3. V = IF n + 1 \in V THEN U \cup {n + 1} ELSE U
    <3> DEFINE N == 1 .. n
               x == n + 1
    <3>1. /\ \A m \in N : m \in V <=> m \in U
          /\ V \subseteq N \cup {x} /\ U \subseteq N /\ x \notin N
      BY <1>7, <1>9, <2>1, <2>2
    <3> HIDE DEF N, x
    <3>2. \A m : m \in V <=> m \in (IF x \in V THEN U \cup {x} ELSE U)
      BY <3>1
    <3> QED BY <3>2 DEF x
  <2> QED BY <1>8, <1>9, <2>3
<1> QED BY <1>5, <1>6, <1>9 DEF ends, adds, U, V

LEMMA UpsertsKept ==
  ASSUME journal \in Seq(Record), NEW r \in Record, journal' = Append(journal, r),
         NEW n \in 0 .. Len(journal), NEW sid
  PROVE  UpsertsOf(sid, n)' = UpsertsOf(sid, n)
<1>1. \A m : m \in 1 .. Len(journal) =>
        (Terminates(sid, m)' <=> Terminates(sid, m)) /\ (Upserts(sid, m)' <=> Upserts(sid, m))
  BY RecordsKept DEF Terminates, Upserts
<1>2. 1 .. n \subseteq 1 .. Len(journal) /\ \A m \in 1 .. n : m .. n \subseteq 1 .. n
  BY RecordsKept
<1> QED BY <1>1, <1>2 DEF UpsertsOf

(* The sessions alive, and the order they were established in.             *)
LEMMA LiveNow ==
  ASSUME journal \in Seq(Record), NEW r \in Record, journal' = Append(journal, r),
         NEW n \in Nat, n = Len(journal)
  PROVE  Live(n + 1)' =
           IF r.type = "TERMINATE" THEN Live(n) \ {r.session_id}
           ELSE IF r.type \in UpsertType THEN Live(n) \cup {r.session_id}
           ELSE Live(n)
<1>1. r.session_id \in SessionId /\ "TERMINATE" \notin UpsertType
  BY ReplayAssumption DEF UpsertType
<1>2. ASSUME NEW sid \in SessionId
      PROVE  UpsertsOf(sid, n + 1)' # {} <=>
               IF r.type = "TERMINATE" THEN UpsertsOf(sid, n) # {} /\ sid # r.session_id
               ELSE IF r.type \in UpsertType THEN UpsertsOf(sid, n) # {} \/ sid = r.session_id
               ELSE UpsertsOf(sid, n) # {}
  <2>1. UpsertsOf(sid, n + 1)' =
           IF r.type = "TERMINATE" /\ r.session_id = sid THEN {}
           ELSE IF r.type \in UpsertType /\ r.session_id = sid
             THEN UpsertsOf(sid, n) \cup {n + 1}
             ELSE UpsertsOf(sid, n)
    BY UpsertsNow
  <2> QED BY <1>1, <2>1
<1> QED BY <1>1, <1>2 DEF Live

LEMMA EstablishedOn ==
  ASSUME journal \in Seq(Record), NEW r \in Record, journal' = Append(journal, r),
         NEW n \in Nat, n = Len(journal), NEW sid \in Live(n),
         ~(r.type = "TERMINATE" /\ r.session_id = sid)
  PROVE  Established(sid, n + 1)' = Established(sid, n)
<1> DEFINE U == UpsertsOf(sid, n)
           V == UpsertsOf(sid, n + 1)'
           e == Established(sid, n)
<1>1. V = U \cup {n + 1} \/ V = U
  BY UpsertsNow
<1>2. U \subseteq 1 .. n /\ e \in U /\ e \in 1 .. n /\ \A k \in U : e <= k
  BY EstablishedIs, UpsertsInside
<1>3. Established(sid, n + 1)' = CHOOSE m \in V : \A k \in V : m <= k
  BY DEF Established
<1> HIDE DEF U, V, e
<1>4. V \in SUBSET Nat /\ e \in V /\ \A k \in V : e <= k
  <2>1. CASE V = U
    BY <1>2, <2>1
  <2>2. CASE V = U \cup {n + 1}
    <3>1. e <= n + 1 /\ n + 1 \in Nat
      BY <1>2
    <3>2. V \in SUBSET Nat /\ e \in V
      <4>1. U \subseteq Nat /\ e \in U
        BY <1>2
      <4> QED BY <2>2, <3>1, <4>1
    <3>3. \A k \in V : e <= k
      BY <1>2, <2>2, <3>1
    <3> QED BY <3>2, <3>3
  <2> QED BY <1>1, <2>1, <2>2
<1> QED BY <1>3, <1>4, LeastIs DEF e

LEMMA EstablishedNow ==
  ASSUME journal \in Seq(Record), NEW r \in Record, journal' = Append(journal, r),
         NEW n \in Nat, n = Len(journal), r.type \in UpsertType,
         r.session_id \notin Live(n)
  PROVE  Established(r.session_id, n + 1)' = n + 1
<1> DEFINE V == UpsertsOf(r.session_id, n + 1)'
<1>1. r.session_id \in SessionId /\ r.type # "TERMINATE"
  BY ReplayAssumption DEF UpsertType
<1>2. V = {n + 1}
  <2>1. UpsertsOf(r.session_id, n) = {}
    BY <1>1 DEF Live
  <2>2. V = UpsertsOf(r.session_id, n) \cup {n + 1}
    BY <1>1, UpsertsNow
  <2> QED BY <2>1, <2>2
<1>3. Established(r.session_id, n + 1)' = CHOOSE m \in V : \A k \in V : m <= k
  BY DEF Established
<1> HIDE DEF V
<1>4. V \in SUBSET Nat /\ n + 1 \in V /\ \A k \in V : n + 1 <= k
  BY <1>2
<1> QED BY <1>3, <1>4, LeastIs

(* A chain of an earlier record stays what it is.                          *)
LEMMA ChainKept ==
  ASSUME journal \in Seq(Record), NEW r \in Record, journal' = Append(journal, r),
         NEW n \in 0 .. Len(journal), NEW c, IsChain(n, c)
  PROVE  IsChain(n, c)'
<1>1. Live(n)' = Live(n)
  BY LiveKept
<1>2. \A sid : UpsertsOf(sid, n)' = UpsertsOf(sid, n)
  BY UpsertsKept
<1>3. \A sid : Established(sid, n)' = Established(sid, n)
  BY <1>2 DEF Established
<1> QED BY <1>1, <1>3 DEF IsChain

(* A record that neither adds a session nor ends one.                      *)
LEMMA ChainUntouched ==
  ASSUME journal \in Seq(Record), NEW r \in Record, journal' = Append(journal, r),
         NEW n \in Nat, n = Len(journal), NEW c, IsChain(n, c),
         r.type \in UpsertType => r.session_id \in Live(n),
         r.type = "TERMINATE" => r.session_id \notin Live(n)
  PROVE  IsChain(n + 1, c)'
<1>1. Live(n + 1)' = Live(n)
  <2>1. Live(n + 1)' = IF r.type = "TERMINATE" THEN Live(n) \ {r.session_id}
                       ELSE IF r.type \in UpsertType THEN Live(n) \cup {r.session_id}
                       ELSE Live(n)
    BY LiveNow
  <2>2. CASE r.type = "TERMINATE"
    BY <2>1, <2>2
  <2>3. CASE r.type \in UpsertType /\ r.type # "TERMINATE"
    BY <2>1, <2>3
  <2> QED BY <2>1, <2>2, <2>3
<1>2. \A sid \in Live(n) : Established(sid, n + 1)' = Established(sid, n)
  BY EstablishedOn
<1>3. /\ \E m \in Nat : DOMAIN c = 1 .. m
      /\ \A k \in DOMAIN c : c[k] \in Live(n)
      /\ \A sid \in Live(n) : \E k \in DOMAIN c : c[k] = sid
      /\ \A j, k \in DOMAIN c : j < k => Established(c[j], n) > Established(c[k], n)
  BY DEF IsChain
<1>4. \A j, k \in DOMAIN c :
        j < k => Established(c[j], n + 1)' > Established(c[k], n + 1)'
  BY <1>2, <1>3
<1> QED BY <1>1, <1>3, <1>4 DEF IsChain

(* A session is new: it comes in front.                                    *)
IsLinked(c, m, d, sid) ==
  /\ DOMAIN c = 1 .. m /\ DOMAIN d = 1 .. m + 1
  /\ d[1] = sid /\ \A k \in 1 .. m : d[k + 1] = c[k]

LEMMA ChainLinked ==
  ASSUME journal \in Seq(Record), NEW r \in Record, journal' = Append(journal, r),
         NEW n \in Nat, n = Len(journal), NEW c, IsChain(n, c),
         r.type \in UpsertType, r.session_id \notin Live(n),
         NEW m \in Nat, NEW d, IsLinked(c, m, d, r.session_id)
  PROVE  IsChain(n + 1, d)'
<1>0. /\ DOMAIN c = 1 .. m /\ DOMAIN d = 1 .. m + 1
      /\ d[1] = r.session_id /\ \A k \in 1 .. m : d[k + 1] = c[k]
  BY DEF IsLinked
<1>1. Live(n + 1)' = Live(n) \cup {r.session_id}
  <2>1. r.type # "TERMINATE"
    BY DEF UpsertType
  <2> QED BY <2>1, LiveNow
<1>2. /\ Established(r.session_id, n + 1)' = n + 1
      /\ \A sid \in Live(n) : /\ Established(sid, n + 1)' = Established(sid, n)
                              /\ Established(sid, n) \in 1 .. n
  <2>1. r.type # "TERMINATE"
    BY DEF UpsertType
  <2> QED BY <2>1, EstablishedNow, EstablishedOn, EstablishedIs
<1>3. \A k \in 1 .. m + 1 : k = 1 \/ (k - 1 \in 1 .. m /\ d[k] = c[k - 1])
  <2> SUFFICES ASSUME NEW k \in 1 .. m + 1, k # 1
               PROVE  k - 1 \in 1 .. m /\ d[k] = c[k - 1]
    OBVIOUS
  <2>1. k - 1 \in 1 .. m /\ (k - 1) + 1 = k
    OBVIOUS
  <2> QED BY <1>0, <2>1
<1>4. \A k \in 1 .. m : k + 1 \in 1 .. m + 1
  OBVIOUS
<1>5. /\ \A k \in 1 .. m : c[k] \in Live(n)
      /\ \A sid \in Live(n) : \E k \in 1 .. m : c[k] = sid
      /\ \A j, k \in 1 .. m : j < k => Established(c[j], n) > Established(c[k], n)
  BY <1>0 DEF IsChain
<1>6. \A k \in 1 .. m + 1 : d[k] \in Live(n + 1)'
  BY <1>0, <1>1, <1>3, <1>5
<1>7. \A sid \in Live(n + 1)' : \E k \in 1 .. m + 1 : d[k] = sid
  <2>1. 1 \in 1 .. m + 1
    OBVIOUS
  <2> QED BY <1>0, <1>1, <1>4, <1>5, <2>1
<1>8. ASSUME NEW j \in 1 .. m + 1, NEW k \in 1 .. m + 1, j < k
      PROVE  Established(d[j], n + 1)' > Established(d[k], n + 1)'
  <2>1. k - 1 \in 1 .. m /\ d[k] = c[k - 1] /\ k # 1
    BY <1>3, <1>8
  <2>2. Established(d[k], n + 1)' = Established(c[k - 1], n) /\ Established(c[k - 1], n) \in 1 .. n
    BY <1>2, <1>5, <2>1
  <2>3. CASE j = 1
    <3>1. Established(d[j], n + 1)' = n + 1
      BY <1>0, <1>2, <2>3
    <3> QED BY <2>2, <3>1
  <2>4. CASE j # 1
    <3>1. j - 1 \in 1 .. m /\ d[j] = c[j - 1] /\ j - 1 < k - 1
      BY <1>3, <1>8, <2>4
    <3>2. Established(d[j], n + 1)' = Established(c[j - 1], n)
      BY <1>2, <1>5, <3>1
    <3> QED BY <1>5, <2>1, <2>2, <3>1, <3>2
  <2> QED BY <2>3, <2>4
<1>9. m + 1 \in Nat
  OBVIOUS
<1> QED BY <1>0, <1>6, <1>7, <1>8, <1>9 DEF IsChain

(* A session ends: it leaves its place.                                    *)
IsUnlinked(c, m, d, p, sid) ==
  /\ DOMAIN c = 1 .. m /\ DOMAIN d = 1 .. m - 1
  /\ p \in 1 .. m /\ c[p] = sid /\ \A k \in 1 .. m : c[k] = sid => k = p
  /\ \A k \in 1 .. m - 1 : d[k] = IF k < p THEN c[k] ELSE c[k + 1]

LEMMA ChainUnlinked ==
  ASSUME journal \in Seq(Record), NEW r \in Record, journal' = Append(journal, r),
         NEW n \in Nat, n = Len(journal), NEW c, IsChain(n, c), r.type = "TERMINATE",
         NEW m \in Nat, NEW d, NEW p, IsUnlinked(c, m, d, p, r.session_id)
  PROVE  IsChain(n + 1, d)'
<1>0. /\ DOMAIN c = 1 .. m /\ DOMAIN d = 1 .. m - 1
      /\ p \in 1 .. m /\ c[p] = r.session_id
      /\ \A k \in 1 .. m : c[k] = r.session_id => k = p
      /\ \A k \in 1 .. m - 1 : d[k] = IF k < p THEN c[k] ELSE c[k + 1]
  BY DEF IsUnlinked
<1>1. Live(n + 1)' = Live(n) \ {r.session_id}
  BY LiveNow
<1>2. \A sid \in Live(n) \ {r.session_id} : Established(sid, n + 1)' = Established(sid, n)
  BY EstablishedOn
<1>3. /\ \A k \in 1 .. m : c[k] \in Live(n)
      /\ \A sid \in Live(n) : \E k \in 1 .. m : c[k] = sid
      /\ \A j, k \in 1 .. m : j < k => Established(c[j], n) > Established(c[k], n)
  BY <1>0 DEF IsChain
<1> DEFINE q(k) == IF k < p THEN k ELSE k + 1
<1>4. \A k \in 1 .. m - 1 : q(k) \in 1 .. m /\ q(k) # p /\ d[k] = c[q(k)]
  BY <1>0
<1>5. \A j, k \in 1 .. m - 1 : j < k => q(j) < q(k)
  BY <1>0
<1>6. \A i \in 1 .. m : i # p => \E k \in 1 .. m - 1 : q(k) = i
  <2> SUFFICES ASSUME NEW i \in 1 .. m, i # p
               PROVE  \E k \in 1 .. m - 1 : q(k) = i
    OBVIOUS
  <2>1. CASE i < p
    <3>1. i \in 1 .. m - 1 /\ q(i) = i
      BY <1>0, <2>1
    <3> QED BY <3>1
  <2>2. CASE ~(i < p)
    <3>1. i - 1 \in 1 .. m - 1 /\ ~(i - 1 < p) /\ (i - 1) + 1 = i
      BY <1>0, <2>2
    <3>2. q(i - 1) = i
      BY <3>1
    <3> QED BY <3>1, <3>2
  <2> QED BY <2>1, <2>2
<1> HIDE DEF q
<1>7. \A k \in 1 .. m - 1 : d[k] \in Live(n) \ {r.session_id}
  BY <1>0, <1>3, <1>4
<1>8. \A sid \in Live(n) \ {r.session_id} : \E k \in 1 .. m - 1 : d[k] = sid
  <2> SUFFICES ASSUME NEW sid \in Live(n) \ {r.session_id}
               PROVE  \E k \in 1 .. m - 1 : d[k] = sid
    OBVIOUS
  <2>1. PICK i \in 1 .. m : c[i] = sid
    BY <1>3
  <2>2. i # p
    BY <1>0, <2>1
  <2> QED BY <1>4, <1>6, <2>1, <2>2
<1>9. ASSUME NEW j \in 1 .. m - 1, NEW k \in 1 .. m - 1, j < k
      PROVE  Established(d[j], n + 1)' > Established(d[k], n + 1)'
  <2>1. Established(c[q(j)], n) > Established(c[q(k)], n)
    BY <1>3, <1>4, <1>5, <1>9
  <2>2. Established(d[j], n + 1)' = Established(d[j], n)
        /\ Established(d[k], n + 1)' = Established(d[k], n)
    BY <1>2, <1>7
  <2> QED BY <1>4, <2>1, <2>2
<1>10. m - 1 \in Nat
  BY <1>0
<1> QED BY <1>0, <1>1, <1>7, <1>8, <1>9, <1>10 DEF IsChain

(* What a call does to the tracker its record does to what the journal     *)
(* means.                                                                  *)
LEMMA MirrorTypes ==
  ASSUME LogInv
  PROVE  /\ heap \in [Addr -> Entry \cup {Free}] /\ list \in Seq(Addr)
         /\ Len(list) \in Nat /\ DOMAIN list = 1 .. Len(list)
         /\ \A k \in DOMAIN list : /\ list[k] \in Addr
                                   /\ heap[list[k]] \in Entry
                                   /\ heap[list[k]] # Free
                                   /\ heap[list[k]].session_id \in SessionId
                                   /\ heap[list[k]].updates \in Nat
         /\ \A j, k \in DOMAIN list :
              (list[j] = list[k] \/ heap[list[j]].session_id = heap[list[k]].session_id) => j = k
         /\ Sessions \in [1 .. Len(list) -> SessionId]
<1>1. /\ heap \in [Addr -> Entry \cup {Free}] /\ list \in Seq(Addr)
      /\ Len(list) \in Nat /\ DOMAIN list = 1 .. Len(list)
  BY DEF LogInv, TrackerInv, TypeOK
<1>2. \A k \in DOMAIN list : /\ list[k] \in Addr
                             /\ heap[list[k]] \in Entry
                             /\ heap[list[k]] # Free
  BY <1>1 DEF LogInv, TrackerInv, ChainOwnsHeap
<1>3. \A k \in DOMAIN list : /\ heap[list[k]].session_id \in SessionId
                             /\ heap[list[k]].updates \in Nat
  BY <1>2 DEF Entry
<1>4. \A j, k \in DOMAIN list :
        (list[j] = list[k] \/ heap[list[j]].session_id = heap[list[k]].session_id) => j = k
  BY DEF LogInv, TrackerInv, ChainOwnsHeap, OneEntryPerSession
<1>5. Sessions \in [1 .. Len(list) -> SessionId]
  BY <1>1, <1>3 DEF Sessions
<1> QED BY <1>1, <1>2, <1>3, <1>4, <1>5

LEMMA UnknownNotLive ==
  ASSUME NEW n \in Nat, TrackerMirrors(n), NEW sid
  PROVE  Known(sid) <=> sid \in Live(n)
BY DEF TrackerMirrors, IsChain, Sessions, Known

(* The number of updates that a record of another session leaves.          *)
LEMMA UpdatesKept ==
  ASSUME journal \in Seq(Record), NEW r \in Record, journal' = Append(journal, r),
         NEW n \in Nat, n = Len(journal), NEW sid,
         r.session_id = sid => r.type \notin UpsertType \cup {"TERMINATE"}
  PROVE  UpsertsOf(sid, n + 1)' = UpsertsOf(sid, n)
BY UpsertsNow

LEMMA MirrorFrom ==
  ASSUME NEW m, IsChain(m, Sessions)',
         \A k \in DOMAIN list' : \E sid :
           /\ heap'[list'[k]].session_id = sid
           /\ heap'[list'[k]].updates = Cardinality(UpsertsOf(sid, m)')
  PROVE  TrackerMirrors(m)'
BY DEF TrackerMirrors, UpsertsOf, Upserts, Terminates

LEMMA MirrorUntouched ==
  ASSUME LogInv, journal \in Seq(Record), NEW r \in Record, journal' = Append(journal, r),
         NEW n \in Nat, n = Len(journal), TrackerMirrors(n), UNCHANGED <<heap, list>>,
         r.type \notin UpsertType,
         r.type = "TERMINATE" => ~Known(r.session_id)
  PROVE  TrackerMirrors(n + 1)'
<1>1. PICK c : c = Sessions
  OBVIOUS
<1>2. Sessions' = c
  BY <1>1 DEF Sessions
<1>3. IsChain(n + 1, c)'
  <2>1. r.type = "TERMINATE" => r.session_id \notin Live(n)
    BY UnknownNotLive
  <2> QED BY <1>1, <2>1, ChainUntouched DEF TrackerMirrors
<1>4. IsChain(n + 1, Sessions)'
  BY <1>2, <1>3 DEF IsChain
<1>5. ASSUME NEW k \in DOMAIN list
      PROVE  \E sid : /\ heap'[list'[k]].session_id = sid
                      /\ heap'[list'[k]].updates = Cardinality(UpsertsOf(sid, n + 1)')
  <2>1. PICK sid : sid = heap[list[k]].session_id
    OBVIOUS
  <2>2. r.type = "TERMINATE" => r.session_id # sid
    BY <2>1 DEF Known
  <2>3. UpsertsOf(sid, n + 1)' = UpsertsOf(sid, n)
    BY <2>2, UpdatesKept
  <2> QED BY <2>1, <2>3 DEF TrackerMirrors
<1> QED BY <1>4, <1>5, MirrorFrom

LEMMA MirrorUpdated ==
  ASSUME LogInv, journal \in Seq(Record), NEW r \in Record, journal' = Append(journal, r),
         NEW n \in Nat, n = Len(journal), TrackerMirrors(n), r.type \in UpsertType,
         UpsertKnown(r.session_id, r.payload), status' # "IPMB_ERR_ALLOC"
  PROVE  TrackerMirrors(n + 1)'
<1>1. PICK p \in DOMAIN list :
        /\ FoundAt(p, r.session_id)
        /\ heap' = [heap EXCEPT ![list[p]] = Updated(@, r.payload)]
        /\ list' = list
  BY DEF UpsertKnown
<1>2. heap[list[p]].session_id = r.session_id /\ r.payload \in Payload /\ r.type # "TERMINATE"
  BY <1>1, ReplayAssumption DEF FoundAt, UpsertType
<1>3. /\ heap'[list[p]].session_id = r.session_id
      /\ heap'[list[p]].updates = heap[list[p]].updates + 1
  <2>1. heap'[list[p]] = Updated(heap[list[p]], r.payload) /\ heap[list[p]] \in Entry
    BY <1>1, MirrorTypes
  <2> QED BY <1>2, <2>1 DEF Updated, Entry
<1>4. \A k \in DOMAIN list : k # p => heap'[list[k]] = heap[list[k]]
  BY <1>1, MirrorTypes
<1>5. PICK c : c = Sessions
  OBVIOUS
<1>6. Sessions' = c
  <2>1. \A k \in DOMAIN list : heap'[list[k]].session_id = heap[list[k]].session_id
    BY <1>2, <1>3, <1>4
  <2> QED BY <1>1, <1>5, <2>1 DEF Sessions
<1>7. IsChain(n + 1, c)'
  <2>1. r.session_id \in Live(n)
    BY <1>2, UnknownNotLive DEF Known
  <2> QED BY <1>2, <1>5, <2>1, ChainUntouched DEF TrackerMirrors
<1>8. IsChain(n + 1, Sessions)'
  BY <1>6, <1>7 DEF IsChain
<1>9. ASSUME NEW k \in DOMAIN list
      PROVE  \E sid : /\ heap'[list'[k]].session_id = sid
                      /\ heap'[list'[k]].updates = Cardinality(UpsertsOf(sid, n + 1)')
  <2>1. CASE k = p
    <3> DEFINE U == UpsertsOf(r.session_id, n)
    <3>1. UpsertsOf(r.session_id, n + 1)' = U \cup {n + 1}
      BY <1>2, UpsertsNow
    <3>2. IsFiniteSet(U) /\ U \subseteq 1 .. n
      BY UpsertsInside
    <3>3. n + 1 \notin U
      BY <3>2
    <3>4. heap[list[p]].updates = Cardinality(U)
      BY <1>2 DEF TrackerMirrors
    <3> HIDE DEF U
    <3>5. Cardinality(U \cup {n + 1}) = Cardinality(U) + 1
      BY <3>2, <3>3, FS_AddElement
    <3> QED BY <1>1, <1>3, <2>1, <3>1, <3>4, <3>5
  <2>2. CASE k # p
    <3>1. PICK sid : sid = heap[list[k]].session_id
      OBVIOUS
    <3>2. r.session_id # sid
      BY <1>2, <2>2, <3>1, MirrorTypes
    <3>3. UpsertsOf(sid, n + 1)' = UpsertsOf(sid, n)
      BY <3>2, UpdatesKept
    <3> QED BY <1>1, <1>4, <2>2, <3>1, <3>3 DEF TrackerMirrors
  <2> QED BY <2>1, <2>2
<1> QED BY <1>1, <1>8, <1>9, MirrorFrom

LEMMA MirrorLinked ==
  ASSUME LogInv, journal \in Seq(Record), NEW r \in Record, journal' = Append(journal, r),
         NEW n \in Nat, n = Len(journal), TrackerMirrors(n), r.type \in UpsertType,
         UpsertNew(r.session_id, r.peer_id, r.payload), status' # "IPMB_ERR_ALLOC"
  PROVE  TrackerMirrors(n + 1)'
<1>1. PICK a \in Addr :
        /\ heap[a] = Free
        /\ list' = <<a>> \o list
        /\ heap' = [heap EXCEPT ![a] = Updated(NewEntry(r.session_id, r.peer_id), r.payload)]
  BY DEF UpsertNew
<1>2. ~Known(r.session_id) /\ r.type # "TERMINATE"
      /\ r.session_id \in SessionId /\ r.peer_id \in PeerId /\ r.payload \in Payload
  BY ReplayAssumption DEF UpsertNew, UpsertType
<1>3. heap'[a].session_id = r.session_id /\ heap'[a].updates = 1
  <2>1. heap'[a] = Updated(NewEntry(r.session_id, r.peer_id), r.payload)
    BY <1>1, MirrorTypes
  <2> QED BY <2>1 DEF Updated, NewEntry
<1>4. PICK m \in Nat : m = Len(list)
  BY MirrorTypes
<1>5. /\ DOMAIN list = 1 .. m /\ DOMAIN list' = 1 .. m + 1 /\ list'[1] = a
      /\ \A k \in 1 .. m : list'[k + 1] = list[k]
      /\ \A k \in 2 .. m + 1 : list'[k] = list[k - 1]
  BY <1>1, <1>4, MirrorTypes, LinkPlaces
<1>6. \A k \in 1 .. m : heap'[list[k]] = heap[list[k]]
  BY <1>1, <1>5, MirrorTypes
<1>7. PICK c, d : c = Sessions /\ d = Sessions'
  OBVIOUS
<1>8. /\ DOMAIN c = 1 .. m /\ \A k \in 1 .. m : c[k] = heap[list[k]].session_id
      /\ DOMAIN d = 1 .. m + 1 /\ \A k \in 1 .. m + 1 : d[k] = heap'[list'[k]].session_id
  BY <1>5, <1>7 DEF Sessions
<1>9. d[1] = r.session_id /\ \A k \in 1 .. m : d[k + 1] = c[k]
  <2>1. 1 \in 1 .. m + 1 /\ \A k \in 1 .. m : k + 1 \in 1 .. m + 1
    OBVIOUS
  <2>2. d[1] = r.session_id
    BY <1>3, <1>5, <1>8, <2>1
  <2>3. ASSUME NEW k \in 1 .. m
        PROVE  d[k + 1] = c[k]
    <3>1. d[k + 1] = heap'[list'[k + 1]].session_id
      BY <1>8, <2>1
    <3>2. list'[k + 1] = list[k] /\ heap'[list[k]] = heap[list[k]]
      BY <1>5, <1>6
    <3> QED BY <1>8, <3>1, <3>2
  <2> QED BY <2>2, <2>3
<1>10. r.session_id \notin Live(n)
  BY <1>2, UnknownNotLive
<1>11. IsChain(n + 1, d)'
  <2>1. IsChain(n, c)
    BY <1>7 DEF TrackerMirrors
  <2>2. IsLinked(c, m, d, r.session_id)
    BY <1>8, <1>9 DEF IsLinked
  <2> QED BY <1>10, <2>1, <2>2, ChainLinked
<1>12. IsChain(n + 1, Sessions)'
  BY <1>7, <1>11 DEF IsChain
<1>13. ASSUME NEW k \in DOMAIN list'
       PROVE  \E sid : /\ heap'[list'[k]].session_id = sid
                       /\ heap'[list'[k]].updates = Cardinality(UpsertsOf(sid, n + 1)')
  <2>1. CASE k = 1
    <3>1. UpsertsOf(r.session_id, n) = {}
      BY <1>2, <1>10 DEF Live
    <3>2. UpsertsOf(r.session_id, n + 1)' = {n + 1}
      <4>1. UpsertsOf(r.session_id, n + 1)' = UpsertsOf(r.session_id, n) \cup {n + 1}
        BY <1>2, UpsertsNow
      <4> QED BY <3>1, <4>1
    <3>3. Cardinality({n + 1}) = 1
      BY FS_Singleton
    <3> QED BY <1>3, <1>5, <2>1, <3>2, <3>3
  <2>2. CASE k # 1
    <3>1. PICK i \in DOMAIN list : list'[k] = list[i]
      <4>1. k \in 2 .. m + 1 /\ k - 1 \in 1 .. m
        BY <1>5, <1>13, <2>2
      <4> QED BY <1>5, <4>1
    <3>2. PICK sid : sid = heap[list[i]].session_id
      OBVIOUS
    <3>3. r.session_id # sid
      BY <1>2, <3>2 DEF Known
    <3>4. UpsertsOf(sid, n + 1)' = UpsertsOf(sid, n)
      BY <3>3, UpdatesKept
    <3> QED BY <1>5, <1>6, <3>1, <3>2, <3>4 DEF TrackerMirrors
  <2> QED BY <2>1, <2>2
<1> QED BY <1>12, <1>13, MirrorFrom

LEMMA MirrorUnlinked ==
  ASSUME LogInv, journal \in Seq(Record), NEW r \in Record, journal' = Append(journal, r),
         NEW n \in Nat, n = Len(journal), TrackerMirrors(n), r.type = "TERMINATE",
         TerminateKnown(r.session_id)
  PROVE  TrackerMirrors(n + 1)'
<1>1. PICK p \in DOMAIN list :
        /\ FoundAt(p, r.session_id)
        /\ list' = Unlink(p)
        /\ heap' = [heap EXCEPT ![list[p]] = Free]
  BY DEF TerminateKnown
<1>2. heap[list[p]].session_id = r.session_id
  BY <1>1 DEF FoundAt
<1>3. PICK m \in Nat : m = Len(list)
  BY MirrorTypes
<1>4. /\ DOMAIN list = 1 .. m /\ DOMAIN list' = 1 .. m - 1 /\ p \in 1 .. m
      /\ \A k \in 1 .. m - 1 : list'[k] = IF k < p THEN list[k] ELSE list[k + 1]
  BY <1>1, <1>3, MirrorTypes, UnlinkPlaces
<1>5. \A k \in DOMAIN list : k # p => heap'[list[k]] = heap[list[k]]
  BY <1>1, MirrorTypes
<1>6. \A k \in 1 .. m - 1 :
        /\ k < p => k \in 1 .. m /\ k # p
        /\ ~(k < p) => k + 1 \in 1 .. m /\ k + 1 # p
  BY <1>4
<1>7. \A k \in 1 .. m - 1 :
        heap'[list'[k]] = IF k < p THEN heap[list[k]] ELSE heap[list[k + 1]]
  BY <1>4, <1>5, <1>6
<1>8. PICK c, d : c = Sessions /\ d = Sessions'
  OBVIOUS
<1>9. /\ DOMAIN c = 1 .. m /\ \A k \in 1 .. m : c[k] = heap[list[k]].session_id
      /\ DOMAIN d = 1 .. m - 1 /\ \A k \in 1 .. m - 1 : d[k] = heap'[list'[k]].session_id
  BY <1>4, <1>8 DEF Sessions
<1>10. \A k \in 1 .. m - 1 : d[k] = IF k < p THEN c[k] ELSE c[k + 1]
  BY <1>6, <1>7, <1>9
<1>11. c[p] = r.session_id /\ \A k \in 1 .. m : c[k] = r.session_id => k = p
  BY <1>2, <1>4, <1>9, MirrorTypes
<1>12. IsChain(n + 1, d)'
  <2>1. IsChain(n, c)
    BY <1>8 DEF TrackerMirrors
  <2>2. IsUnlinked(c, m, d, p, r.session_id)
    BY <1>4, <1>9, <1>10, <1>11 DEF IsUnlinked
  <2> QED BY <2>1, <2>2, ChainUnlinked
<1>13. IsChain(n + 1, Sessions)'
  BY <1>8, <1>12 DEF IsChain
<1>14. ASSUME NEW k \in DOMAIN list'
       PROVE  \E sid : /\ heap'[list'[k]].session_id = sid
                       /\ heap'[list'[k]].updates = Cardinality(UpsertsOf(sid, n + 1)')
  <2>1. PICK i \in DOMAIN list : i # p /\ heap'[list'[k]] = heap[list[i]]
    BY <1>4, <1>6, <1>7
  <2>2. PICK sid : sid = heap[list[i]].session_id
    OBVIOUS
  <2>3. r.session_id # sid
    BY <1>2, <2>1, <2>2, MirrorTypes
  <2>4. UpsertsOf(sid, n + 1)' = UpsertsOf(sid, n)
    BY <2>3, UpdatesKept
  <2> QED BY <2>1, <2>2, <2>4 DEF TrackerMirrors
<1> QED BY <1>13, <1>14, MirrorFrom

(* What a record does to the snapshots.                                    *)
LEMMA MarksAre ==
  ASSUME NEW n \in Nat
  PROVE  Marks(n) \subseteq 1 .. n /\ IsFiniteSet(Marks(n)) /\ Cardinality(Marks(n)) \in Nat
<1>1. Marks(n) \subseteq 1 .. n
  BY DEF Marks
<1>2. IsFiniteSet(1 .. n)
  BY FS_Interval
<1>3. IsFiniteSet(Marks(n))
  BY <1>1, <1>2, FS_Subset
<1> QED BY <1>1, <1>3, FS_CardinalityType

LEMMA MarksKept ==
  ASSUME journal \in Seq(Record), NEW r \in Record, journal' = Append(journal, r),
         NEW n \in 0 .. Len(journal)
  PROVE  Marks(n)' = Marks(n)
<1>1. \A m \in 1 .. n : journal'[m] = journal[m]
  BY RecordsKept
<1> QED BY <1>1 DEF Marks

LEMMA MarksNow ==
  ASSUME journal \in Seq(Record), NEW r \in Record, journal' = Append(journal, r),
         NEW n \in Nat, n = Len(journal)
  PROVE  Cardinality(Marks(n + 1)') =
           IF r.type = "CHECKPOINT" THEN Cardinality(Marks(n)) + 1 ELSE Cardinality(Marks(n))
<1>1. /\ \A m \in 1 .. n : journal'[m] = journal[m]
      /\ journal'[n + 1] = r
  BY RecordsKept
<1>2. 1 .. n + 1 = 1 .. n \cup {n + 1} /\ n + 1 \notin 1 .. n
  OBVIOUS
<1>3. Marks(n + 1)' = IF r.type = "CHECKPOINT" THEN Marks(n) \cup {n + 1} ELSE Marks(n)
  <2>1. Marks(n + 1)' = {m \in 1 .. n \cup {n + 1} : journal'[m].type = "CHECKPOINT"}
    BY <1>2 DEF Marks
  <2>2. \A m : m \in Marks(n + 1)' <=>
                 m \in (IF r.type = "CHECKPOINT" THEN Marks(n) \cup {n + 1} ELSE Marks(n))
    BY <1>1, <2>1 DEF Marks
  <2> QED BY <2>2
<1>4. IsFiniteSet(Marks(n)) /\ n + 1 \notin Marks(n)
  BY <1>2, MarksAre
<1>5. Cardinality(Marks(n) \cup {n + 1}) = Cardinality(Marks(n)) + 1
  BY <1>4, FS_AddElement
<1> QED BY <1>3, <1>5

LEMMA CheckpointOnce ==
  ASSUME journal \in Seq(Record), NEW n, NEW m, NEW i,
         CheckpointsTo(n, i), CheckpointsTo(m, i)
  PROVE  n = m
<1>1. n \in 1 .. Len(journal) /\ m \in 1 .. Len(journal) /\ Len(journal) \in Nat
      /\ n \in Nat /\ m \in Nat
  BY DEF CheckpointsTo
<1>2. ASSUME NEW j \in Nat, NEW k \in Nat, j < k, CheckpointsTo(j, i), CheckpointsTo(k, i)
      PROVE  FALSE
  <2>1. Marks(j) \subseteq Marks(k) /\ k \in Marks(k) /\ k \notin Marks(j)
    <3>1. k \in 1 .. k /\ k \notin 1 .. j /\ 1 .. j \subseteq 1 .. k
      BY <1>2
    <3> QED BY <1>2, <3>1 DEF Marks, CheckpointsTo
  <2>2. Cardinality(Marks(j)) = Cardinality(Marks(k)) /\ IsFiniteSet(Marks(k))
    BY <1>2, MarksAre DEF CheckpointsTo
  <2>3. Marks(j) = Marks(k)
    BY <2>1, <2>2, FS_Subset
  <2> QED BY <2>1, <2>3
<1>3. ~(n < m) /\ ~(m < n)
  BY <1>1, <1>2
<1> QED BY <1>1, <1>3

LEMMA SnapshotKept ==
  ASSUME journal \in Seq(Record), NEW r \in Record, journal' = Append(journal, r),
         NEW i, SnapshotMirrors(i), log'[i] = log[i], taken'[i] = taken[i]
  PROVE  SnapshotMirrors(i)'
<1>1. PICK n \in Nat : CheckpointsTo(n, i) /\ IsChain(n, Seen(i))
  BY DEF SnapshotMirrors
<1>2. PICK c : c = Seen(i)
  OBVIOUS
<1>3. n \in 1 .. Len(journal) /\ n \in 0 .. Len(journal)
  BY <1>1, RecordsKept DEF CheckpointsTo
<1>4. CheckpointsTo(n, i)'
  <2>1. Marks(n)' = Marks(n)
    BY <1>3, MarksKept
  <2>2. journal'[n] = journal[n] /\ n \in DOMAIN journal'
    BY <1>3, RecordsKept
  <2> QED BY <1>1, <2>1, <2>2 DEF CheckpointsTo
<1>5. IsChain(n, c)'
  BY <1>1, <1>2, <1>3, ChainKept
<1>6. Seen(i)' = c
  BY <1>2 DEF Seen
<1>7. IsChain(n, Seen(i))'
  BY <1>5, <1>6 DEF IsChain
<1> QED BY <1>4, <1>7 DEF SnapshotMirrors

LEMMA LogUntouched ==
  ASSUME journal \in Seq(Record), NEW r \in Record, journal' = Append(journal, r),
         NEW n \in Nat, n = Len(journal), LogMirrors(n), UNCHANGED <<log, taken>>,
         r.type # "CHECKPOINT"
  PROVE  LogMirrors(n + 1)'
<1>1. Len(log') = Cardinality(Marks(n + 1)')
  BY MarksNow DEF LogMirrors
<1>2. \A i \in DOMAIN log : SnapshotMirrors(i)'
  BY SnapshotKept DEF LogMirrors
<1> QED BY <1>1, <1>2 DEF LogMirrors

LEMMA LogAppended ==
  ASSUME LogInv, journal \in Seq(Record), NEW r \in Record, journal' = Append(journal, r),
         NEW n \in Nat, n = Len(journal), TrackerMirrors(n), LogMirrors(n),
         r.type = "CHECKPOINT", Snapshot, status' # "IPMB_ERR_ALLOC"
  PROVE  LogMirrors(n + 1)'
<1>1. PICK snap, ts :
        /\ log' = Append(log, snap) /\ taken' = Append(taken, ts)
        /\ snap = [count |-> count, entries |-> list]
        /\ ts = [k \in 1 .. Len(list) |-> heap[list[k]]]
  BY DEF Snapshot, SnapshotTaken, SnapshotRefused
<1>2. PICK l \in Nat : l = Len(log)
  BY DEF LogInv, LogTypeOK
<1>3. /\ log \in Seq(Snap) /\ taken \in Seq(Seq(Entry)) /\ Len(taken) = l /\ Len(log) = l
      /\ count = Len(list)
  BY <1>2 DEF LogInv, LogTypeOK, TrackerInv, ChainOwnsHeap
<1>4. /\ Len(log') = l + 1 /\ DOMAIN log' = 1 .. l \cup {l + 1}
      /\ log'[l + 1] = snap /\ taken'[l + 1] = ts
      /\ \A i \in 1 .. l : i \in DOMAIN log /\ log'[i] = log[i] /\ taken'[i] = taken[i]
  <2>1. snap \in Snap
    <3>1. list \in Seq(Addr) /\ Len(list) \in Nat
      BY MirrorTypes
    <3> QED BY <1>1, <1>3, <3>1 DEF Snap
  <2>2. ts \in Seq(Entry)
    <3>1. \A k \in 1 .. Len(list) : heap[list[k]] \in Entry
      BY MirrorTypes
    <3>2. Len(list) \in Nat /\ ts = [k \in 1 .. Len(list) |-> heap[list[k]]]
      BY <1>1, MirrorTypes
    <3> QED BY <3>1, <3>2
  <2>3. log' = Append(log, snap) /\ taken' = Append(taken, ts)
    BY <1>1
  <2>4. 1 .. l + 1 = 1 .. l \cup {l + 1}
    OBVIOUS
  <2>5. Len(log') = l + 1 /\ DOMAIN log' = 1 .. l + 1
        /\ log'[l + 1] = snap
        /\ \A i \in 1 .. l : i \in DOMAIN log /\ log'[i] = log[i]
    <3>1. log \in Seq(Snap) /\ Len(log) = l /\ l \in Nat
      BY <1>3
    <3> QED BY <2>1, <2>3, <3>1
  <2>6. taken'[l + 1] = ts /\ \A i \in 1 .. l : taken'[i] = taken[i]
    BY <1>3, <2>2, <2>3
  <2> QED BY <2>4, <2>5, <2>6
<1>5. Cardinality(Marks(n + 1)') = l + 1
  BY <1>2, MarksNow DEF LogMirrors
<1>6. \A i \in 1 .. l : SnapshotMirrors(i)'
  BY <1>4, SnapshotKept DEF LogMirrors
<1>7. SnapshotMirrors(l + 1)'
  <2>1. CheckpointsTo(n + 1, l + 1)'
    <3>1. journal'[n + 1] = r /\ n + 1 \in DOMAIN journal'
      BY RecordsKept
    <3> QED BY <1>5, <3>1 DEF CheckpointsTo
  <2>2. PICK c : c = Sessions
    OBVIOUS
  <2>3. IsChain(n + 1, c)'
    <3>1. r.type \notin UpsertType /\ r.type # "TERMINATE"
      BY DEF UpsertType
    <3> QED BY <2>2, <3>1, ChainUntouched DEF TrackerMirrors
  <2>4. Seen(l + 1)' = c
    <3>1. DOMAIN ts = DOMAIN list /\ \A k \in DOMAIN list : ts[k] = heap[list[k]]
      BY <1>1, MirrorTypes
    <3>2. [k \in DOMAIN ts |-> ts[k].session_id] = c
      BY <2>2, <3>1 DEF Sessions
    <3> QED BY <1>4, <3>2 DEF Seen
  <2>5. IsChain(n + 1, Seen(l + 1))'
    BY <2>3, <2>4 DEF IsChain
  <2>6. Len(log'[l + 1].entries) = log'[l + 1].count
    BY <1>1, <1>3, <1>4
  <2>7. n + 1 \in Nat
    OBVIOUS
  <2> QED BY <2>1, <2>5, <2>6, <2>7 DEF SnapshotMirrors
<1> QED BY <1>4, <1>5, <1>6, <1>7 DEF LogMirrors

(* At the end: what the snapshots refer to is there, and is what the       *)
(* journal means.                                                          *)
LEMMA NothingStale ==
  ASSUME LogInv, CauseInv, NEW n \in Nat, LogMirrors(n), Ordered
  PROVE  ~HasStale /\ ~HasMissingArray /\ ~ReadsFree
<1>1. stale = {}
  BY DEF CauseInv
<1>2. \A i \in DOMAIN log : Len(log[i].entries) = log[i].count
  BY DEF LogMirrors, SnapshotMirrors
<1>3. ~HasMissingArray
  <2> SUFFICES ASSUME NEW i \in DOMAIN log, Len(log[i].entries) < log[i].count
               PROVE  FALSE
    BY DEF HasMissingArray
  <2>1. log[i] \in Snap
    BY DEF LogInv, LogTypeOK
  <2> QED BY <1>2, <2>1 DEF Snap
<1>4. ~ReadsFree
  BY <1>1 DEF ReadsFree, LogInv, SnapshotsHold
<1> QED BY <1>1, <1>3, <1>4 DEF HasStale

LEMMA SummaryIs ==
  ASSUME LogInv, CauseInv, journal \in Seq(Record), NEW n \in Nat, n = Len(journal),
         TrackerMirrors(n), LogMirrors(n), Ordered
  PROVE  Summarized = Meaning
<1>1. Len(log) \in Nat /\ DOMAIN log = 1 .. Len(log)
  BY DEF LogInv, LogTypeOK
<1>2. Checkpoints = Len(log)
  <2>1. {m \in DOMAIN journal : journal[m].type = "CHECKPOINT"} = Marks(n)
    BY DEF Marks
  <2> QED BY <2>1 DEF Checkpoints, LogMirrors
<1>3. ASSUME NEW i \in 1 .. Len(log)
      PROVE  [j \in 1 .. log[i].count |->
                LET e == heap[log[i].entries[j]] IN <<e.session_id, e.updates>>]
             = LET chain == ChainAt(CheckpointAt(i))
               IN [k \in DOMAIN chain |-> <<chain[k], Cardinality(UpsertsOf(chain[k], Len(journal)))>>]
  <2>1. PICK m \in Nat : CheckpointsTo(m, i) /\ IsChain(m, Seen(i))
    BY <1>1 DEF LogMirrors, SnapshotMirrors
  <2>2. CheckpointAt(i) = m
    <3>1. \A k \in DOMAIN journal :
            (/\ journal[k].type = "CHECKPOINT"
             /\ Cardinality({j \in 1 .. k : journal[j].type = "CHECKPOINT"}) = i)
            <=> CheckpointsTo(k, i)
      BY DEF CheckpointsTo, Marks
    <3>2. m \in DOMAIN journal /\ \A k \in DOMAIN journal : CheckpointsTo(k, i) => k = m
      BY <2>1, CheckpointOnce DEF CheckpointsTo
    <3> QED BY <2>1, <3>1, <3>2 DEF CheckpointAt
  <2>3. PICK l \in Nat : l = Len(taken[i]) /\ l = log[i].count /\ l = Len(log[i].entries)
                         /\ DOMAIN taken[i] = 1 .. l /\ DOMAIN log[i].entries = 1 .. l
    <3>1. log[i] \in Snap /\ i \in DOMAIN log /\ i \in DOMAIN taken /\ taken[i] \in Seq(Entry)
      BY <1>1 DEF LogInv, LogTypeOK
    <3>2. log[i].entries \in Seq(Addr)
      BY <3>1 DEF Snap
    <3>3. Len(log[i].entries) = log[i].count /\ Len(taken[i]) = Len(log[i].entries)
      BY <3>1 DEF LogMirrors, SnapshotMirrors, LogInv, SnapshotsWhole
    <3> QED BY <3>1, <3>2, <3>3
  <2>4. /\ \A j \in 1 .. l : <<i, j>> \in Refs
        /\ \A j \in 1 .. l : taken[i][j].session_id \in SessionId
        /\ \A j \in 1 .. l : Seen(i)[j] = taken[i][j].session_id
        /\ Seen(i) \in [1 .. l -> SessionId]
    <3>1. \A j \in 1 .. l : <<i, j>> \in Refs
      BY <1>1, <2>3 DEF Refs
    <3>2. \A j \in 1 .. l : taken[i][j].session_id \in SessionId
      <4>1. i \in DOMAIN taken /\ taken[i] \in Seq(Entry)
        BY <1>1 DEF LogInv, LogTypeOK
      <4>2. \A j \in 1 .. l : taken[i][j] \in Entry
        BY <2>3, <4>1
      <4> QED BY <4>2 DEF Entry
    <3> QED BY <2>3, <3>1, <3>2 DEF Seen
  <2>5. ChainAt(m) = Seen(i)
    BY <2>1, <2>4, ChainIs
  <2>6. ASSUME NEW j \in 1 .. l
        PROVE  LET e == heap[log[i].entries[j]]
               IN e.session_id = Seen(i)[j] /\ e.updates = Cardinality(UpsertsOf(Seen(i)[j], n))
    <3> DEFINE a == log[i].entries[j]
    <3>1. a \in Addr /\ heap[a] # Free /\ heap[a].session_id = Seen(i)[j]
      <4>1. <<i, j>> \in Refs /\ At(<<i, j>>) = a /\ stale = {}
        BY <2>4 DEF At, CauseInv
      <4>2. a \in Addr
        BY <4>1, RefTypes
      <4> QED BY <2>4, <4>1, <4>2 DEF LogInv, SnapshotsHold
    <3> HIDE DEF a
    <3>2. PICK k \in DOMAIN list : list[k] = a
      BY <3>1 DEF LogInv, TrackerInv, ChainOwnsHeap
    <3>3. heap[a].updates = Cardinality(UpsertsOf(heap[a].session_id, n))
      BY <3>2 DEF TrackerMirrors
    <3> QED BY <3>1, <3>3 DEF a
  <2>7. DOMAIN Seen(i) = 1 .. l
    BY <2>4
  <2> QED BY <2>2, <2>3, <2>5, <2>6, <2>7
<1> QED BY <1>2, <1>3 DEF Summarized, Meaning

LEMMA SameMeaning ==
  ASSUME journal' = journal
  PROVE  Meaning' = Meaning /\ (Ordered' <=> Ordered)
<1>1. \A n, sid : UpsertsOf(sid, n)' = UpsertsOf(sid, n)
  BY DEF UpsertsOf, Upserts, Terminates
<1> QED BY SameCauses DEF Meaning, Checkpoints, CheckpointAt, ChainAt, Live, Established,
                          UpsertsOf, Upserts, Terminates

LEMMA MirrorInitInv == ReplayInit => MirrorInv
<1> SUFFICES ASSUME ReplayInit
             PROVE  MirrorInv
  OBVIOUS
<1>1. /\ journal = <<>> /\ Len(journal) = 0 /\ event_count = 0 /\ phase = "replaying"
      /\ list = <<>> /\ DOMAIN list = {} /\ log = <<>> /\ Len(log) = 0 /\ DOMAIN log = {}
  BY DEF ReplayInit, LogInit, Init
<1>2. Live(0) = {} /\ Marks(0) = {}
  BY DEF Live, UpsertsOf, Marks
<1>3. IsChain(0, Sessions)
  <2>1. DOMAIN Sessions = {} /\ {} = 1 .. 0
    BY <1>1 DEF Sessions
  <2>2. \E m \in Nat : DOMAIN Sessions = 1 .. m
    BY <2>1
  <2> QED BY <1>2, <2>1, <2>2 DEF IsChain
<1>4. LogMirrors(0)
  BY <1>1, <1>2, FS_EmptySet DEF LogMirrors
<1>5. TrackerMirrors(0)
  BY <1>1, <1>3 DEF TrackerMirrors
<1> QED BY <1>1, <1>4, <1>5 DEF MirrorInv, SummaryFollowsJournal

LEMMA MirrorRecordInv ==
  ASSUME ReplayInv, MirrorInv, NEW r \in Record, Replay(r)
  PROVE  MirrorInv'
<1>1. /\ LogInv /\ journal \in Seq(Record) /\ journal' = Append(journal, r)
      /\ phase = "replaying" /\ phase' = "replaying" /\ event_count' = event_count + 1
  BY DEF ReplayInv, Replay
<1>2. PICK n \in Nat : n = Len(journal) /\ Len(journal') = n + 1
  BY <1>1, RecordsKept
<1>3. event_count' = Len(journal')
  BY <1>1, <1>2 DEF MirrorInv
<1>4. ASSUME unfailing'
      PROVE  TrackerMirrors(n + 1)' /\ LogMirrors(n + 1)'
  <2>1. unfailing /\ status' # "IPMB_ERR_ALLOC"
    BY <1>4 DEF Replay
  <2>2. TrackerMirrors(n) /\ LogMirrors(n)
    BY <1>1, <1>2, <2>1 DEF MirrorInv
  <2>3. CASE /\ r.type \in UpsertType
             /\ Upsert(r.session_id, r.peer_id, r.payload)
             /\ TrackerMoves({})
    <3>1. UNCHANGED <<log, taken>> /\ r.type # "CHECKPOINT"
      BY <2>3 DEF TrackerMoves, UpsertType
    <3> QED BY <1>1, <1>2, <2>1, <2>2, <2>3, <3>1, MirrorUpdated, MirrorLinked, LogUntouched
            DEF Upsert
  <2>4. CASE r.type = "CHECKPOINT" /\ Snapshot
    <3>1. UNCHANGED <<heap, list>> /\ r.type \notin UpsertType /\ r.type # "TERMINATE"
      BY <2>4 DEF Snapshot, SnapshotTaken, SnapshotRefused, UpsertType
    <3> QED BY <1>1, <1>2, <2>1, <2>2, <2>4, <3>1, MirrorUntouched, LogAppended
  <2>5. CASE /\ r.type = "TERMINATE"
             /\ Terminate(r.session_id)
             /\ TrackerMoves({r.session_id})
    <3>1. UNCHANGED <<log, taken>> /\ r.type \notin UpsertType \cup {"CHECKPOINT"}
      BY <2>5 DEF TrackerMoves, UpsertType
    <3>2. LogMirrors(n + 1)'
      BY <1>1, <1>2, <2>2, <3>1, LogUntouched
    <3>3. CASE TerminateKnown(r.session_id)
      BY <1>1, <1>2, <2>2, <2>5, <3>2, <3>3, MirrorUnlinked
    <3>4. CASE TerminateUnknown(r.session_id)
      BY <1>1, <1>2, <2>2, <2>5, <3>1, <3>2, <3>4, MirrorUntouched DEF TerminateUnknown
    <3> QED BY <2>5, <3>3, <3>4 DEF Terminate
  <2>6. CASE r.type \notin UpsertType \cup {"CHECKPOINT", "TERMINATE"} /\ UNCHANGED vars
    <3>1. UNCHANGED <<heap, list, log, taken>>
      BY <2>6 DEF vars
    <3> QED BY <1>1, <1>2, <2>2, <2>6, <3>1, MirrorUntouched, LogUntouched
  <2> QED BY <2>3, <2>4, <2>5, <2>6 DEF Replay
<1> QED BY <1>1, <1>2, <1>3, <1>4 DEF MirrorInv, SummaryFollowsJournal

(* The end, and a read that goes wrong.                                    *)
LEMMA MirrorEndInv ==
  ASSUME ReplayInv, CauseInv, MirrorInv, Finish \/ Crash
  PROVE  MirrorInv'
<1>1. /\ LogInv /\ journal \in Seq(Record) /\ journal' = journal
      /\ event_count' = event_count /\ unfailing' = unfailing
      /\ phase = "replaying" /\ phase' # "replaying"
  BY DEF ReplayInv, Finish, Crash
<1>2. PICK n \in Nat : n = Len(journal)
  BY <1>1
<1>3. ASSUME Ordered', unfailing'
      PROVE  phase' = "done" /\ hashed' = Meaning'
  <2>1. Ordered /\ Meaning' = Meaning
    BY <1>1, <1>3, SameMeaning
  <2>2. TrackerMirrors(n) /\ LogMirrors(n)
    BY <1>1, <1>2, <1>3 DEF MirrorInv
  <2>3. ~HasStale /\ ~HasMissingArray /\ ~ReadsFree
    BY <1>1, <2>1, <2>2, NothingStale
  <2>4. Finish
    BY <2>3 DEF Crash
  <2>5. Summarized = Meaning
    BY <1>1, <1>2, <2>1, <2>2, SummaryIs
  <2> QED BY <2>1, <2>3, <2>4, <2>5 DEF Finish
<1> QED BY <1>1, <1>3 DEF MirrorInv, SummaryFollowsJournal

LEMMA MirrorNextInv ==
  ReplayInv /\ CauseInv /\ MirrorInv /\ [ReplayNext]_replayVars => MirrorInv'
<1> SUFFICES ASSUME ReplayInv, CauseInv, MirrorInv, [ReplayNext]_replayVars
             PROVE  MirrorInv'
  OBVIOUS
<1>1. CASE UNCHANGED replayVars
  <2>1. UNCHANGED <<heap, list, log, taken, journal, event_count, hashed, phase, unfailing>>
    BY <1>1 DEF replayVars, vars
  <2>2. Meaning' = Meaning /\ (Ordered' <=> Ordered)
    BY <2>1, SameMeaning
  <2>3. \A n : (TrackerMirrors(n)' <=> TrackerMirrors(n)) /\ (LogMirrors(n)' <=> LogMirrors(n))
    BY <2>1 DEF TrackerMirrors, LogMirrors, SnapshotMirrors, CheckpointsTo, Marks, Seen,
                Sessions, IsChain, Live, Established, UpsertsOf, Upserts, Terminates
  <2> QED BY <2>1, <2>2, <2>3 DEF MirrorInv, SummaryFollowsJournal
<1> QED BY <1>1, MirrorRecordInv, MirrorEndInv DEF ReplayNext, Stopped

(* A replay in which no allocation fails, of a journal that terminates no  *)
(* session a checkpoint saw, ends, and its summary is what the journal     *)
(* means, for any journal and whatever addresses the allocator hands out.  *)
THEOREM SummaryFollowsJournalAlways == ReplaySpec => []SummaryFollowsJournal
<1>1. ReplaySpec => []ReplayInv
  BY ReplayInitInv, ReplayNextInv, PTL DEF ReplaySpec
<1>2. ReplaySpec => []CauseInv
  BY <1>1, CauseInitInv, CauseNextInv, PTL DEF ReplaySpec
<1>3. ReplaySpec => []MirrorInv
  BY <1>1, <1>2, MirrorInitInv, MirrorNextInv, PTL DEF ReplaySpec
<1>4. MirrorInv => SummaryFollowsJournal
  BY DEF MirrorInv
<1> QED BY <1>3, <1>4, PTL

=============================================================================
