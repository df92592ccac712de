---------------------------- MODULE SessionTracker ----------------------------
(***************************************************************************)
(* The session tracker (src/session/session_tracker.c): a singly linked    *)
(* list of heap-allocated entries, one per session.                        *)
(*                                                                         *)
(* The heap is a function from addresses to what is stored there, Free     *)
(* where nothing is; an allocation may return any free address, one that   *)
(* was freed a moment ago included, which is how an allocator reuses       *)
(* memory.  The chain head -> next -> ... is the sequence of its           *)
(* addresses, and the bytes of a session's state are the sequence of the   *)
(* payloads appended to it.                                                *)
(***************************************************************************)
EXTENDS Naturals, Sequences

CONSTANTS
  SessionId,     \* session identifiers
  PeerId,        \* peer identifiers
  Chunk,         \* non-empty payloads
  NoChunk,       \* the payload of length 0
  Addr,          \* addresses the allocator hands out
  Free,          \* what an address holds when it is not allocated
  MaxUpdates,    \* bound: successful upserts of one entry
  AllocMayFail   \* whether malloc, calloc and realloc may return NULL

Entry == [session_id : SessionId, peer_id : PeerId,
          updates : Nat, state : Seq(Chunk)]

Payload == Chunk \cup {NoChunk}

Status == {"IPMB_OK", "IPMB_ERR_ALLOC", "IPMB_ERR_NOT_FOUND"}

ASSUME TrackerAssumption ==
  /\ NoChunk \notin Chunk
  /\ Free \notin Entry
  /\ MaxUpdates \in Nat
  /\ AllocMayFail \in BOOLEAN

VARIABLES
  heap,     \* what each address holds
  list,     \* the addresses of the chain, from tracker->head on
  count,    \* tracker->count
  status    \* what the last call that returns a status returned

trackerVars == <<heap, list, count, status>>

TypeOK ==
  /\ heap \in [Addr -> Entry \cup {Free}]
  /\ list \in Seq(Addr)
  /\ count \in Nat
  /\ status \in Status

(* ipmb_session_tracker_init on a heap that holds no entry. *)
Init ==
  /\ heap = [a \in Addr |-> Free]
  /\ list = <<>>
  /\ count = 0
  /\ status = "IPMB_OK"

-----------------------------------------------------------------------------

(* The walk of ipmb_session_find and of ipmb_session_terminate stops at    *)
(* place k: the first entry of the chain that has this session id.         *)
FoundAt(k, sid) ==
  /\ heap[list[k]].session_id = sid
  /\ \A m \in 1 .. k - 1 : heap[list[m]].session_id # sid

Known(sid) == \E k \in DOMAIN list : heap[list[k]].session_id = sid

(* A zeroed entry with its ids filled in. *)
NewEntry(sid, peer) ==
  [session_id |-> sid, peer_id |-> peer, updates |-> 0, state |-> <<>>]

(* Mutants: the payload replaces the state; an empty payload is no update. *)
UpdatedReplacing(entry, payload) ==
  [entry EXCEPT !.updates = @ + 1,
                !.state = IF payload = NoChunk THEN @ ELSE <<payload>>]

UpdatedByPayload(entry, payload) ==
  IF payload = NoChunk THEN entry
  ELSE [entry EXCEPT !.updates = @ + 1, !.state = Append(@, payload)]

(* What a successful upsert leaves in an entry. *)
Updated(entry, payload) ==
  [entry EXCEPT !.updates = @ + 1,
                !.state = IF payload = NoChunk THEN @ ELSE Append(@, payload)]

(* The chain without the entry at place k. *)
Unlink(k) ==
  [i \in 1 .. Len(list) - 1 |-> IF i < k THEN list[i] ELSE list[i + 1]]

(* Growing the state can fail only when there is a payload to append. *)
GrowthMayFail(payload) == AllocMayFail /\ payload # NoChunk

(* Mutants: the update is counted before the state is grown; a failed      *)
(* growth unlinks and frees the entry.                                     *)
UpsertKnownCountingFirst(sid, payload) ==
  \E k \in DOMAIN list :
    /\ FoundAt(k, sid)
    /\ heap[list[k]].updates < MaxUpdates
    /\ \/ /\ heap' = [heap EXCEPT ![list[k]] = Updated(@, payload)]
          /\ status' = "IPMB_OK"
       \/ /\ GrowthMayFail(payload)
          /\ status' = "IPMB_ERR_ALLOC"
          /\ heap' = [heap EXCEPT ![list[k]].updates = @ + 1]
    /\ UNCHANGED <<list, count>>

UpsertKnownDropping(sid, payload) ==
  \E k \in DOMAIN list :
    /\ FoundAt(k, sid)
    /\ heap[list[k]].updates < MaxUpdates
    /\ \/ /\ heap' = [heap EXCEPT ![list[k]] = Updated(@, payload)]
          /\ status' = "IPMB_OK"
          /\ UNCHANGED <<list, count>>
       \/ /\ GrowthMayFail(payload)
          /\ status' = "IPMB_ERR_ALLOC"
          /\ heap' = [heap EXCEPT ![list[k]] = Free]
          /\ list' = Unlink(k)
          /\ count' = count - 1

(* ipmb_session_upsert of a session the tracker knows.  The peer of the    *)
(* entry stays what it was; a failed growth leaves the entry as it was.    *)
UpsertKnown(sid, payload) ==
  \E k \in DOMAIN list :
    /\ FoundAt(k, sid)
    /\ heap[list[k]].updates < MaxUpdates
    /\ \/ /\ heap' = [heap EXCEPT ![list[k]] = Updated(@, payload)]
          /\ status' = "IPMB_OK"
       \/ /\ GrowthMayFail(payload)
          /\ status' = "IPMB_ERR_ALLOC"
          /\ UNCHANGED heap
    /\ UNCHANGED <<list, count>>

(* ipmb_session_upsert of an unknown session.  The entry is linked before  *)
(* its state is grown, so a failed growth leaves it in the chain, empty    *)
(* and with no update counted.                                             *)
UpsertNew(sid, peer, payload) ==
  /\ ~Known(sid)
  /\ MaxUpdates > 0
  /\ \/ \E a \in Addr :
          /\ heap[a] = Free
          /\ list' = <<a>> \o list
          /\ count' = count + 1
          /\ \/ /\ heap' = [heap EXCEPT
                              ![a] = Updated(NewEntry(sid, peer), payload)]
                /\ status' = "IPMB_OK"
             \/ /\ GrowthMayFail(payload)
                /\ heap' = [heap EXCEPT ![a] = NewEntry(sid, peer)]
                /\ status' = "IPMB_ERR_ALLOC"
     \/ /\ AllocMayFail
        /\ status' = "IPMB_ERR_ALLOC"
        /\ UNCHANGED <<heap, list, count>>

Upsert(sid, peer, payload) ==
  UpsertKnown(sid, payload) \/ UpsertNew(sid, peer, payload)

(* Mutants: the entry is not freed; the count is not adjusted. *)
TerminateLeaking(sid) ==
  \E k \in DOMAIN list :
    /\ FoundAt(k, sid)
    /\ list' = Unlink(k)
    /\ count' = count - 1
    /\ status' = "IPMB_OK"
    /\ UNCHANGED heap

TerminateUncounted(sid) ==
  \E k \in DOMAIN list :
    /\ FoundAt(k, sid)
    /\ list' = Unlink(k)
    /\ heap' = [heap EXCEPT ![list[k]] = Free]
    /\ status' = "IPMB_OK"
    /\ UNCHANGED count

(* ipmb_session_terminate: unlink the entry and free it. *)
TerminateKnown(sid) ==
  \E k \in DOMAIN list :
    /\ FoundAt(k, sid)
    /\ list' = Unlink(k)
    /\ count' = count - 1
    /\ heap' = [heap EXCEPT ![list[k]] = Free]
    /\ status' = "IPMB_OK"

TerminateUnknown(sid) ==
  /\ ~Known(sid)
  /\ status' = "IPMB_ERR_NOT_FOUND"
  /\ UNCHANGED <<heap, list, count>>

Terminate(sid) == TerminateKnown(sid) \/ TerminateUnknown(sid)

(* Mutant: only the head of the chain is freed. *)
FreeTrackerHead ==
  /\ heap' = [a \in Addr |-> IF list # <<>> /\ list[1] = a THEN Free ELSE heap[a]]
  /\ list' = <<>>
  /\ count' = 0
  /\ UNCHANGED status

(* ipmb_session_tracker_free: free every entry and clear the tracker. *)
FreeTracker ==
  /\ heap' = [a \in Addr |-> IF \E k \in DOMAIN list : list[k] = a
                             THEN Free ELSE heap[a]]
  /\ list' = <<>>
  /\ count' = 0
  /\ UNCHANGED status

Next ==
  \/ \E sid \in SessionId, peer \in PeerId, payload \in Payload :
       Upsert(sid, peer, payload)
  \/ \E sid \in SessionId : Terminate(sid)
  \/ FreeTracker

Spec == Init /\ [][Next]_trackerVars

-----------------------------------------------------------------------------

(* What is allocated is exactly what is on the chain, each entry once, and *)
(* tracker->count is the length of the chain: terminate and free release   *)
(* every entry they unlink and no other, and an upsert that fails halfway  *)
(* does not lose the entry it allocated.                                   *)
ChainOwnsHeap ==
  /\ \A a \in Addr : heap[a] # Free <=> \E k \in DOMAIN list : list[k] = a
  /\ \A j, k \in DOMAIN list : list[j] = list[k] => j = k
  /\ count = Len(list)

(* No session has two entries, so the first match of find and terminate is *)
(* the only one and a terminated session is really gone.                   *)
OneEntryPerSession ==
  \A j, k \in DOMAIN list :
    heap[list[j]].session_id = heap[list[k]].session_id => j = k

(* The bytes s are the first of the bytes t. *)
Starts(s, t) == Len(s) <= Len(t) /\ \A n \in 1 .. Len(s) : t[n] = s[n]

(* What ipmb_state_snapshot_capture (src/replay/state_snapshot.c) copies   *)
(* of an entry.                                                            *)
Captured(e) ==
  [session_id |-> e.session_id, updates |-> e.updates, state_len |-> Len(e.state)]

(* A call touches the entry of its own session only: whatever the          *)
(* allocator does, an entry that is still allocated after a step is the    *)
(* same session of the same peer with a state that was only appended to,   *)
(* by at most one payload and only together with a counted update; so a    *)
(* state snapshot tells every change of an entry from the one before it.   *)
EntriesOnlyGrow ==
  [][\A a \in Addr :
       LET old == heap[a]
           new == heap'[a]
       IN (old # Free /\ new # Free /\ new # old) =>
            /\ Captured(new).session_id = Captured(old).session_id
            /\ new.peer_id = old.peer_id
            /\ Captured(new).updates = Captured(old).updates + 1
            /\ Captured(new).state_len - Captured(old).state_len \in {0, 1}
            /\ Starts(old.state, new.state)
            /\ status' = "IPMB_OK"
    ]_trackerVars

(* The session map the tracker stands for; Free is its absent marker. *)
AddrOf(sid) == CHOOSE a \in Addr : heap[a] # Free /\ heap[a].session_id = sid

SessionsOf ==
  [sid \in SessionId |-> IF Known(sid) THEN heap[AddrOf(sid)] ELSE Free]

Map == INSTANCE SessionMap WITH sessions <- SessionsOf, Absent <- Free

(* The tracker implements the session map: every call is one step of the   *)
(* map or none, failed allocations included.                               *)
ImplementsMap == Map!Spec

=============================================================================
