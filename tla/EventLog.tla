------------------------------- MODULE EventLog -------------------------------
(***************************************************************************)
(* The event log (src/replay/event_log.c) over the session tracker: a      *)
(* growing array of snapshots.  A snapshot holds the addresses of the      *)
(* entries the chain had when it was taken, not their contents, and the    *)
(* tracker knows nothing of the log: it goes on updating, freeing and      *)
(* reusing those addresses.                                                *)
(*                                                                         *)
(* taken and stale are auxiliary: the code keeps neither.  They say what   *)
(* each snapshot saw, and which of its sessions have ended since.          *)
(***************************************************************************)
EXTENDS SessionTracker

CONSTANTS
  FirstCapacity,   \* snapshots the first growth makes room for (4 in the code)
  MaxSnapshots     \* bound: snapshots in the log

ASSUME LogAssumption ==
  /\ FirstCapacity \in Nat \ {0}
  /\ MaxSnapshots \in Nat

VARIABLES
  log,      \* log->snapshots[0 .. log->count - 1]
  logCap,   \* log->capacity
  taken,    \* auxiliary: the entries of each snapshot when it was taken
  stale     \* auxiliary: <<i, j>> when the session snapshot i saw at place j
            \* was terminated since, or its tracker freed

logVars == <<log, logCap, taken, stale>>
vars == <<heap, list, count, status, log, logCap, taken, stale>>

(* snap->entries of length 0 is an array of no entries or one that could   *)
(* not be allocated; snap->count tells the two apart.                      *)
Snap == [count : Nat, entries : Seq(Addr)]

LogInit ==
  /\ Init
  /\ log = <<>>
  /\ logCap = 0
  /\ taken = <<>>
  /\ stale = {}

LogTypeOK ==
  /\ TypeOK
  /\ log \in Seq(Snap)
  /\ logCap \in Nat
  /\ Len(log) <= logCap
  /\ taken \in Seq(Seq(Entry))
  /\ stale \subseteq (Nat \X Nat)

-----------------------------------------------------------------------------

Grown == IF logCap = 0 THEN FirstCapacity ELSE 2 * logCap

(* ipmb_event_log_snapshot.  The slot is counted before its array is       *)
(* allocated, so a failed calloc leaves a snapshot that claims entries and *)
(* has no array.                                                           *)
SnapshotTaken ==
  /\ \/ /\ log' = Append(log, [count |-> count, entries |-> list])
        /\ taken' = Append(taken, [k \in 1 .. Len(list) |-> heap[list[k]]])
        /\ status' = "IPMB_OK"
     \/ /\ AllocMayFail
        /\ log' = Append(log, [count |-> count, entries |-> <<>>])
        /\ taken' = Append(taken, <<>>)
        /\ status' = "IPMB_ERR_ALLOC"
  /\ logCap' = IF Len(log) = logCap THEN Grown ELSE logCap
  /\ UNCHANGED <<heap, list, count, stale>>

(* The array of snapshots cannot be grown: the log stays as it was. *)
SnapshotRefused ==
  /\ AllocMayFail
  /\ Len(log) = logCap
  /\ status' = "IPMB_ERR_ALLOC"
  /\ UNCHANGED <<heap, list, count, logVars>>

Snapshot ==
  /\ Len(log) < MaxSnapshots
  /\ SnapshotTaken \/ SnapshotRefused

(* ipmb_event_log_free releases the arrays; the entries are not its own. *)
FreeLog ==
  /\ log' = <<>>
  /\ logCap' = 0
  /\ taken' = <<>>
  /\ stale' = {}

Refs == UNION {{i} \X DOMAIN log[i].entries : i \in DOMAIN log}

At(ref) == log[ref[1]].entries[ref[2]]

(* A tracker call leaves the log alone; ended are the sessions it ends. *)
TrackerMoves(ended) ==
  /\ stale' = stale \cup
       {ref \in Refs : taken[ref[1]][ref[2]].session_id \in ended}
  /\ UNCHANGED <<log, logCap, taken>>

(* What ipmb_event_log_summarize reads and mixes into its hash, in order.  *)
(* It needs every array it walks.  Reading through an address that was     *)
(* freed is undefined, even when another entry has taken its place.        *)
HasMissingArray == \E i \in DOMAIN log : Len(log[i].entries) < log[i].count

HasStale == stale # {}

ReadsFree == \E ref \in Refs : heap[At(ref)] = Free

Summarized ==
  [i \in 1 .. Len(log) |->
     [j \in 1 .. log[i].count |->
        LET e == heap[log[i].entries[j]] IN <<e.session_id, e.updates>>]]

LogNext ==
  \/ \E sid \in SessionId, peer \in PeerId, payload \in Payload :
       Upsert(sid, peer, payload) /\ TrackerMoves({})
  \/ \E sid \in SessionId : Terminate(sid) /\ TrackerMoves({sid})
  \/ FreeTracker /\ TrackerMoves(SessionId)
  \/ Snapshot
  \/ FreeLog /\ UNCHANGED trackerVars

LogSpec == LogInit /\ [][LogNext]_vars

-----------------------------------------------------------------------------

(* An address in a snapshot stays good exactly as long as its session is   *)
(* not terminated: until then it holds the entry of the same session and   *)
(* peer, with every update the snapshot saw and the state it saw still     *)
(* first.  Nothing the tracker or the log does otherwise, growth of the    *)
(* array, reuse of other addresses, failed calls, moves the entry away.    *)
SnapshotsHold ==
  \A ref \in Refs \ stale :
    LET now == heap[At(ref)]
        was == taken[ref[1]][ref[2]]
    IN /\ now # Free
       /\ now.session_id = was.session_id
       /\ now.peer_id = was.peer_id
       /\ now.updates >= was.updates
       /\ Starts(was.state, now.state)

(* A snapshot lists each session it saw once, and either all the entries   *)
(* it counts or, when its array could not be allocated, none.              *)
SnapshotsWhole ==
  \A i \in DOMAIN log :
    /\ Len(taken[i]) = Len(log[i].entries)
    /\ \A j, k \in DOMAIN taken[i] :
         taken[i][j].session_id = taken[i][k].session_id => j = k
    /\ Len(log[i].entries) = log[i].count \/ (AllocMayFail /\ log[i].entries = <<>>)

=============================================================================
