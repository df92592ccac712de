----------------------------- MODULE ReplayEngine -----------------------------
(***************************************************************************)
(* ipmb_replay_journal (src/replay/replay_engine.c): the records of a      *)
(* journal drive a private session tracker and event log, then the log is  *)
(* summarized, and both are freed.                                         *)
(*                                                                         *)
(* The loop never looks ahead, so the journal is revealed one record at a  *)
(* time: journal is the part of it that was replayed.  The 64-bit hash of  *)
(* the summary is abstracted to what is mixed into it, in its order.       *)
(***************************************************************************)
EXTENDS EventLog, FiniteSets

CONSTANTS
  Record,       \* the records a journal is made of
  MaxRecords,   \* bound: records of a journal (4096 in the code)
  Garbage       \* a hash that mixed in what freed memory happened to hold

UpsertType == {"ESTABLISH", "UPDATE", "MIGRATE"}
RecordType == UpsertType \cup {"TERMINATE", "CHECKPOINT", "ROLLBACK"}

ASSUME ReplayAssumption ==
  /\ Record \subseteq [type : RecordType, session_id : SessionId,
                       peer_id : PeerId, payload : Payload]
  /\ MaxRecords \in Nat
  /\ Garbage \notin Seq(Seq(SessionId \X Nat))

VARIABLES
  journal,       \* the records replayed so far
  event_count,   \* summary->event_count
  hashed,        \* what summary->summary_hash was made of, Garbage if unknown
  phase,         \* "replaying", "done", or "crashed" on an invalid read
  unfailing      \* auxiliary: no allocation has failed

replayVars == <<vars, journal, event_count, hashed, phase, unfailing>>

Hash == Seq(Seq(SessionId \X Nat)) \cup {Garbage}

ReplayTypeOK ==
  /\ LogTypeOK
  /\ journal \in Seq(Record)
  /\ event_count \in Nat
  /\ hashed \in Hash
  /\ phase \in {"replaying", "done", "crashed"}
  /\ unfailing \in BOOLEAN

ReplayInit ==
  /\ LogInit
  /\ journal = <<>>
  /\ event_count = 0
  /\ hashed = <<>>
  /\ phase = "replaying"
  /\ unfailing = TRUE

(* One turn of the loop.  The status of the call is dropped; a record of   *)
(* any other type only counts.                                             *)
Replay(r) ==
  /\ phase = "replaying"
  /\ Len(journal) < MaxRecords
  /\ \/ /\ r.type \in UpsertType
        /\ Upsert(r.session_id, r.peer_id, r.payload)
        /\ TrackerMoves({})
     \/ /\ r.type = "CHECKPOINT"
        /\ Snapshot
     \/ /\ r.type = "TERMINATE"
        /\ Terminate(r.session_id)
        /\ TrackerMoves({r.session_id})
     \/ /\ r.type \notin UpsertType \cup {"CHECKPOINT", "TERMINATE"}
        /\ UNCHANGED vars
  /\ journal' = Append(journal, r)
  /\ event_count' = event_count + 1
  /\ unfailing' = (unfailing /\ status' # "IPMB_ERR_ALLOC")
  /\ UNCHANGED <<hashed, phase>>

(* After the last record: summarize, free the log, free the tracker.  What *)
(* is read through a freed address is anything: what the address holds now *)
(* if it was reused, or bytes that make no sense.                          *)
Finish ==
  /\ phase = "replaying"
  /\ ~HasMissingArray
  /\ \/ ~ReadsFree /\ hashed' = Summarized
     \/ HasStale /\ hashed' = Garbage
  /\ phase' = "done"
  /\ FreeTracker
  /\ FreeLog
  /\ UNCHANGED <<journal, event_count, unfailing>>

(* Nor does a read of freed memory, or through an array that was not       *)
(* allocated, have to return.                                              *)
Crash ==
  /\ phase = "replaying"
  /\ HasMissingArray \/ HasStale \/ ReadsFree
  /\ phase' = "crashed"
  /\ UNCHANGED <<vars, journal, event_count, hashed, unfailing>>

Stopped == phase # "replaying" /\ UNCHANGED replayVars

ReplayNext == (\E r \in Record : Replay(r)) \/ Finish \/ Crash \/ Stopped

ReplaySpec == ReplayInit /\ [][ReplayNext]_replayVars

-----------------------------------------------------------------------------

(* What a journal means, read off its records alone.                       *)
Terminates(sid, n) ==
  journal[n].type = "TERMINATE" /\ journal[n].session_id = sid

Upserts(sid, n) ==
  journal[n].type \in UpsertType /\ journal[n].session_id = sid

(* The upserts that count for a session after record n: those that no      *)
(* termination of the session follows, up to n.                            *)
UpsertsOf(sid, n) ==
  {m \in 1 .. n : Upserts(sid, m) /\ \A t \in m .. n : ~Terminates(sid, t)}

Live(n) == {sid \in SessionId : UpsertsOf(sid, n) # {}}

Established(sid, n) ==
  CHOOSE m \in UpsertsOf(sid, n) : \A k \in UpsertsOf(sid, n) : m <= k

(* The chain after record n: last established first. *)
ChainAt(n) ==
  [k \in 1 .. Cardinality(Live(n)) |->
     CHOOSE sid \in Live(n) :
       Cardinality({s \in Live(n) : Established(s, n) > Established(sid, n)}) = k - 1]

CheckpointAt(i) ==
  CHOOSE n \in DOMAIN journal :
    /\ journal[n].type = "CHECKPOINT"
    /\ Cardinality({m \in 1 .. n : journal[m].type = "CHECKPOINT"}) = i

Checkpoints == Cardinality({n \in DOMAIN journal : journal[n].type = "CHECKPOINT"})

(* For every checkpoint, the sessions alive there with the updates they    *)
(* have at the END of the journal: a snapshot refers, it does not copy.    *)
Meaning ==
  [i \in 1 .. Checkpoints |->
     LET chain == ChainAt(CheckpointAt(i))
     IN [k \in DOMAIN chain |->
           <<chain[k], Cardinality(UpsertsOf(chain[k], Len(journal)))>>]]

(* No session that a checkpoint saw is terminated later. *)
Ordered ==
  \A n, t \in DOMAIN journal :
    (n < t /\ journal[n].type = "CHECKPOINT") =>
       \A sid \in Live(n) : ~Terminates(sid, t)

(* Replaying a journal is deterministic wherever it is defined: when no    *)
(* allocation fails and no checkpointed session is terminated later, the   *)
(* replay completes, reads no freed memory, and its summary is a function  *)
(* of the journal alone, whatever addresses the allocator handed out.      *)
SummaryFollowsJournal ==
  (phase # "replaying" /\ Ordered /\ unfailing) =>
     /\ phase = "done"
     /\ hashed = Meaning
     /\ event_count = Len(journal)

(* A replay that completes leaves nothing allocated, whichever of its      *)
(* allocations failed on the way and whatever its records terminated.      *)
NothingLeft == phase = "done" => (\A a \in Addr : heap[a] = Free) /\ log = <<>>

(* A replay reads freed or missing memory for two reasons only: a session  *)
(* that a checkpoint saw was terminated by a later record, or the array of *)
(* a snapshot could not be allocated.  The other failed allocations, of an *)
(* entry, a state or the array of snapshots, are harmless although nothing *)
(* looks at the status they return.                                        *)
BadReadsExplained ==
  (phase = "crashed" \/ hashed = Garbage) =>
     \/ ~Ordered
     \/ \E i \in DOMAIN log : log[i].count > 0 /\ log[i].entries = <<>>

=============================================================================
