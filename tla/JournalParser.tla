---------------------------- MODULE JournalParser ----------------------------
(***************************************************************************)
(* The journal parser (src/session/journal.c): a header with a count of    *)
(* records, an array of that many records, and a payload buffer of each.   *)
(* Block 0 of the heap is the array, block i the payload of record i.      *)
(***************************************************************************)
EXTENDS Reader, Sequences, FiniteSets

CONSTANTS
  JournalLength,   \* lengths of the buffers that are parsed
  RecordCount,     \* counts that headers claim
  RecordLength,    \* payload lengths that records claim
  MaxJournal       \* 4096 in the code

JournalRecord == [payload : BOOLEAN, payload_len : RecordLength \cup {0}]

ASSUME JournalAssumption ==
  /\ JournalLength \subseteq Nat
  /\ RecordCount \subseteq Nat
  /\ RecordLength \subseteq Nat
  /\ MaxJournal \in Nat
  /\ \A n \in RecordCount : NULL \notin [1 .. n -> JournalRecord]

JournalHeaderLen == ReaderStart + 4

(* type, session_id, peer_id and plen: the fixed part of a record. *)
RecordHeaderLen == 11

VARIABLES
  jrn,         \* *out: record_count, and records, an array or NULL
  jrnLen,      \* len
  jrnPos,      \* r.pos, counted from the start of data
  jrnNext,     \* the record the loop is at
  jrnStatus,   \* "idle", "parsing", or what the parser returned
  jrnHeap      \* the blocks that are allocated

jrnVars == <<jrn, jrnLen, jrnPos, jrnNext, jrnStatus, jrnHeap>>

NoRecord == [payload |-> FALSE, payload_len |-> 0]

EmptyJournal == [record_count |-> 0, records |-> NULL]

JournalInit ==
  /\ jrn = EmptyJournal
  /\ jrnLen = 0
  /\ jrnPos = 0
  /\ jrnNext = 1
  /\ jrnStatus = "idle"
  /\ jrnHeap = {}

JournalBlocks(j) ==
  IF j.records = NULL THEN {}
  ELSE {0} \cup {i \in 1 .. j.record_count : j.records[i].payload}

(* ipmb_journal_free *)
JournalFreed ==
  /\ jrn' = EmptyJournal
  /\ jrnHeap' = jrnHeap \ JournalBlocks(jrn)

JournalRefused(n, status) ==
  /\ jrnStatus' = status
  /\ jrn' = [record_count |-> n, records |-> NULL]
  /\ UNCHANGED jrnHeap

JournalTaken(n) ==
  /\ jrnStatus' = "parsing"
  /\ jrn' = [record_count |-> n, records |-> [i \in 1 .. n |-> NoRecord]]
  /\ jrnHeap' = {0}

ReadJournalHeader ==
  /\ jrnStatus = "idle"
  /\ \E len \in JournalLength, n \in RecordCount, magic \in BOOLEAN :
       LET short == len < JournalHeaderLen \/ ~magic
       IN /\ jrnLen' = len
          /\ \/ short /\ JournalRefused(0, "IPMB_ERR_BAD_MAGIC")
             \/ ~short /\ n > MaxJournal /\ JournalRefused(n, "IPMB_ERR_LIMIT")
             \/ ~short /\ n <= MaxJournal /\ JournalTaken(n)
             \/ /\ ~short /\ n <= MaxJournal /\ AllocMayFail
                /\ JournalRefused(n, "IPMB_ERR_ALLOC")
  /\ jrnPos' = JournalHeaderLen
  /\ jrnNext' = 1

RecordFailed(status) ==
  /\ jrnStatus' = status
  /\ JournalFreed
  /\ UNCHANGED <<jrnPos, jrnNext>>

RecordTaken(plen) ==
  /\ jrn' = [jrn EXCEPT !.records[jrnNext] = [payload |-> TRUE, payload_len |-> plen]]
  /\ jrnHeap' = jrnHeap \cup {jrnNext}
  /\ jrnPos' = jrnPos + RecordHeaderLen + plen
  /\ jrnNext' = jrnNext + 1
  /\ UNCHANGED jrnStatus

ReadRecord ==
  /\ jrnStatus = "parsing"
  /\ jrnNext <= jrn.record_count
  /\ \E plen \in RecordLength :
       LET fits == Fits(RecordHeaderLen + plen, jrnPos, jrnLen)
       IN \/ ~fits /\ RecordFailed("IPMB_ERR_SHORT_READ")
          \/ fits /\ RecordTaken(plen)
          \/ fits /\ AllocMayFail /\ RecordFailed("IPMB_ERR_ALLOC")
  /\ UNCHANGED jrnLen

JournalParsed ==
  /\ jrnStatus = "parsing"
  /\ jrnNext > jrn.record_count
  /\ jrnStatus' = "IPMB_OK"
  /\ UNCHANGED <<jrn, jrnLen, jrnPos, jrnNext, jrnHeap>>

ParseJournal == ReadJournalHeader \/ ReadRecord \/ JournalParsed

=============================================================================
