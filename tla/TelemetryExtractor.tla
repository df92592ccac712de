-------------------------- MODULE TelemetryExtractor --------------------------
(***************************************************************************)
(* The telemetry extractor (src/telemetry/extractor.c): a header with a    *)
(* count of points, an array of that many points, and two buffers of each, *)
(* its name and its value.  Block 0 of the heap is the array, blocks       *)
(* 2i - 1 and 2i are the name and the value of point i.                    *)
(***************************************************************************)
EXTENDS Reader, Sequences, FiniteSets

CONSTANTS
  PointCount,      \* counts that headers claim
  NameLength,      \* name lengths that points claim
  ValueLength,     \* value lengths that points claim
  MaxPoints        \* 2048 in the code

Point == [name : BOOLEAN, value : BOOLEAN, value_len : ValueLength \cup {0}]

ASSUME TelemetryAssumption ==
  /\ PointCount \subseteq Nat
  /\ NameLength \subseteq Nat
  /\ ValueLength \subseteq Nat
  /\ MaxPoints \in Nat
  /\ \A n \in PointCount : NULL \notin [1 .. n -> Point]

TelemetryHeaderLen == ReaderStart + 4

(* type, name_len, value_len: the fixed part of a point. *)
PointTypeLen == 1
NameLenLen == 2
ValueLenLen == 4

VARIABLES
  batch,        \* *out: point_count, and points, an array or NULL
  batchLen,     \* len
  batchPos,     \* r.pos, counted from the start of data
  batchNext,    \* the point the loop is at
  batchStatus,  \* "idle", "parsing", or what the extractor returned
  batchHeap     \* the blocks that are allocated

batchVars == <<batch, batchLen, batchPos, batchNext, batchStatus, batchHeap>>

NoPoint == [name |-> FALSE, value |-> FALSE, value_len |-> 0]

EmptyBatch == [point_count |-> 0, points |-> NULL]

BatchInit ==
  /\ batch = EmptyBatch
  /\ batchLen = 0
  /\ batchPos = 0
  /\ batchNext = 1
  /\ batchStatus = "idle"
  /\ batchHeap = {}

NameBlock(i) == 2 * i - 1
ValueBlock(i) == 2 * i

BatchBlocks(b) ==
  IF b.points = NULL THEN {}
  ELSE {0} \cup {NameBlock(i) : i \in {j \in 1 .. b.point_count : b.points[j].name}}
           \cup {ValueBlock(i) : i \in {j \in 1 .. b.point_count : b.points[j].value}}

(* ipmb_telemetry_batch_free *)
BatchFreed(b) ==
  /\ batch' = EmptyBatch
  /\ batchHeap' = batchHeap \ BatchBlocks(b)

BatchRefused(n, status) ==
  /\ batchStatus' = status
  /\ batch' = [point_count |-> n, points |-> NULL]
  /\ UNCHANGED batchHeap

BatchTaken(n) ==
  /\ batchStatus' = "parsing"
  /\ batch' = [point_count |-> n, points |-> [i \in 1 .. n |-> NoPoint]]
  /\ batchHeap' = {0}

ReadBatchHeader(lengths) ==
  /\ batchStatus = "idle"
  /\ \E len \in lengths, n \in PointCount, magic \in BOOLEAN :
       LET short == len < TelemetryHeaderLen \/ ~magic
       IN /\ batchLen' = len
          /\ \/ short /\ BatchRefused(0, "IPMB_ERR_BAD_MAGIC")
             \/ ~short /\ n > MaxPoints /\ BatchRefused(n, "IPMB_ERR_LIMIT")
             \/ ~short /\ n <= MaxPoints /\ BatchTaken(n)
             \/ /\ ~short /\ n <= MaxPoints /\ AllocMayFail
                /\ BatchRefused(n, "IPMB_ERR_ALLOC")
  /\ batchPos' = TelemetryHeaderLen
  /\ batchNext' = 1

PointSize(name_len, value_len) ==
  PointTypeLen + NameLenLen + name_len + ValueLenLen + value_len

PointShort ==
  /\ batchStatus' = "IPMB_ERR_SHORT_READ"
  /\ BatchFreed(batch)
  /\ UNCHANGED <<batchPos, batchNext>>

(* Mutant: the buffer that was allocated is not in *out when it is freed. *)
PointRefusedEarly(name, value) ==
  /\ ~(name /\ value)
  /\ batchStatus' = "IPMB_ERR_ALLOC"
  /\ batch' = EmptyBatch
  /\ batchHeap' = (batchHeap \ BatchBlocks(batch))
                    \cup (IF name THEN {NameBlock(batchNext)} ELSE {})
  /\ UNCHANGED <<batchPos, batchNext>>

(* The name and the value are both allocated, and both put in *out, before *)
(* either is looked at.                                                    *)
PointRefused(name, value) ==
  /\ ~(name /\ value)
  /\ batchStatus' = "IPMB_ERR_ALLOC"
  /\ BatchFreed([batch EXCEPT !.points[batchNext].name = name,
                              !.points[batchNext].value = value])
  /\ UNCHANGED <<batchPos, batchNext>>

PointTaken(name_len, value_len) ==
  /\ batch' = [batch EXCEPT !.points[batchNext] =
                 [name |-> TRUE, value |-> TRUE, value_len |-> value_len]]
  /\ batchHeap' = batchHeap \cup {NameBlock(batchNext), ValueBlock(batchNext)}
  /\ batchPos' = batchPos + PointSize(name_len, value_len)
  /\ batchNext' = batchNext + 1
  /\ UNCHANGED batchStatus

ReadPoint ==
  /\ batchStatus = "parsing"
  /\ batchNext <= batch.point_count
  /\ \E name_len \in NameLength, value_len \in ValueLength :
       LET fits == Fits(PointSize(name_len, value_len), batchPos, batchLen)
       IN \/ ~fits /\ PointShort
          \/ fits /\ PointTaken(name_len, value_len)
          \/ /\ fits /\ AllocMayFail
             /\ \E name, value \in BOOLEAN : PointRefused(name, value)
  /\ UNCHANGED batchLen

(* Mutant: the loop ends one point early. *)
BatchParsedEarly ==
  /\ batchStatus = "parsing"
  /\ batchNext >= batch.point_count
  /\ batchStatus' = "IPMB_OK"
  /\ UNCHANGED <<batch, batchLen, batchPos, batchNext, batchHeap>>

BatchParsed ==
  /\ batchStatus = "parsing"
  /\ batchNext > batch.point_count
  /\ batchStatus' = "IPMB_OK"
  /\ UNCHANGED <<batch, batchLen, batchPos, batchNext, batchHeap>>

ExtractTelemetry(lengths) == ReadBatchHeader(lengths) \/ ReadPoint \/ BatchParsed

=============================================================================
