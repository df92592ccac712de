-------------------------------- MODULE Stores --------------------------------
(***************************************************************************)
(* The histogram, and the three stores that grow beside it.  A caller uses *)
(* one of the four.                                                        *)
(***************************************************************************)
EXTENDS Naturals, Sequences, SequencesExt

(***************************************************************************)
(* The histogram (src/telemetry/histogram.c and the second half of         *)
(* src/telemetry/sample_buffer.c): bins that are counted up, reached by an *)
(* index and, through a schema, an offset that is added after the index    *)
(* was checked.                                                            *)
(*                                                                         *)
(* A write behind the bins leaves them alone or is the end of what can be  *)
(* said about the histogram: it is "undefined" from then on.               *)
(***************************************************************************)

CONSTANTS
  Buckets,       \* bucket counts that are asked for
  MaxBuckets,    \* 1000000 in the code
  Offsets,       \* offsets of schemas, 0 for no schema as well
  Indexes,       \* indexes of samples
  IndexWidth,    \* values of an index and of a bucket count (2^32)
  CountWidth,    \* values of a bin (2^32)
  MaxSamples,    \* bound: samples counted with one index and offset
  HistMayFail    \* whether calloc may return NULL

ASSUME HistogramAssumption ==
  /\ IndexWidth \in Nat \ {0} /\ CountWidth \in Nat \ {0}
  /\ Buckets \subseteq 0 .. IndexWidth - 1 /\ MaxBuckets \in Nat
  /\ Offsets \subseteq 0 .. IndexWidth - 1 /\ 0 \in Offsets
  /\ Indexes \subseteq 0 .. IndexWidth - 1
  /\ MaxSamples \in Nat
  /\ HistMayFail \in BOOLEAN

VARIABLES
  bins,           \* hist->bins, without a place if it is NULL
  bucket_count,   \* hist->bucket_count
  histState,      \* "ok" or "undefined"
  histStatus,     \* what the last call returned, IPMB_OK when it returns nothing
  counted         \* auxiliary: how often each index was counted with each offset

histVars == <<bins, bucket_count, histState, histStatus, counted>>

(* ipmb_histogram_schema_t; its bucket_count is never read. *)
Schema == [bin_offset : Offsets]

NoBins == [b \in {} |-> 0]
NoneCounted == [sample \in Indexes \X Offsets |-> 0]

(* A histogram that ipmb_histogram_free or a failed init has zeroed. *)
HistogramInit ==
  /\ bins = NoBins
  /\ bucket_count = 0
  /\ histState = "ok"
  /\ histStatus = "IPMB_OK"
  /\ counted = NoneCounted

(* ipmb_histogram_init *)
InitBins(n) ==
  /\ bucket_count = 0
  /\ \/ /\ n = 0 \/ n > MaxBuckets
        /\ histStatus' = "IPMB_ERR_LIMIT"
        /\ UNCHANGED <<bins, bucket_count>>
     \/ /\ n \in 1 .. MaxBuckets
        /\ HistMayFail
        /\ histStatus' = "IPMB_ERR_ALLOC"
        /\ UNCHANGED <<bins, bucket_count>>
     \/ /\ n \in 1 .. MaxBuckets
        /\ histStatus' = "IPMB_OK"
        /\ bins' = [b \in 0 .. n - 1 |-> 0]
        /\ bucket_count' = n
  /\ UNCHANGED <<histState, counted>>

FreeBins ==
  /\ bins' = NoBins
  /\ bucket_count' = 0
  /\ histStatus' = "IPMB_OK"
  /\ counted' = NoneCounted
  /\ UNCHANGED histState

(* ipmb_histogram_bin_incr *)
BinIncr(index) ==
  \/ /\ index \in DOMAIN bins
     /\ bins' = [bins EXCEPT ![index] = (@ + 1) % CountWidth]
     /\ UNCHANGED histState
  \/ /\ index \notin DOMAIN bins
     /\ histState' \in {"ok", "undefined"}
     /\ UNCHANGED bins

(* Mutant: an index may be the number of bins. *)
InRangeOrEqual(index) == index <= bucket_count

InRange(index) == index < bucket_count

(* ipmb_histogram_add_sample *)
AddSample(index, schema) ==
  LET offset == schema.bin_offset
  IN \/ /\ ~InRange(index)
        /\ histStatus' = "IPMB_ERR_LIMIT"
        /\ UNCHANGED <<bins, histState, counted>>
     \/ /\ InRange(index)
        /\ counted[<<index, offset>>] < MaxSamples
        /\ BinIncr((index + offset) % IndexWidth)
        /\ histStatus' = "IPMB_OK"
        /\ counted' = [counted EXCEPT ![<<index, offset>>] = @ + 1]

(* A caller's own call of bin_incr, which is for indexes of bins. *)
CountBin(index) ==
  /\ index \in DOMAIN bins
  /\ counted[<<index, 0>>] < MaxSamples
  /\ BinIncr(index)
  /\ histStatus' = "IPMB_OK"
  /\ counted' = [counted EXCEPT ![<<index, 0>>] = @ + 1]

HistogramNext ==
  /\ histState = "ok"
  /\ \/ \E n \in Buckets : InitBins(n)
     \/ FreeBins
     \/ /\ \E index \in Indexes :
             CountBin(index) \/ \E schema \in Schema : AddSample(index, schema)
        /\ UNCHANGED bucket_count

-----------------------------------------------------------------------------

Used == {sample \in DOMAIN counted : counted[sample] > 0}

CountedFrom(counts, b, i) ==
  IF <<i, b - i>> \in DOMAIN counts THEN counts[<<i, b - i>>] ELSE 0

(* How many samples were meant for bin b: those whose index and offset add *)
(* up to it.                                                               *)
CountedAt(counts, b) ==
  LET upTo[i \in 0 .. b] ==
        CountedFrom(counts, b, i) + (IF i = 0 THEN 0 ELSE upTo[i - 1])
  IN upTo[b]

(* A sample is only counted when its index is one of a bin, and as long as *)
(* no offset has carried one past the last bin (where it is written        *)
(* outside them or, when the sum wraps around, into another's bin) every   *)
(* bin has counted exactly the samples meant for it, modulo its width.     *)
SamplesCounted ==
  /\ \A s \in Used : s[1] < bucket_count
  /\ (\A s \in Used : s[1] + s[2] < bucket_count) =>
       /\ histState = "ok"
       /\ \A b \in DOMAIN bins : bins[b] = CountedAt(counted, b) % CountWidth

-----------------------------------------------------------------------------

(***************************************************************************)
(* The stores that grow: the sample buffer (src/telemetry/sample_buffer.c),*)
(* the time series (src/telemetry/timeseries.c) and the block storage      *)
(* (src/storage.c).                                                        *)
(*                                                                         *)
(* Each is an array that is reallocated to a larger one when it is full.   *)
(* A value is a byte, a sample or a block with its copy.  A value written  *)
(* past the end of the array is there or is lost.                          *)
(***************************************************************************)

CONSTANTS
  Value,          \* what a byte, a sample or a block may be
  Lost,           \* a value that was written past the end
  MaxPush,        \* bytes of one push at most
  SampleFirst,    \* the first capacity of a sample buffer (64)
  SeriesFirst,    \* of a time series (16)
  StorageFirst,   \* of a storage (8)
  MaxLen,         \* bound: values of a store
  StoreMayFail    \* whether malloc and realloc may return NULL

ASSUME StoresAssumption ==
  /\ Lost \notin Value
  /\ MaxPush \in Nat /\ MaxLen \in Nat
  /\ {SampleFirst, SeriesFirst, StorageFirst} \subseteq Nat \ {0}
  /\ StoreMayFail \in BOOLEAN

VARIABLES
  store,          \* "histogram", "samples", "series" or "blocks"
  data,           \* the used part of the array
  capacity,       \* the places it has
  index_out,      \* what ipmb_storage_put returned through it last
  storeStatus     \* what the last call returned, IPMB_OK when it returns nothing

arrayVars == <<data, capacity, index_out, storeStatus>>
storesVars == <<histVars, store, arrayVars>>

(* ipmb_timeseries_sample_t and ipmb_storage_block_t; a block is what its  *)
(* copy holds.                                                             *)
Sample == Value
Block == Value

StoresInit ==
  /\ HistogramInit
  /\ store \in {"histogram", "samples", "series", "blocks"}
  /\ data = <<>>
  /\ capacity = 0
  /\ index_out = 0
  /\ storeStatus = "IPMB_OK"

-----------------------------------------------------------------------------

Refused ==
  /\ StoreMayFail
  /\ storeStatus' = "IPMB_ERR_ALLOC"
  /\ UNCHANGED <<data, index_out>>

(* values are written behind the used ones, into an array of cap places. *)
Written(values, cap) ==
  /\ Len(data) + Len(values) <= MaxLen
  /\ \/ data' = data \o values
     \/ /\ Len(data) + Len(values) > cap
        /\ data' = data \o [k \in DOMAIN values |->
                              IF Len(data) + k <= cap THEN values[k] ELSE Lost]
  /\ storeStatus' = "IPMB_OK"

Doubled(first) == IF capacity = 0 THEN first ELSE 2 * capacity

(* Mutant: the capacity is doubled once, enough or not. *)
GrownOnceTo(need) == Doubled(SampleFirst)

(* The loop of a push that finds the next capacity. *)
GrownTo(need) ==
  LET grow[cap \in Nat] == IF cap < need THEN grow[2 * cap] ELSE cap
  IN grow[Doubled(SampleFirst)]

(* ipmb_sample_buffer_push *)
Push(bytes) ==
  LET need == Len(data) + Len(bytes)
  IN \/ need <= capacity /\ Written(bytes, capacity) /\ UNCHANGED <<capacity, index_out>>
     \/ /\ need > capacity
        /\ capacity' = GrownTo(need)
        /\ Written(bytes, capacity')
        /\ UNCHANGED index_out
     \/ need > capacity /\ Refused /\ UNCHANGED capacity

Full == Len(data) = capacity

(* ipmb_timeseries_add *)
AddPoint(sample) ==
  \/ ~Full /\ Written(<<sample>>, capacity) /\ UNCHANGED <<capacity, index_out>>
  \/ /\ Full
     /\ capacity' = Doubled(SeriesFirst)
     /\ Written(<<sample>>, capacity')
     /\ UNCHANGED index_out
  \/ Full /\ Refused /\ UNCHANGED capacity

(* ipmb_storage_put: the array is grown before the block is copied, and    *)
(* stays so when there is no memory for the copy.                          *)
PutBlock(block) ==
  \/ Full /\ Refused /\ UNCHANGED capacity
  \/ /\ capacity' = IF Full THEN Doubled(StorageFirst) ELSE capacity
     /\ \/ Refused
        \/ /\ Written(<<block>>, capacity')
           /\ index_out' \in {index_out, Len(data)}

(* The store is zeroed, as an init zeroes it. *)
Zeroed ==
  /\ data' = <<>>
  /\ capacity' = 0
  /\ storeStatus' = "IPMB_OK"
  /\ UNCHANGED index_out

(* ipmb_sample_buffer_free *)
FreeSamples == store = "samples" /\ Zeroed

(* ipmb_timeseries_free *)
FreeSeries == store = "series" /\ Zeroed

(* ipmb_storage_free: the copies go with the array. *)
FreeStorage == store = "blocks" /\ Zeroed

StoresNext ==
  \/ store = "histogram" /\ HistogramNext /\ UNCHANGED <<store, arrayVars>>
  \/ /\ \/ store = "samples" /\ \E bytes \in BoundedSeq(Value, MaxPush) : Push(bytes)
        \/ store = "series" /\ \E sample \in Sample : AddPoint(sample)
        \/ store = "blocks" /\ \E block \in Block : PutBlock(block)
        \/ FreeSamples \/ FreeSeries \/ FreeStorage
     /\ UNCHANGED <<store, histVars>>
  \/ histState = "undefined" /\ UNCHANGED storesVars

StoresSpec == StoresInit /\ [][StoresNext]_storesVars

-----------------------------------------------------------------------------

Promise == INSTANCE AppendOnly WITH
  kept <- data, place <- index_out, failed <- storeStatus # "IPMB_OK"

(* Each of the stores keeps what is put into it, whole, in order and at    *)
(* the place the caller was told, over every growth of its array, and a    *)
(* put that is reported as failed, before or after the growth, has changed *)
(* nothing.                                                                *)
ImplementsAppendOnly == Promise!Spec

=============================================================================
