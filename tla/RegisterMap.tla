----------------------------- MODULE RegisterMap -----------------------------
(***************************************************************************)
(* The register map decoder (src/protocol/field_decoder.c): a header with  *)
(* a count of fields and the length of what else it holds, a table with    *)
(* the offset and length of each field, and a copy of the bytes of each.   *)
(*                                                                         *)
(* The offsets are checked from the start of the payload, and the bytes    *)
(* are copied from the end of the table.  mapReach is auxiliary: one more  *)
(* than the last byte that was copied from, counted from the start.  A     *)
(* copy from behind the payload need not return.                           *)
(***************************************************************************)
EXTENDS Reader, Sequences, FiniteSets

CONSTANTS
  ExtraHeader,     \* header_len: lengths of further headers
  FieldCount,      \* counts that headers claim
  FieldOffset,     \* offsets that the table claims
  FieldLength,     \* lengths that the table claims
  MaxFields        \* 512 in the code

Field == [offset : FieldOffset \cup {0}, length : FieldLength \cup {0}, bytes : BOOLEAN]

ASSUME RegisterAssumption ==
  /\ ExtraHeader \subseteq Nat
  /\ FieldCount \subseteq Nat
  /\ FieldOffset \subseteq Nat
  /\ FieldLength \subseteq Nat
  /\ MaxFields \in Nat
  /\ \A n \in FieldCount : NULL \notin [1 .. n -> Field]

MapHeaderLen == 10
TableRowLen == 4

VARIABLES
  map,         \* *out: field_count, and fields, an array or NULL
  mapLen,      \* payload_len
  mapCursor,   \* cursor - payload: where the table ends
  mapNext,     \* the field the loop is at
  mapStatus,   \* "idle", "parsing", "undefined", or what is returned
  mapHeap,     \* block 0, the array, and block i, the bytes of field i
  mapReach     \* auxiliary

mapVars == <<map, mapLen, mapCursor, mapNext, mapStatus, mapHeap, mapReach>>

NoField == [offset |-> 0, length |-> 0, bytes |-> FALSE]

EmptyMap == [field_count |-> 0, fields |-> NULL]

MapInit ==
  /\ map = EmptyMap
  /\ mapLen = 0
  /\ mapCursor = 0
  /\ mapNext = 1
  /\ mapStatus = "idle"
  /\ mapHeap = {}
  /\ mapReach = 0

MapBlocks(m) ==
  IF m.fields = NULL THEN {}
  ELSE {0} \cup {i \in 1 .. m.field_count : m.fields[i].bytes}

(* ipmb_register_map_free *)
MapFreed ==
  /\ map' = EmptyMap
  /\ mapHeap' = mapHeap \ MapBlocks(map)

(* The checks of the header, in their order. *)
MapHeaderStatus(len, magic, header_len, n) ==
  CASE len < MapHeaderLen -> "IPMB_ERR_SHORT_READ"
    [] ~magic -> "IPMB_ERR_BAD_MAGIC"
    [] n > MaxFields -> "IPMB_ERR_LIMIT"
    [] MapHeaderLen + header_len + n * TableRowLen > len -> "IPMB_ERR_SHORT_READ"
    [] OTHER -> "parsing"

(* field_count is stored only after the checks. *)
MapRefused(n, status) ==
  /\ mapStatus' = status
  /\ map' = [field_count |-> IF status = "IPMB_ERR_ALLOC" THEN n ELSE 0,
             fields |-> NULL]
  /\ UNCHANGED mapHeap

MapTaken(n) ==
  /\ mapStatus' = "parsing"
  /\ map' = [field_count |-> n, fields |-> [i \in 1 .. n |-> NoField]]
  /\ mapHeap' = {0}

ReadMapHeader(lengths) ==
  /\ mapStatus = "idle"
  /\ \E len \in lengths, header_len \in ExtraHeader, n \in FieldCount,
        magic \in BOOLEAN :
       LET status == MapHeaderStatus(len, magic, header_len, n)
       IN /\ mapLen' = len
          /\ mapCursor' = MapHeaderLen + header_len + n * TableRowLen
          /\ \/ status # "parsing" /\ MapRefused(n, status)
             \/ status = "parsing" /\ MapTaken(n)
             \/ status = "parsing" /\ AllocMayFail /\ MapRefused(n, "IPMB_ERR_ALLOC")
  /\ mapNext' = 1
  /\ mapReach' = 0

(* Mutant: the length of a field is not checked along with its offset. *)
FieldOffsetInside(off, len) == off <= mapLen

FieldInside(off, len) == off + len <= mapLen

FieldRefused(status) ==
  /\ mapStatus' = status
  /\ MapFreed
  /\ UNCHANGED <<mapNext, mapReach>>

FieldTaken(off, len) ==
  /\ map' = [map EXCEPT !.fields[mapNext] =
               [offset |-> off, length |-> len, bytes |-> TRUE]]
  /\ mapHeap' = mapHeap \cup {mapNext}
  /\ mapNext' = mapNext + 1
  /\ mapReach' = IF len > 0 /\ mapCursor + off + len > mapReach
                   THEN mapCursor + off + len ELSE mapReach
  /\ \/ UNCHANGED mapStatus
     \/ mapReach' > mapLen /\ mapStatus' = "undefined"

ReadField ==
  /\ mapStatus = "parsing"
  /\ mapNext <= map.field_count
  /\ \E off \in FieldOffset, len \in FieldLength :
       \/ ~FieldInside(off, len) /\ FieldRefused("IPMB_ERR_INVALID")
       \/ FieldInside(off, len) /\ FieldTaken(off, len)
       \/ FieldInside(off, len) /\ AllocMayFail /\ FieldRefused("IPMB_ERR_ALLOC")
  /\ UNCHANGED <<mapLen, mapCursor>>

MapDecoded ==
  /\ mapStatus = "parsing"
  /\ mapNext > map.field_count
  /\ mapStatus' = "IPMB_OK"
  /\ UNCHANGED <<map, mapLen, mapCursor, mapNext, mapHeap, mapReach>>

DecodeRegisterMap(lengths) == ReadMapHeader(lengths) \/ ReadField \/ MapDecoded

=============================================================================
