------------------------------ MODULE Registries ------------------------------
(***************************************************************************)
(* The tables that are compiled in: the schema registry                    *)
(* (src/protocol/schema_registry.c), a list of fields that ends in a row   *)
(* with no id and is searched from the front, and two catalogs,            *)
(* src/protocol/protocol_spec.c and src/session/session_catalog.c, whose   *)
(* index is taken modulo their length.                                     *)
(*                                                                         *)
(* A table is what its rows say, by the number of the row; names and       *)
(* descriptions only repeat that number.                                   *)
(***************************************************************************)
EXTENDS Integers

CONSTANTS
  SchemaRows,    \* fields of the schema registry (4499)
  SpecRows,      \* entries of the protocol specification (900)
  CodeWidth,     \* values of a code (2^16)
  PresetRows,    \* session presets (260)
  FieldIdWanted, \* ids that are looked up
  CatalogIndex   \* indexes the catalogs are asked for

ASSUME RegistriesAssumption ==
  /\ SchemaRows \in Nat
  /\ CodeWidth \in Nat
  /\ SpecRows \in 1 .. CodeWidth
  /\ PresetRows \in Nat \ {0}
  /\ FieldIdWanted \subseteq Int
  /\ CatalogIndex \subseteq Nat

VARIABLES
  wantedId,    \* field_id, the argument of ipmb_schema_lookup
  row,         \* i
  lookup,      \* "idle", "scanning", "found" (row is returned) or "NULL"
  entry        \* which catalog was asked last, and the row it returned

registryVars == <<wantedId, row, lookup, entry>>

NoEntry == <<"none">>

RegistryInit ==
  /\ wantedId = 0
  /\ row = 0
  /\ lookup = "idle"
  /\ entry = NoEntry

-----------------------------------------------------------------------------

(* Field n: fields follow each other every four bytes of a block of 1024,  *)
(* and of every three the second is eight bytes wide.                      *)
SchemaField(n) ==
  [field_id  |-> n,
   offset    |-> (4 * n) % 1024,
   size      |-> IF n % 3 = 2 THEN 8 ELSE 4,
   data_type |-> IF n % 3 = 0 THEN 1 ELSE (n % 3) + 1]

(* ipmb_schema_field_t; the name repeats the id. *)
SchemaFieldType == [field_id : Nat, offset : Nat, size : Nat, data_type : Nat]

Sentinel == [field_id |-> 0, offset |-> 0, size |-> 0, data_type |-> 0]

(* ipmb_global_schema_registry[i] *)
SchemaEntry(i) == IF i < SchemaRows THEN SchemaField(i + 1) ELSE Sentinel

LookUp(id) ==
  /\ lookup # "scanning"
  /\ wantedId' = id
  /\ row' = 0
  /\ lookup' = "scanning"
  /\ UNCHANGED entry

(* Mutant: the search ends before the last field. *)
AtSentinelEarly == SchemaEntry(row + 1).field_id = 0

AtSentinel == SchemaEntry(row).field_id = 0

(* One turn of the loop of ipmb_schema_lookup. *)
ScanRow ==
  /\ lookup = "scanning"
  /\ IF AtSentinel
       THEN lookup' = "NULL" /\ UNCHANGED row
       ELSE IF SchemaEntry(row).field_id = wantedId
              THEN lookup' = "found" /\ UNCHANGED row
              ELSE row' = row + 1 /\ UNCHANGED lookup
  /\ UNCHANGED <<wantedId, entry>>

(* ipmb_protocol_spec_entry_t; the name and the description repeat the     *)
(* code.                                                                   *)
SpecEntry == [code : 0 .. CodeWidth - 1]

(* Row i of the protocol specification has code i. *)
SpecRow(i) == [code |-> i]

(* Row i of the session presets: segments of 4 to 15, checkpoints of 32 to *)
(* 95.                                                                     *)
Preset(i) == [segment |-> 4 + (i % 12), checkpoint |-> 32 + (i % 64)]

(* ipmb_protocol_spec_name *)
SpecName(index) ==
  /\ lookup # "scanning"
  /\ entry' = <<"spec", SpecRow(index % SpecRows)>>
  /\ UNCHANGED <<wantedId, row, lookup>>

(* ipmb_session_catalog_get *)
CatalogGet(index) ==
  /\ lookup # "scanning"
  /\ entry' = <<"preset", Preset(index % PresetRows)>>
  /\ UNCHANGED <<wantedId, row, lookup>>

RegistryNext ==
  \/ \E id \in FieldIdWanted : LookUp(id)
  \/ ScanRow
  \/ \E index \in CatalogIndex : SpecName(index) \/ CatalogGet(index)

RegistrySpec == RegistryInit /\ [][RegistryNext]_registryVars

-----------------------------------------------------------------------------

RegistryTypeOK ==
  /\ wantedId \in FieldIdWanted \cup {0}
  /\ row \in Nat
  /\ lookup \in {"idle", "scanning", "found", "NULL"}
  /\ lookup = "found" => SchemaEntry(row) \in SchemaFieldType
  /\ \/ entry = NoEntry
     \/ \E e \in SpecEntry : entry = <<"spec", e>>
     \/ \E i \in 0 .. PresetRows - 1 : entry = <<"preset", Preset(i)>>

(* A search never leaves the table, though only the row without an id      *)
(* stops it: it finds a field if and only if the registry has one of that  *)
(* id, the last as well as the first, returns that one, and finds none     *)
(* under the id of the row that ends the table.                            *)
LookupExact ==
  /\ row <= SchemaRows
  /\ lookup = "found" => /\ wantedId \in 1 .. SchemaRows
                         /\ SchemaEntry(row) = SchemaField(wantedId)
  /\ lookup = "NULL" => wantedId \notin 1 .. SchemaRows

=============================================================================
