------------------------------ MODULE Utilities ------------------------------
(***************************************************************************)
(* The leaves of the library side by side: the codecs, the stores, the     *)
(* lexer of rules, the checksum and the tables.  They share no state, and  *)
(* a behaviour is one caller's use of one of them.                         *)
(***************************************************************************)
EXTENDS Codecs, Varint, Stores, RuleLexer, Checksum, Registries

VARIABLE utility

codecVars == <<rleVars, deltaVars, varintVars, bitVars>>
textVars == <<lexVars, crcVars, registryVars>>
vars == <<codecVars, storesVars, textVars, utility>>

Init ==
  /\ RleInit
  /\ DeltaInit
  /\ VarintInit
  /\ BitInit
  /\ StoresInit
  /\ LexInit
  /\ CrcInit
  /\ RegistryInit
  /\ utility \in {"rle", "delta", "varint", "bits", "stores", "lexer", "checksum", "registries"}
  /\ utility # "stores" => store = "histogram"

Use ==
  \/ /\ \/ utility = "rle" /\ RleNext /\ UNCHANGED <<deltaVars, varintVars, bitVars>>
        \/ utility = "delta" /\ DeltaNext /\ UNCHANGED <<rleVars, varintVars, bitVars>>
        \/ utility = "varint" /\ VarintNext /\ UNCHANGED <<rleVars, deltaVars, bitVars>>
        \/ utility = "bits" /\ BitNext /\ UNCHANGED <<rleVars, deltaVars, varintVars>>
     /\ UNCHANGED <<storesVars, textVars>>
  \/ utility = "stores" /\ StoresNext /\ UNCHANGED <<codecVars, textVars>>
  \/ /\ \/ utility = "lexer" /\ LexNext /\ UNCHANGED <<crcVars, registryVars>>
        \/ utility = "checksum" /\ CrcNext /\ UNCHANGED <<lexVars, registryVars>>
        \/ utility = "registries" /\ RegistryNext /\ UNCHANGED <<lexVars, crcVars>>
     /\ UNCHANGED <<codecVars, storesVars>>

Next == Use /\ UNCHANGED utility

Spec == Init /\ [][Next]_vars

=============================================================================
