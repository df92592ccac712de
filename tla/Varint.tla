-------------------------------- MODULE Varint --------------------------------
(***************************************************************************)
(* Variable-length integers (src/util/varint.c): groups of bits, lowest    *)
(* first, with a mark on every group but the last.  A group is a byte less *)
(* its mark.  Groups beyond the width of the integer lose their bits when  *)
(* they are shifted in.                                                    *)
(***************************************************************************)
EXTENDS Endian, FiniteSetsExt, Functions

CONSTANTS
  Group,           \* values of a group (2^7 in the code)
  Width,           \* values of an integer (2^64)
  MaxGroups,       \* groups the decoder looks at (10), as many as an integer has
  Room,            \* lengths of the encoder's buffer
  VarintWire       \* sequences of bytes that are decoded

ASSUME VarintAssumption ==
  /\ Group \in Nat \ {0, 1}
  /\ Width \in Nat \ {0}
  /\ MaxGroups \in Nat \ {0}
  /\ \E values \in 1 .. Group : Width = values * PowerOf(Group, MaxGroups - 1)
  /\ Room \subseteq Nat
  /\ VarintWire \subseteq Seq(0 .. 2 * Group - 1)

VARIABLES
  bytes,          \* what was encoded or is decoded
  value,          \* *value
  used,           \* *used
  varintStatus    \* "idle", or what the last call returned

varintVars == <<bytes, value, used, varintStatus>>

VarintInit == bytes = <<>> /\ value = 0 /\ used = 0 /\ varintStatus = "idle"

Marked(byte) == byte >= Group

(* What is left of a value when k groups are written. *)
Rest(v, k) ==
  LET left[i \in 0 .. k] == IF i = 0 THEN v ELSE left[i - 1] \div Group
  IN left[k]

Encoded(v) ==
  LET n == Min({k \in 1 .. MaxGroups : Rest(v, k) = 0})
  IN [k \in 1 .. n |-> (Rest(v, k - 1) % Group) + (IF k < n THEN Group ELSE 0)]

(* Mutant: the decoder looks at one group less. *)
EndsEarly(s) == {k \in 1 .. Min({Len(s), MaxGroups - 1}) : ~Marked(s[k])}

(* The places where a value may end. *)
Ends(s) == {k \in 1 .. Min({Len(s), MaxGroups}) : ~Marked(s[k])}

Decoded(s) ==
  SumFunction([k \in 1 .. Min(Ends(s)) |-> (s[k] % Group) * PowerOf(Group, k - 1)]) % Width

VarintEncode ==
  /\ varintStatus = "idle"
  /\ \E v \in 0 .. Width - 1, room \in Room :
       IF Len(Encoded(v)) > room
         THEN /\ varintStatus' = "IPMB_ERR_SHORT_READ"
              /\ bytes' = SubSeq(Encoded(v), 1, room)
              /\ UNCHANGED <<value, used>>
         ELSE /\ varintStatus' = "encoded"
              /\ bytes' = Encoded(v)
              /\ value' = v
              /\ used' = Len(bytes')

(* The bytes of a varint are followed by others. *)
VarintDecode ==
  /\ varintStatus \in {"idle", "encoded"}
  /\ bytes' \in IF varintStatus = "encoded" THEN {bytes, bytes \o <<Group>>} ELSE VarintWire
  /\ IF Ends(bytes') = {}
       THEN varintStatus' = "IPMB_ERR_SHORT_READ" /\ UNCHANGED <<value, used>>
       ELSE /\ varintStatus' = IF varintStatus = "encoded" THEN "round trip" ELSE "decoded"
            /\ value' = Decoded(bytes')
            /\ used' = Min(Ends(bytes'))

VarintNext == VarintEncode \/ VarintDecode

VarintSpec == VarintInit /\ [][VarintNext]_varintVars

(* A value is decoded from exactly the bytes it was encoded to, whatever   *)
(* follows them.  Bytes that nobody encoded are accepted in two more cases *)
(* only: the last group is a superfluous 0, or has bits beyond the width,  *)
(* which are dropped without an error; bytes without an end are refused.   *)
VarintFaithful ==
  /\ varintStatus = "round trip" => Encoded(value) = SubSeq(bytes, 1, used)
  /\ varintStatus = "decoded" =>
       \/ Encoded(value) = SubSeq(bytes, 1, used)
       \/ used > 1 /\ bytes[used] = 0
       \/ bytes[used] * PowerOf(Group, used - 1) >= Width
  /\ varintStatus = "IPMB_ERR_SHORT_READ" =>
       \/ \A k \in DOMAIN bytes : Marked(bytes[k])
       \/ Len(bytes) > MaxGroups

=============================================================================
