------------------------------- MODULE Checksum -------------------------------
(***************************************************************************)
(* The checksum (src/util/checksum.c), summed by a sender and, over what   *)
(* arrives, by a receiver that compares it with the stored one as          *)
(* ipmb_parse_message does (src/protocol/frame_reader.c).  Both sums are   *)
(* taken in step, bit by bit; a block may be summed in pieces, each from   *)
(* the sum of those before it.  On the way bytes that lie close together,  *)
(* of the block or of the stored sum, may be changed.                      *)
(***************************************************************************)
EXTENDS Endian

CONSTANTS
  SentByte,    \* bytes of a block
  Change,      \* bits of a byte that are changed on the way
  Burst,       \* bytes, from the first changed one, among which others may be
  MaxBlock     \* bound: bytes of a block

ASSUME ChecksumAssumption ==
  /\ SentByte \subseteq Octet
  /\ Change \subseteq Octet \ {{}}
  /\ Burst \in Nat \ {0}
  /\ MaxBlock \in Nat

VARIABLES
  block,     \* the bytes summed so far
  crc,       \* the sender's sum: crc in ipmb_crc32_extend, or what it returned
  got,       \* the receiver's
  bit,       \* shifts left for the byte
  hit,       \* where the first byte was changed, 0 if none was
  verdict    \* "returned", "summing", "accepted" or "refused"

crcVars == <<block, crc, got, bit, hit, verdict>>

Ones == 0 .. 31

(* a ^ b *)
Xor(a, b) == (a \ b) \cup (b \ a)

(* Seed 0, nothing summed. *)
CrcInit ==
  /\ block = <<>>
  /\ crc = {}
  /\ got = {}
  /\ bit = 0
  /\ hit = 0
  /\ verdict = "returned"

-----------------------------------------------------------------------------

(* 0xedb88320 *)
Poly == {31, 30, 29, 27, 26, 24, 23, 21, 20, 19, 15, 9, 8, 5}

(* w >> 1 *)
Down(w) == {b \in 0 .. 30 : b + 1 \in w}

(* Mutant: the mask is taken from the bit behind the one that goes. *)
BitStepLate(w) == IF 1 \in w THEN Xor(Down(w), Poly) ELSE Down(w)

BitStep(w) == IF 0 \in w THEN Xor(Down(w), Poly) ELSE Down(w)

(* Mutant: each piece is summed from the start. *)
SeededAnew(seed) == Ones

Seeded(seed) == Xor(seed, Ones)

(* ipmb_crc32_extend is called with the sum so far. *)
Extend ==
  /\ verdict = "returned"
  /\ crc' = Seeded(crc)
  /\ got' = Seeded(got)
  /\ verdict' = "summing"
  /\ UNCHANGED <<block, bit, hit>>

(* Whether the byte at place n may be changed. *)
InBurst(n) == hit = 0 \/ n - hit < Burst

(* The next byte, and the changed bits of it. *)
TakeByte(byte, change) ==
  /\ verdict = "summing"
  /\ bit = 0
  /\ Len(block) < MaxBlock
  /\ block' = Append(block, byte)
  /\ crc' = Xor(crc, byte)
  /\ got' = Xor(got, Xor(byte, change))
  /\ \/ change = {} /\ UNCHANGED hit
     \/ /\ change # {}
        /\ InBurst(Len(block) + 1)
        /\ hit' = IF hit = 0 THEN Len(block) + 1 ELSE hit
  /\ bit' = 8
  /\ UNCHANGED verdict

ShiftBit ==
  /\ bit > 0
  /\ crc' = BitStep(crc)
  /\ got' = BitStep(got)
  /\ bit' = bit - 1
  /\ UNCHANGED <<block, hit, verdict>>

Return ==
  /\ verdict = "summing"
  /\ bit = 0
  /\ crc' = Xor(crc, Ones)
  /\ got' = Xor(got, Ones)
  /\ verdict' = "returned"
  /\ UNCHANGED <<block, bit, hit>>

(* The sum is stored behind the block, arrives with these bits of byte k   *)
(* changed, and is compared.                                               *)
Compare(k, change) ==
  /\ verdict = "returned"
  /\ \/ change = {} /\ UNCHANGED hit
     \/ /\ change # {}
        /\ InBurst(Len(block) + k)
        /\ hit' = IF hit = 0 THEN Len(block) + k ELSE hit
  /\ LET stored == [StoreLe32(crc) EXCEPT ![k] = Xor(@, change)]
     IN verdict' = IF got = LoadLe32(stored) THEN "accepted" ELSE "refused"
  /\ UNCHANGED <<block, crc, got, bit>>

CrcNext ==
  \/ Extend
  \/ \E byte \in SentByte, change \in Change \cup {{}} : TakeByte(byte, change)
  \/ ShiftBit
  \/ Return
  \/ \E k \in 1 .. 4, change \in Change \cup {{}} : Compare(k, change)

CrcSpec == CrcInit /\ [][CrcNext]_crcVars

-----------------------------------------------------------------------------

(* The values of the table-driven build that were kept                     *)
(* (src/protocol/crc_table.c), as two halves of 16 bits.                   *)
ProbeTable ==
  <<<<\h0000, \h0000>>, <<\h7707, \h3096>>, <<\hee0e, \h612c>>, <<\h9909, \h51ba>>,
    <<\h076d, \hc419>>, <<\h706a, \hf48f>>, <<\he963, \ha535>>, <<\h9e64, \h95a3>>,
    <<\h0edb, \h8832>>, <<\h79dc, \hb8a4>>, <<\he0d5, \he91e>>, <<\h97d2, \hd988>>,
    <<\h09b6, \h4c2b>>, <<\h7eb1, \h7cbd>>, <<\he7b8, \h2d07>>, <<\h90bf, \h1d91>>>>

BitsOf(n) == {b \in 0 .. 15 : (n \div PowerOf(2, b)) % 2 = 1}

(* ipmb_crc32_probe_value; the index is a word, of which four bits count. *)
ProbeValue(index) ==
  LET i == CHOOSE i \in 0 .. 15 : BitsOf(i) = index \cap (0 .. 3)
  IN BitsOf(ProbeTable[i + 1][2]) \cup Up(BitsOf(ProbeTable[i + 1][1]), 16)

(* The generator of CRC-32, by the degrees of its terms. *)
Generator == {32, 26, 23, 22, 16, 12, 11, 10, 8, 7, 5, 4, 2, 1, 0}

(* The bits of a block, in the order they are sent. *)
Sent(bytes) == UNION {Up(bytes[k], 8 * (k - 1)) : k \in DOMAIN bytes}

(* The generator is subtracted under the bit at place i if that is set. *)
DividedAt(rest, i) ==
  IF i \in rest THEN Xor(rest, {i + 32 - d : d \in Generator}) ELSE rest

(* What is left of a block when it is divided up to place n: 32 zeros are  *)
(* behind its bits, and the first 32 of all are turned over.               *)
RestAfter(bytes, n) ==
  LET rest[i \in 0 .. n] ==
        IF i = 0 THEN Xor(Sent(bytes), Ones) ELSE DividedAt(rest[i - 1], i - 1)
  IN rest[n]

(* The remainder of the division of a block by the generator, turned over. *)
CrcOf(bytes) ==
  LET last == 8 * Len(bytes)
  IN Xor({i - last : i \in RestAfter(bytes, last)}, Ones)

(* The eight turns of the inner loop at once. *)
ByteStep(w) ==
  LET turned[n \in 0 .. 8] == IF n = 0 THEN w ELSE BitStep(turned[n - 1])
  IN turned[8]

(* However a block is cut into pieces, and whatever is in it, the sum is   *)
(* the CRC-32 of the block; and the values of the older table are still    *)
(* what the four low bits add to the sum over a byte.                      *)
CrcIsRemainder ==
  /\ verdict = "returned" => crc = CrcOf(block)
  /\ bit = 8 =>
       ByteStep(crc) = Xor(ByteStep(crc \ (0 .. 3)), ProbeValue(crc \cap (0 .. 7)))

(* A block whose bytes were changed close together, or whose stored sum    *)
(* was, is refused, and no other is.                                       *)
DamageFound ==
  /\ verdict = "accepted" => hit = 0
  /\ verdict = "refused" => hit # 0

=============================================================================
