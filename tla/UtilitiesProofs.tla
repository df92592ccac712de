--------------------------- MODULE UtilitiesProofs ---------------------------
(***************************************************************************)
(* Proofs about the leaves; those about the run-length and delta codecs    *)
(* are in InboundProofs.                                                   *)
(*                                                                         *)
(* The checksum: damage within four neighbouring bytes is always found,    *)
(* whatever the bytes, however long the block and however it is cut.  The  *)
(* sum with the damage and the sum without differ in a bit that no later   *)
(* damage can reach: a difference that leaves at the bottom comes back in  *)
(* at the top, and is four bytes away from where it could be undone.  And  *)
(* the sum is the CRC-32: bit by bit it is what the division of the block  *)
(* leaves.                                                                 *)
(*                                                                         *)
(* The registry: its lookup is exact for a registry of any length; only    *)
(* the row without an id keeps the scan inside, and it does.               *)
(*                                                                         *)
(* The stores: they implement the append-only store.  The growth loop of a *)
(* sample buffer is a recursive function (GrowExists, GrowEnds).           *)
(* The histogram among them counts every sample where it was meant to.     *)
(*                                                                         *)
(* The lexer: its tokens are the first words of the text, whatever the     *)
(* text; the words are counted by how many start before them.              *)
(*                                                                         *)
(* Variable-length integers: a value is decoded from the bytes it was      *)
(* encoded to, for any width of integer and group, and no other value is;  *)
(* what is left behind some groups is a quotient, and quotients are unique.*)
(* The bit reader: the reads put together are a remainder of the bytes     *)
(* taken as one number, which gains the next bit when its modulus doubles. *)
(***************************************************************************)
EXTENDS Stores, Checksum, Registries, RuleLexer, Codecs, Varint, Recursion,
  SequenceTheorems, FiniteSetTheorems, TLAPS

(* Nothing exclusive to a set changes nothing. *)
LEMMA XorNothing ==
  ASSUME NEW a
  PROVE  Xor(a, {}) = a
  BY DEF Xor

LEMMA XorChanges ==
  ASSUME NEW a, NEW change, change # {}
  PROVE  Xor(a, change) # a
<1>1. PICK x : x \in change
  OBVIOUS
<1>2. x \in Xor(a, change) <=> x \notin a
  BY <1>1 DEF Xor
<1> QED BY <1>2

LEMMA XorWord ==
  ASSUME NEW a, NEW b, a \in Word32, b \in Word32
  PROVE  Xor(a, b) \in Word32
  BY DEF Xor, Word32

LEMMA XorOctet ==
  ASSUME NEW a, NEW b, a \in Octet, b \in Octet
  PROVE  Xor(a, b) \in Octet
  BY DEF Xor, Octet

LEMMA OctetFits == Octet \subseteq Word32
  BY DEF Octet, Word32

LEMMA BitStepBelow ==
  ASSUME NEW w \in Word32
  PROVE  BitStep(w) \in Word32
<1>1. Poly \in Word32
  BY DEF Poly, Word32
<1>2. Down(w) \in Word32
  BY DEF Down, Word32
<1>3. Xor(Down(w), Poly) \in Word32
  BY <1>1, <1>2, XorWord
<1>4. BitStep(w) = Xor(Down(w), Poly) \/ BitStep(w) = Down(w)
  BY DEF BitStep
<1> QED BY <1>2, <1>3, <1>4

-----------------------------------------------------------------------------

(* Each of four bytes can be found in the word they are loaded into. *)
LEMMA LoadedOctet ==
  ASSUME NEW p \in [1 .. 4 -> Octet], NEW k \in 1 .. 4
  PROVE  OctetAt(LoadLe32(p), 8 * (k - 1)) = p[k]
<1>1. ASSUME NEW b \in 0 .. 7, NEW j \in 1 .. 4
      PROVE  b + 8 * (k - 1) \in Up(p[j], 8 * (j - 1)) <=> j = k /\ b \in p[j]
  <2>1. p[j] \in SUBSET (0 .. 7)
    BY DEF Octet
  <2>2. ASSUME NEW c \in 0 .. 7
        PROVE  c + 8 * (j - 1) = b + 8 * (k - 1) <=> j = k /\ b = c
    OBVIOUS
  <2> QED BY <2>1, <2>2 DEF Up
<1>2. LoadLe32(p) = p[1] \cup Up(p[2], 8) \cup Up(p[3], 16) \cup Up(p[4], 24)
  BY DEF LoadLe32
<1>3. p[1] = Up(p[1], 8 * (1 - 1))
  BY DEF Up, Octet
<1>4. ASSUME NEW b \in 0 .. 7
      PROVE  b + 8 * (k - 1) \in LoadLe32(p) <=> b \in p[k]
  <2>1. b + 8 * (k - 1) \in LoadLe32(p) <=>
          \E j \in 1 .. 4 : b + 8 * (k - 1) \in Up(p[j], 8 * (j - 1))
    BY <1>2, <1>3
  <2> QED BY <1>1, <2>1
<1>5. p[k] \in SUBSET (0 .. 7)
  BY DEF Octet
<1> QED BY <1>4, <1>5 DEF OctetAt

(* What is stored is loaded again. *)
LEMMA StoredLoads ==
  ASSUME NEW w \in Word32
  PROVE  /\ StoreLe32(w) \in [1 .. 4 -> Octet]
         /\ \A k \in 1 .. 4 : StoreLe32(w)[k] = OctetAt(w, 8 * (k - 1))
         /\ LoadLe32(StoreLe32(w)) = w
<1>1. ASSUME NEW n
      PROVE  OctetAt(w, n) \in Octet
  BY DEF OctetAt, Octet
<1>2. StoreLe32(w) \in [1 .. 4 -> Octet]
  BY <1>1 DEF StoreLe32
<1>3. \A k \in 1 .. 4 : StoreLe32(w)[k] = OctetAt(w, 8 * (k - 1))
  BY DEF StoreLe32
<1>4. LoadLe32(StoreLe32(w)) =
        OctetAt(w, 0) \cup Up(OctetAt(w, 8), 8) \cup Up(OctetAt(w, 16), 16)
          \cup Up(OctetAt(w, 24), 24)
  BY DEF LoadLe32, StoreLe32
<1>5. ASSUME NEW n \in {0, 8, 16, 24}, NEW x
      PROVE  x \in Up(OctetAt(w, n), n) <=> x \in w /\ x \in n .. n + 7
  <2>1. ASSUME x \in n .. n + 7, x \in w
        PROVE  x \in Up(OctetAt(w, n), n)
    <3>1. x - n \in 0 .. 7 /\ (x - n) + n = x
      BY <2>1
    <3> QED BY <2>1, <3>1 DEF Up, OctetAt
  <2>2. ASSUME x \in Up(OctetAt(w, n), n)
        PROVE  x \in w /\ x \in n .. n + 7
    BY <2>2 DEF Up, OctetAt
  <2> QED BY <2>1, <2>2
<1>6. OctetAt(w, 0) = Up(OctetAt(w, 0), 0)
  BY DEF Up, OctetAt
<1>7. ASSUME NEW x
      PROVE  x \in LoadLe32(StoreLe32(w)) <=> x \in w
  <2>1. x \in w => \/ x \in 0 .. 0 + 7 \/ x \in 8 .. 8 + 7
                   \/ x \in 16 .. 16 + 7 \/ x \in 24 .. 24 + 7
    BY DEF Word32
  <2>2. x \in LoadLe32(StoreLe32(w)) <=>
          \/ x \in Up(OctetAt(w, 0), 0) \/ x \in Up(OctetAt(w, 8), 8)
          \/ x \in Up(OctetAt(w, 16), 16) \/ x \in Up(OctetAt(w, 24), 24)
    BY <1>4, <1>6
  <2> QED BY <1>5, <2>1, <2>2
<1> QED BY <1>2, <1>3, <1>7

LEMMA UnchangedStored ==
  ASSUME NEW w \in Word32, NEW k \in 1 .. 4
  PROVE  LoadLe32([StoreLe32(w) EXCEPT ![k] = Xor(@, {})]) = w
<1>1. StoreLe32(w) \in [1 .. 4 -> Octet]
  BY StoredLoads
<1>2. Xor(StoreLe32(w)[k], {}) = StoreLe32(w)[k]
  BY XorNothing
<1>3. [StoreLe32(w) EXCEPT ![k] = Xor(@, {})] = StoreLe32(w)
  BY <1>1, <1>2
<1> QED BY <1>3, StoredLoads

-----------------------------------------------------------------------------

(* A turn of the loop takes what is exclusive to what is exclusive. *)
LEMMA BitStepLinear ==
  ASSUME NEW v, NEW w
  PROVE  BitStep(Xor(v, w)) = Xor(BitStep(v), BitStep(w))
<1>1. ASSUME NEW x, NEW p, NEW q
      PROVE  x \in Xor(p, q) <=> ~(x \in p <=> x \in q)
  BY DEF Xor
<1>2. ASSUME NEW x, NEW u
      PROVE  x \in BitStep(u) <=> ~(x \in Down(u) <=> 0 \in u /\ x \in Poly)
  BY DEF BitStep, Xor
<1>3. ASSUME NEW x
      PROVE  x \in Down(Xor(v, w)) <=> ~(x \in Down(v) <=> x \in Down(w))
  BY <1>1 DEF Down
<1>4. ASSUME NEW x
      PROVE  x \in BitStep(Xor(v, w)) <=> x \in Xor(BitStep(v), BitStep(w))
  <2>1. x \in BitStep(Xor(v, w)) <=>
          ~(x \in Down(Xor(v, w)) <=> 0 \in Xor(v, w) /\ x \in Poly)
    BY <1>2
  <2>2. 0 \in Xor(v, w) <=> ~(0 \in v <=> 0 \in w)
    BY <1>1
  <2>3. x \in BitStep(v) <=> ~(x \in Down(v) <=> 0 \in v /\ x \in Poly)
    BY <1>2
  <2>4. x \in BitStep(w) <=> ~(x \in Down(w) <=> 0 \in w /\ x \in Poly)
    BY <1>2
  <2>5. x \in Xor(BitStep(v), BitStep(w)) <=> ~(x \in BitStep(v) <=> x \in BitStep(w))
    BY <1>1
  <2> QED BY <1>3, <2>1, <2>2, <2>3, <2>4, <2>5
<1> QED BY <1>4

LEMMA LoadedWord ==
  ASSUME NEW p \in [1 .. 4 -> Octet]
  PROVE  LoadLe32(p) \in Word32
<1>1. ASSUME NEW k \in 1 .. 4
      PROVE  p[k] \subseteq 0 .. 7
  BY DEF Octet
<1> QED BY <1>1 DEF LoadLe32, Up, Word32

(* A stored sum of which a byte was changed is loaded as another sum. *)
LEMMA OtherStored ==
  ASSUME NEW w \in Word32, NEW k \in 1 .. 4, NEW change \in Octet, change # {}
  PROVE  LoadLe32([StoreLe32(w) EXCEPT ![k] = Xor(@, change)]) # w
<1> DEFINE stored == [StoreLe32(w) EXCEPT ![k] = Xor(@, change)]
<1>1. StoreLe32(w) \in [1 .. 4 -> Octet] /\ StoreLe32(w)[k] = OctetAt(w, 8 * (k - 1))
  BY StoredLoads
<1>2. stored[k] = Xor(OctetAt(w, 8 * (k - 1)), change)
  BY <1>1
<1>3. Xor(StoreLe32(w)[k], change) \in Octet
  BY <1>1, XorOctet
<1>4. stored \in [1 .. 4 -> Octet]
  BY <1>1, <1>3
<1>5. stored[k] # OctetAt(w, 8 * (k - 1))
  BY <1>2, XorChanges
<1> HIDE DEF stored
<1>6. OctetAt(LoadLe32(stored), 8 * (k - 1)) = stored[k]
  BY <1>4, LoadedOctet
<1> QED BY <1>5, <1>6 DEF stored

(* A word in which byte k is stored with other bits differs from the one   *)
(* that was stored in no bit behind that byte.                             *)
LEMMA ChangedStored ==
  ASSUME NEW w \in Word32, NEW k \in 1 .. 4, NEW change \in Octet,
         NEW x \in Xor(w, LoadLe32([StoreLe32(w) EXCEPT ![k] = Xor(@, change)]))
  PROVE  x \in 0 .. 8 * k - 1
<1> DEFINE stored == [StoreLe32(w) EXCEPT ![k] = Xor(@, change)]
<1>1. /\ StoreLe32(w) \in [1 .. 4 -> Octet]
      /\ \A j \in 1 .. 4 : StoreLe32(w)[j] = OctetAt(w, 8 * (j - 1))
  BY StoredLoads
<1>2. stored \in [1 .. 4 -> Octet]
  <2>1. Xor(StoreLe32(w)[k], change) \in Octet
    BY <1>1, XorOctet
  <2> QED BY <1>1, <2>1
<1>3. \A j \in 1 .. 4 : j # k => stored[j] = OctetAt(w, 8 * (j - 1))
  BY <1>1
<1> HIDE DEF stored
<1>4. \A j \in 1 .. 4 : OctetAt(LoadLe32(stored), 8 * (j - 1)) = stored[j]
  BY <1>2, LoadedOctet
<1>5. LoadLe32(stored) \in Word32
  BY <1>2, LoadedWord
<1>6. x \in 0 .. 31 /\ ~(x \in w <=> x \in LoadLe32(stored))
  BY <1>5 DEF Xor, Word32, stored
<1>7. ASSUME NEW j \in 1 .. 4, x \in 8 * (j - 1) .. 8 * (j - 1) + 7
      PROVE  j = k
  <2> DEFINE n == 8 * (j - 1)
             b == x - n
  <2>1. b \in 0 .. 7 /\ b + n = x
    BY <1>7
  <2>2. ASSUME NEW v
        PROVE  b \in OctetAt(v, n) <=> x \in v
    BY <2>1 DEF OctetAt
  <2>3. OctetAt(w, n) # OctetAt(LoadLe32(stored), n)
    BY <1>6, <2>2
  <2> QED BY <1>3, <1>4, <2>3
<1>8. PICK j \in 1 .. 4 : x \in 8 * (j - 1) .. 8 * (j - 1) + 7
  <2>1. \/ x \in 8 * (1 - 1) .. 8 * (1 - 1) + 7 \/ x \in 8 * (2 - 1) .. 8 * (2 - 1) + 7
        \/ x \in 8 * (3 - 1) .. 8 * (3 - 1) + 7 \/ x \in 8 * (4 - 1) .. 8 * (4 - 1) + 7
    BY <1>6
  <2> QED BY <2>1
<1>9. j = k
  BY <1>7, <1>8
<1> QED BY <1>8, <1>9

(* What both have got drops out. *)
LEMMA XorTwice ==
  ASSUME NEW a, NEW b, NEW c
  PROVE  Xor(Xor(a, c), Xor(b, c)) = Xor(a, b)
<1>1. ASSUME NEW x, NEW p, NEW q
      PROVE  x \in Xor(p, q) <=> ~(x \in p <=> x \in q)
  BY DEF Xor
<1>2. ASSUME NEW x
      PROVE  x \in Xor(Xor(a, c), Xor(b, c)) <=> x \in Xor(a, b)
  BY <1>1
<1> QED BY <1>2

(* When one of them gets something more, they differ in that. *)
LEMMA XorAlike ==
  ASSUME NEW a, NEW b, NEW c, NEW d
  PROVE  Xor(Xor(a, c), Xor(b, Xor(c, d))) = Xor(Xor(a, b), d)
<1>1. ASSUME NEW x, NEW p, NEW q
      PROVE  x \in Xor(p, q) <=> ~(x \in p <=> x \in q)
  BY DEF Xor
<1>2. ASSUME NEW x
      PROVE  x \in Xor(Xor(a, c), Xor(b, Xor(c, d))) <=> x \in Xor(Xor(a, b), d)
  BY <1>1
<1> QED BY <1>2

LEMMA XorSame ==
  ASSUME NEW a, NEW b
  PROVE  Xor(a, b) = {} <=> a = b
<1>1. Xor(a, b) = {} <=> \A x : x \in a <=> x \in b
  BY DEF Xor
<1> QED BY <1>1

(* How far the word of 32 bits that begins with the first changed byte was *)
(* shifted out.                                                            *)
Shifted == 8 * (Len(block) - hit + 1) - bit

(* The sums differ in a bit that no later change of that word can reach:   *)
(* one of the byte being summed, or one where bits of the polynomial came  *)
(* in from above.                                                          *)
Differs(v, w, b, s) == ~(Xor(v, w) \subseteq b .. 31 - s)

(* As long as nothing was changed the two sums are equal, then they        *)
(* differ; and what the comparison said, it said of that.                  *)
SumsInv ==
  /\ block \in Seq(Octet)
  /\ crc \in Word32
  /\ got \in Word32
  /\ bit \in 0 .. 8
  /\ verdict \in {"returned", "summing", "accepted", "refused"}
  /\ verdict # "summing" => bit = 0
  /\ hit \in Nat
  /\ verdict \in {"returned", "summing"} =>
       /\ hit <= Len(block)
       /\ hit = 0 => crc = got
       /\ hit # 0 => Differs(crc, got, bit, Shifted)
  /\ verdict = "accepted" => hit = 0
  /\ verdict = "refused" => hit # 0

LEMMA SumsInit == CrcInit => SumsInv
  BY DEF CrcInit, SumsInv, Word32

(* Both sums are turned over: they differ where they did. *)
LEMMA TurnedOver ==
  ASSUME SumsInv, verdict \in {"returned", "summing"}, bit = 0,
         crc' = Xor(crc, Ones), got' = Xor(got, Ones),
         verdict' \in {"returned", "summing"}, UNCHANGED <<block, bit, hit>>
  PROVE  SumsInv'
<1>1. Ones \in Word32
  BY DEF Ones, Word32
<1>2. crc' \in Word32 /\ got' \in Word32
  BY <1>1, XorWord DEF SumsInv
<1>3. Xor(crc', got') = Xor(crc, got)
  <2>1. Xor(Xor(crc, Ones), Xor(got, Ones)) = Xor(crc, got)
    BY XorTwice
  <2> QED BY <2>1
<1>4. Differs(crc, got, bit, Shifted)' <=> Differs(crc, got, bit, Shifted)
  BY <1>3 DEF Differs, Shifted
<1> QED BY <1>2, <1>4 DEF SumsInv

LEMMA SumsExtend == SumsInv /\ Extend => SumsInv'
  BY TurnedOver DEF SumsInv, Extend, Seeded

LEMMA SumsReturn == SumsInv /\ Return => SumsInv'
  BY TurnedOver DEF SumsInv, Return

(* A bit that goes out puts one in at the top, where no change comes to.   *)
LEMMA StepsApart ==
  ASSUME NEW v \in Word32, NEW w \in Word32, NEW b \in 1 .. 8, NEW s \in Nat,
         Differs(v, w, b, s)
  PROVE  Differs(BitStep(v), BitStep(w), b - 1, s + 1)
<1> DEFINE u == Xor(v, w)
<1>1. u \in Word32 /\ BitStep(u) = Xor(BitStep(v), BitStep(w))
  BY XorWord, BitStepLinear
<1>2. ~(u \subseteq b .. 31 - s)
  BY DEF Differs
<1> HIDE DEF u
<1>3. ASSUME BitStep(u) \subseteq b - 1 .. 31 - (s + 1)
      PROVE  FALSE
  <2>1. 31 \notin BitStep(u)
    BY <1>3
  <2>2. 0 \notin u
    <3>1. 31 \in Poly /\ 31 \notin Down(u)
      BY DEF Poly, Down
    <3> QED BY <2>1, <3>1 DEF BitStep, Xor
  <2>3. BitStep(u) = Down(u)
    BY <2>2 DEF BitStep
  <2>4. ASSUME NEW x \in u
        PROVE  x \in b .. 31 - s
    <3>1. x \in 1 .. 31
      BY <1>1, <2>2 DEF Word32
    <3>2. x - 1 \in 0 .. 30 /\ (x - 1) + 1 = x
      BY <3>1
    <3>3. x - 1 \in Down(u)
      BY <3>2 DEF Down
    <3>4. x - 1 \in b - 1 .. 31 - (s + 1)
      BY <1>3, <2>3, <3>3
    <3> QED BY <3>1, <3>4
  <2> QED BY <1>2, <2>4
<1> QED BY <1>1, <1>3 DEF Differs

LEMMA SumsShift == SumsInv /\ ShiftBit => SumsInv'
<1> SUFFICES ASSUME SumsInv, ShiftBit
             PROVE  SumsInv'
  OBVIOUS
<1>1. /\ bit > 0 /\ crc' = BitStep(crc) /\ got' = BitStep(got) /\ bit' = bit - 1
      /\ UNCHANGED <<block, hit, verdict>>
  BY DEF ShiftBit
<1>2. crc' \in Word32 /\ got' \in Word32
  BY <1>1, BitStepBelow DEF SumsInv
<1>3. verdict = "summing" /\ bit' \in 0 .. 8
  BY <1>1 DEF SumsInv
<1>4. crc = got => crc' = got'
  BY <1>1
<1>5. hit # 0 => Differs(crc, got, bit, Shifted)'
  <2> SUFFICES ASSUME hit # 0
               PROVE  Differs(crc', got', bit', Shifted')
    BY DEF Differs
  <2>1. bit \in 1 .. 8 /\ Len(block) \in Nat /\ hit \in Nat /\ hit <= Len(block)
    BY <1>1, <1>3 DEF SumsInv
  <2>2. Shifted \in Nat /\ Shifted' = Shifted + 1
    BY <1>1, <2>1 DEF Shifted
  <2>3. Differs(crc, got, bit, Shifted) /\ crc \in Word32 /\ got \in Word32
    BY <1>3 DEF SumsInv
  <2>4. Differs(BitStep(crc), BitStep(got), bit - 1, Shifted + 1)
    BY <2>1, <2>2, <2>3, StepsApart
  <2> QED BY <1>1, <2>2, <2>4
<1> QED BY <1>1, <1>2, <1>3, <1>4, <1>5 DEF SumsInv

LEMMA SumsByte ==
  ASSUME Burst <= 4, NEW byte \in SentByte, NEW change \in Change \cup {{}},
         SumsInv, TakeByte(byte, change)
  PROVE  SumsInv'
<1>1. byte \in Octet /\ change \in Octet /\ change \subseteq 0 .. 7
  BY ChecksumAssumption DEF Octet
<1>2. /\ verdict = "summing" /\ verdict' = verdict /\ bit = 0 /\ bit' = 8
      /\ block' = Append(block, byte)
      /\ crc' = Xor(crc, byte) /\ got' = Xor(got, Xor(byte, change))
  BY DEF TakeByte
<1>3. block' \in Seq(Octet) /\ Len(block') = Len(block) + 1 /\ Len(block) \in Nat
  BY <1>1, <1>2 DEF SumsInv
<1>4. crc' \in Word32 /\ got' \in Word32
  <2>1. byte \in Word32 /\ Xor(byte, change) \in Word32
    BY <1>1, XorOctet, OctetFits
  <2>2. crc \in Word32 /\ got \in Word32
    BY DEF SumsInv
  <2>3. Xor(crc, byte) \in Word32
    BY <2>1, <2>2, XorWord
  <2>4. Xor(got, Xor(byte, change)) \in Word32
    BY <2>1, <2>2, XorWord
  <2> QED BY <1>2, <2>3, <2>4
<1>5. hit \in Nat /\ hit <= Len(block) /\ (hit = 0 => crc = got)
  BY <1>2 DEF SumsInv
<1>6. Xor(crc', got') = Xor(Xor(crc, got), change)
  BY <1>2, XorAlike
<1>7. CASE hit = 0 /\ change = {}
  <2>1. hit' = 0
    BY <1>7 DEF TakeByte
  <2>2. Xor(crc, got) = {}
    BY <1>5, <1>7, XorSame
  <2>3. crc' = got'
    BY <1>6, <1>7, <2>2, XorNothing, XorSame
  <2> QED BY <1>2, <1>3, <1>4, <2>1, <2>3 DEF SumsInv
<1>8. CASE hit = 0 /\ change # {}
  <2>1. hit' = Len(block) + 1
    BY <1>8 DEF TakeByte
  <2>2. Shifted' = 0
    BY <1>2, <1>3, <2>1 DEF Shifted
  <2>3. Xor(crc', got') = change
    <3>1. Xor(crc, got) = {}
      BY <1>5, <1>8, XorSame
    <3>2. Xor({}, change) = change
      BY DEF Xor
    <3> QED BY <1>6, <3>1, <3>2
  <2>4. Differs(crc', got', 8, 0)
    <3>1. PICK x : x \in change /\ x \in 0 .. 7
      BY <1>1, <1>8
    <3>2. x \notin 8 .. 31 - 0
      BY <3>1
    <3> QED BY <2>3, <3>1, <3>2 DEF Differs
  <2>5. Differs(crc, got, bit, Shifted)'
    BY <1>2, <2>2, <2>4 DEF Differs
  <2> QED BY <1>2, <1>3, <1>4, <2>1, <2>5 DEF SumsInv
<1>9. CASE hit # 0
  <2>1. hit' = hit
    BY <1>9 DEF TakeByte
  <2>2. Shifted' = Shifted /\ Shifted = 8 * (Len(block) - hit + 1)
    BY <1>2, <1>3, <1>5, <2>1 DEF Shifted
  <2>3. ~(Xor(crc, got) \subseteq 0 .. 31 - Shifted)
    BY <1>2, <1>9 DEF SumsInv, Differs
  <2>4. change \subseteq 0 .. 31 - Shifted
    <3>1. CASE change = {}
      BY <3>1
    <3>2. CASE change # {}
      <4>1. Len(block) + 1 - hit < Burst
        <5>1. InBurst(Len(block) + 1)
          BY <3>2 DEF TakeByte
        <5> QED BY <1>3, <1>5, <1>9, <5>1, ChecksumAssumption DEF InBurst
      <4>2. Len(block) + 1 - hit <= 3
        BY <1>3, <1>5, <4>1, ChecksumAssumption
      <4>3. 7 <= 31 - Shifted
        BY <1>3, <1>5, <2>2, <4>2
      <4>4. Shifted \in Int
        BY <1>3, <1>5, <2>2
      <4> QED BY <1>1, <4>3, <4>4
    <3> QED BY <3>1, <3>2
  <2>5. ~(Xor(crc', got') \subseteq 8 .. 31 - Shifted)
    <3>1. PICK x \in Xor(crc, got) : x \notin 0 .. 31 - Shifted
      BY <2>3
    <3>2. x \notin change
      BY <2>4, <3>1
    <3>3. x \in Xor(crc', got')
      BY <1>6, <3>1, <3>2 DEF Xor
    <3>4. x \notin 8 .. 31 - Shifted
      BY <3>1
    <3> QED BY <3>3, <3>4
  <2>6. Differs(crc, got, bit, Shifted)'
    BY <1>2, <2>2, <2>5 DEF Differs
  <2> QED BY <1>2, <1>3, <1>4, <1>5, <2>1, <2>6, <1>9 DEF SumsInv
<1> QED BY <1>7, <1>8, <1>9

LEMMA SumsCompare ==
  ASSUME Burst <= 4, NEW k \in 1 .. 4, NEW change \in Change \cup {{}},
         SumsInv, Compare(k, change)
  PROVE  SumsInv'
<1>1. change \in Octet
  BY ChecksumAssumption DEF Octet
<1> DEFINE stored == [StoreLe32(crc) EXCEPT ![k] = Xor(@, change)]
<1>2. /\ verdict = "returned" /\ UNCHANGED <<block, crc, got, bit>>
      /\ verdict' = IF got = LoadLe32(stored) THEN "accepted" ELSE "refused"
  BY DEF Compare
<1>3. /\ crc \in Word32 /\ got \in Word32 /\ bit = 0 /\ hit \in Nat /\ hit <= Len(block)
      /\ hit = 0 => crc = got
      /\ hit # 0 => Differs(crc, got, bit, Shifted)
      /\ Len(block) \in Nat
  BY <1>2 DEF SumsInv
<1>4. hit # 0 => crc # got
  <2>1. ASSUME crc = got
        PROVE  ~Differs(crc, got, bit, Shifted)
    BY <2>1, XorSame DEF Differs
  <2> QED BY <1>3, <2>1
<1>5. CASE change = {}
  <2>1. hit' = hit
    BY <1>5 DEF Compare
  <2>2. LoadLe32(stored) = crc
    BY <1>3, <1>5, UnchangedStored
  <2> HIDE DEF stored
  <2>3. verdict' = IF hit = 0 THEN "accepted" ELSE "refused"
    BY <1>2, <1>3, <1>4, <2>2
  <2> QED BY <1>2, <1>3, <2>1, <2>3 DEF SumsInv
<1>6. CASE change # {}
  <2>1. InBurst(Len(block) + k) /\ hit' = IF hit = 0 THEN Len(block) + k ELSE hit
    BY <1>6 DEF Compare
  <2>2. hit' \in Nat /\ hit' # 0
    BY <1>3, <2>1
  <2>3. ASSUME got = LoadLe32(stored)
        PROVE  FALSE
    <3>1. \A x \in Xor(crc, got) : x \in 0 .. 8 * k - 1
      BY <1>1, <1>3, <2>3, ChangedStored
    <3>2. CASE hit = 0
      <4>1. LoadLe32(stored) = crc
        BY <1>3, <2>3, <3>2
      <4> HIDE DEF stored
      <4> QED BY <1>1, <1>3, <1>6, <4>1, OtherStored DEF stored
    <3>3. CASE hit # 0
      <4>1. Len(block) + k - hit <= 3
        BY <1>3, <2>1, <3>3, ChecksumAssumption DEF InBurst
      <4>2. 8 * k - 1 <= 31 - Shifted /\ Shifted \in Int
        BY <1>3, <4>1 DEF Shifted
      <4>3. Xor(crc, got) \subseteq 0 .. 31 - Shifted
        BY <3>1, <4>2
      <4> QED BY <1>3, <3>3, <4>3 DEF Differs
    <3> QED BY <3>2, <3>3
  <2>4. verdict' = "refused"
    BY <1>2, <2>3
  <2> HIDE DEF stored
  <2> QED BY <1>2, <1>3, <2>2, <2>4 DEF SumsInv
<1> QED BY <1>5, <1>6

LEMMA SumsNext ==
  ASSUME Burst <= 4
  PROVE  SumsInv /\ [CrcNext]_crcVars => SumsInv'
<1> SUFFICES ASSUME SumsInv, [CrcNext]_crcVars
             PROVE  SumsInv'
  OBVIOUS
<1>1. CASE UNCHANGED crcVars
  BY <1>1 DEF crcVars, SumsInv, Differs, Shifted
<1> QED BY <1>1, SumsExtend, SumsReturn, SumsShift, SumsByte, SumsCompare DEF CrcNext

(* A block of any length, in any pieces, of which bytes were changed in    *)
(* any way, all within four neighbouring ones, the last of them perhaps of *)
(* the stored sum, is refused by the comparison of ipmb_parse_message, and *)
(* no other is.                                                            *)
THEOREM DamageFoundAlways ==
  ASSUME Burst <= 4
  PROVE  CrcSpec => []DamageFound
<1>1. SumsInv => DamageFound
  BY DEF SumsInv, DamageFound
<1> QED BY <1>1, SumsInit, SumsNext, PTL DEF CrcSpec

-----------------------------------------------------------------------------

(* Where the scan is: inside the table, behind rows that all have another  *)
(* id.  A lookup that has not begun is at row 0.                           *)
ScanInv ==
  /\ row \in 0 .. SchemaRows
  /\ wantedId \in Int
  /\ lookup \in {"scanning", "found", "NULL"} =>
       \A i \in 0 .. row - 1 : SchemaEntry(i).field_id # wantedId
  /\ lookup = "found" => row < SchemaRows /\ SchemaEntry(row).field_id = wantedId
  /\ lookup = "NULL" => row = SchemaRows

(* Row i has id i + 1, and the one behind the last has none. *)
LEMMA EntryIds ==
  ASSUME NEW i \in 0 .. SchemaRows
  PROVE  /\ i < SchemaRows => /\ SchemaEntry(i) = SchemaField(i + 1)
                              /\ SchemaEntry(i).field_id = i + 1
         /\ i = SchemaRows => SchemaEntry(i).field_id = 0
<1>1. i \in Nat /\ SchemaRows \in Nat
  BY RegistriesAssumption
<1>2. CASE i < SchemaRows
  BY <1>1, <1>2 DEF SchemaEntry, SchemaField
<1>3. CASE ~(i < SchemaRows)
  BY <1>1, <1>3 DEF SchemaEntry, Sentinel
<1> QED BY <1>1, <1>2, <1>3

LEMMA ScanInit == RegistryInit => ScanInv
  BY RegistriesAssumption DEF RegistryInit, ScanInv

LEMMA ScanNext == ScanInv /\ [RegistryNext]_registryVars => ScanInv'
<1> SUFFICES ASSUME ScanInv, [RegistryNext]_registryVars
             PROVE  ScanInv'
  OBVIOUS
<1>0. SchemaRows \in Nat
  BY RegistriesAssumption
<1>1. ASSUME NEW id \in FieldIdWanted, LookUp(id)
      PROVE  ScanInv'
  <2>1. id \in Int
    BY RegistriesAssumption
  <2> QED BY <1>0, <1>1, <2>1 DEF LookUp, ScanInv
<1>2. CASE ScanRow
  <2>1. /\ lookup = "scanning" /\ row \in 0 .. SchemaRows /\ wantedId' = wantedId
        /\ wantedId \in Int
    BY <1>2 DEF ScanRow, ScanInv
  <2>2. \A i \in 0 .. row - 1 : SchemaEntry(i).field_id # wantedId
    BY <2>1 DEF ScanInv
  <2>3. CASE AtSentinel
    <3>1. row = SchemaRows
      BY <1>0, <2>1, <2>3, EntryIds DEF AtSentinel
    <3>2. lookup' = "NULL" /\ row' = row
      BY <1>2, <2>3 DEF ScanRow
    <3> QED BY <2>1, <2>2, <3>1, <3>2 DEF ScanInv
  <2>4. CASE ~AtSentinel
    <3>1. row < SchemaRows
      BY <1>0, <2>1, <2>4, EntryIds DEF AtSentinel
    <3>2. CASE SchemaEntry(row).field_id = wantedId
      <4>1. lookup' = "found" /\ row' = row
        BY <1>2, <2>4, <3>2 DEF ScanRow
      <4> QED BY <2>1, <2>2, <3>1, <3>2, <4>1 DEF ScanInv
    <3>3. CASE SchemaEntry(row).field_id # wantedId
      <4>1. lookup' = "scanning" /\ row' = row + 1
        BY <1>2, <2>1, <2>4, <3>3 DEF ScanRow
      <4>2. row' \in 0 .. SchemaRows
        BY <1>0, <2>1, <3>1, <4>1
      <4>3. \A i \in 0 .. row' - 1 : SchemaEntry(i).field_id # wantedId
        <5> TAKE i \in 0 .. row' - 1
        <5>1. i = row \/ i \in 0 .. row - 1
          BY <1>0, <2>1, <4>1
        <5> QED BY <2>2, <3>3, <5>1
      <4> QED BY <2>1, <4>1, <4>2, <4>3 DEF ScanInv
    <3> QED BY <3>2, <3>3
  <2> QED BY <2>3, <2>4
<1>3. ASSUME NEW index \in CatalogIndex, SpecName(index) \/ CatalogGet(index)
      PROVE  ScanInv'
  BY <1>3 DEF SpecName, CatalogGet, ScanInv
<1>4. CASE UNCHANGED registryVars
  BY <1>4 DEF registryVars, ScanInv
<1> QED BY <1>1, <1>2, <1>3, <1>4 DEF RegistryNext

(* Which rows were passed decides whether the id is in the table. *)
LEMMA ScanTells == ScanInv => LookupExact
<1> SUFFICES ASSUME ScanInv
             PROVE  LookupExact
  OBVIOUS
<1>0. SchemaRows \in Nat /\ row \in 0 .. SchemaRows /\ wantedId \in Int
  BY RegistriesAssumption DEF ScanInv
<1>1. ASSUME lookup = "found"
      PROVE  wantedId \in 1 .. SchemaRows /\ SchemaEntry(row) = SchemaField(wantedId)
  <2>1. row < SchemaRows /\ SchemaEntry(row).field_id = wantedId
    BY <1>1 DEF ScanInv
  <2>2. wantedId = row + 1 /\ SchemaEntry(row) = SchemaField(row + 1)
    BY <1>0, <2>1, EntryIds
  <2> QED BY <1>0, <2>1, <2>2
<1>2. ASSUME lookup = "NULL"
      PROVE  wantedId \notin 1 .. SchemaRows
  <2>1. \A i \in 0 .. SchemaRows - 1 : SchemaEntry(i).field_id # wantedId
    BY <1>2 DEF ScanInv
  <2>2. SUFFICES ASSUME wantedId \in 1 .. SchemaRows
                 PROVE  FALSE
    OBVIOUS
  <2>3. wantedId - 1 \in 0 .. SchemaRows - 1 /\ wantedId - 1 < SchemaRows
    BY <1>0, <2>2
  <2>4. SchemaEntry(wantedId - 1).field_id = (wantedId - 1) + 1
    BY <1>0, <2>3, EntryIds
  <2> QED BY <1>0, <2>1, <2>3, <2>4
<1> QED BY <1>0, <1>1, <1>2 DEF LookupExact

(* A lookup stays inside the registry, finds the field of the id and no    *)
(* other, and finds nothing only where there is nothing (ipmb_schema_lookup). *)
THEOREM LookupIsExact == RegistrySpec => []LookupExact
<1> QED BY ScanInit, ScanNext, ScanTells, PTL DEF RegistrySpec

(* An index is brought into a catalog of any length. *)
LEMMA IndexInside ==
  ASSUME NEW index \in Nat, NEW rows \in Nat \ {0}
  PROVE  index % rows \in 0 .. rows - 1
  OBVIOUS

LEMMA FieldTyped ==
  ASSUME NEW n \in Nat
  PROVE  SchemaField(n) \in SchemaFieldType
<1> DEFINE place == 4 * n
           rest == n % 3
           size == IF rest = 2 THEN 8 ELSE 4
           type == IF rest = 0 THEN 1 ELSE rest + 1
<1>1. place \in Nat
  OBVIOUS
<1>2. rest \in 0 .. 3 - 1
  BY IndexInside
<1>3. size \in Nat /\ type \in Nat
  BY <1>2
<1>4. SchemaField(n) =
        [field_id |-> n, offset |-> place % 1024, size |-> size, data_type |-> type]
  BY DEF SchemaField
<1> HIDE DEF place, rest, size, type
<1>5. place % 1024 \in 0 .. 1024 - 1
  BY <1>1, IndexInside
<1> QED BY <1>3, <1>4, <1>5 DEF SchemaFieldType

(* What is said of the arguments and of the catalogs. *)
EntryInv ==
  /\ wantedId \in FieldIdWanted \cup {0}
  /\ lookup \in {"idle", "scanning", "found", "NULL"}
  /\ \/ entry = NoEntry
     \/ \E e \in SpecEntry : entry = <<"spec", e>>
     \/ \E i \in 0 .. PresetRows - 1 : entry = <<"preset", Preset(i)>>

LEMMA EntryInit == RegistryInit => EntryInv
  BY DEF RegistryInit, EntryInv

LEMMA EntryNext == EntryInv /\ [RegistryNext]_registryVars => EntryInv'
<1> SUFFICES ASSUME EntryInv, [RegistryNext]_registryVars
             PROVE  EntryInv'
  OBVIOUS
<1>1. ASSUME NEW id \in FieldIdWanted, LookUp(id)
      PROVE  EntryInv'
  BY <1>1 DEF LookUp, EntryInv
<1>2. CASE ScanRow
  BY <1>2 DEF ScanRow, EntryInv
<1>3. ASSUME NEW index \in CatalogIndex, SpecName(index)
      PROVE  EntryInv'
  <2>1. index \in Nat /\ SpecRows \in Nat \ {0} /\ SpecRows <= CodeWidth /\ CodeWidth \in Nat
    BY RegistriesAssumption
  <2> DEFINE code == index % SpecRows
  <2>2. code \in 0 .. SpecRows - 1
    BY <2>1, IndexInside
  <2>3. entry' = <<"spec", SpecRow(code)>>
    BY <1>3 DEF SpecName
  <2> HIDE DEF code
  <2>4. code \in 0 .. CodeWidth - 1
    BY <2>1, <2>2
  <2>5. SpecRow(code) \in SpecEntry
    BY <2>4 DEF SpecRow, SpecEntry
  <2> QED BY <1>3, <2>3, <2>5 DEF SpecName, EntryInv
<1>4. ASSUME NEW index \in CatalogIndex, CatalogGet(index)
      PROVE  EntryInv'
  <2>1. index \in Nat /\ PresetRows \in Nat \ {0}
    BY RegistriesAssumption
  <2>2. index % PresetRows \in 0 .. PresetRows - 1
    BY <2>1, IndexInside
  <2> QED BY <1>4, <2>2 DEF CatalogGet, EntryInv
<1>5. CASE UNCHANGED registryVars
  BY <1>5 DEF registryVars, EntryInv
<1> QED BY <1>1, <1>2, <1>3, <1>4, <1>5 DEF RegistryNext

LEMMA InvTypes == ScanInv /\ EntryInv => RegistryTypeOK
<1> SUFFICES ASSUME ScanInv, EntryInv
             PROVE  RegistryTypeOK
  OBVIOUS
<1>1. SchemaRows \in Nat /\ row \in 0 .. SchemaRows
  BY RegistriesAssumption DEF ScanInv
<1>2. ASSUME lookup = "found"
      PROVE  SchemaEntry(row) \in SchemaFieldType
  <2>1. row < SchemaRows
    BY <1>2 DEF ScanInv
  <2>2. SchemaEntry(row) = SchemaField(row + 1)
    BY <1>1, <2>1, EntryIds
  <2>3. row + 1 \in Nat
    BY <1>1
  <2> QED BY <2>2, <2>3, FieldTyped
<1>3. row \in Nat
  BY <1>1
<1> QED BY <1>2, <1>3 DEF EntryInv, RegistryTypeOK

(* Every lookup returns a row of its table, whatever the id or the index.  *)
THEOREM RegistryTypes == RegistrySpec => []RegistryTypeOK
<1> QED BY ScanInit, ScanNext, EntryInit, EntryNext, InvTypes, PTL DEF RegistrySpec

-----------------------------------------------------------------------------

LEMMA GrownToEnough ==
  ASSUME NEW need \in Nat, capacity \in Nat
  PROVE  GrownTo(need) \in Nat /\ GrownTo(need) >= need
<1> DEFINE g == CHOOSE g : IsGrow(g, need)
<1>1. IsGrow(g, need)
  BY GrowExists
<1>2. GrownTo(need) = g[Doubled(SampleFirst)]
  BY Zenon DEF GrownTo, IsGrow
<1>3. Doubled(SampleFirst) \in Nat \ {0}
  BY StoresAssumption DEF Doubled
<1> HIDE DEF g
<1> QED
  BY <1>1, <1>2, <1>3, GrowEnds

(* What is used of an array fits into it, so nothing is lost past its end. *)
ArrayInv ==
  /\ data \in Seq(Value)
  /\ capacity \in Nat
  /\ Len(data) <= capacity
  /\ index_out \in Nat

KeepsPromise == [Promise!Next]_<<data, index_out, storeStatus # "IPMB_OK">>

LEMMA ArrayInit == StoresInit => ArrayInv /\ Promise!Init
BY DEF StoresInit, ArrayInv, Promise!Init

(* Values that fit are put behind the others, where the promise has them. *)
LEMMA WrittenKeeps ==
  ASSUME ArrayInv, NEW values \in Seq(Value), Written(values, capacity'),
         capacity' \in Nat, Len(data) + Len(values) <= capacity',
         index_out' \in {index_out, Len(data)},
         values = <<>> => index_out' = index_out
  PROVE  /\ ArrayInv'
         /\ KeepsPromise
<1>1. data \in Seq(Value) /\ Len(data) \in Nat /\ Len(values) \in Nat
  BY DEF ArrayInv
<1>2. data' = data \o values
  BY <1>1 DEF Written
<1>3. data' \in Seq(Value) /\ Len(data') = Len(data) + Len(values)
  BY <1>1, <1>2
<1>4. ArrayInv'
  BY <1>1, <1>3 DEF ArrayInv
<1>5. SubSeq(data', 1, Len(data)) = SubSeq(data, 1, Len(data))
  <2>1. \A k \in 1 .. Len(data) : data'[k] = data[k]
    BY <1>1, <1>2
  <2> QED
    BY <1>1, <1>3, <2>1
<1>6. Promise!IsPrefix(data, data')
  BY <1>1, <1>3, <1>5 DEF Promise!IsPrefix
<1>7. index_out' = index_out \/ (data' # data /\ index_out' = Len(data))
  <2>1. values # <<>> => Len(data') # Len(data)
    BY <1>1, <1>3
  <2> QED
    BY <2>1
<1>8. storeStatus' = "IPMB_OK"
  BY DEF Written
<1> QED
  BY <1>3, <1>4, <1>6, <1>7, <1>8 DEF KeepsPromise, Promise!Next, Promise!Put

LEMMA RefusedKeeps ==
  ASSUME ArrayInv, Refused, capacity' \in Nat, capacity' >= capacity
  PROVE  /\ ArrayInv'
         /\ KeepsPromise
BY DEF Refused, ArrayInv, KeepsPromise, Promise!Next, Promise!Fail

LEMMA PushKeeps ==
  ASSUME ArrayInv, NEW pushed \in Seq(Value), Push(pushed)
  PROVE  ArrayInv' /\ KeepsPromise
<1> DEFINE need == Len(data) + Len(pushed)
<1>1. need \in Nat /\ capacity \in Nat
  BY DEF ArrayInv
<1>2. CASE need <= capacity /\ Written(pushed, capacity) /\ UNCHANGED <<capacity, index_out>>
  BY <1>1, <1>2, WrittenKeeps
<1>3. CASE need > capacity /\ capacity' = GrownTo(need) /\ Written(pushed, capacity')
           /\ UNCHANGED index_out
  <2>1. capacity' \in Nat /\ need <= capacity'
    <3> HIDE DEF need
    <3> QED
      BY <1>1, <1>3, GrownToEnough
  <2> QED
    BY <1>3, <2>1, WrittenKeeps
<1>4. CASE Refused /\ UNCHANGED capacity
  BY <1>1, <1>4, RefusedKeeps
<1> QED
  BY <1>2, <1>3, <1>4 DEF Push

LEMMA DoubledFits ==
  ASSUME ArrayInv, NEW first \in Nat \ {0}
  PROVE  Doubled(first) \in Nat /\ Doubled(first) > capacity
BY DEF ArrayInv, Doubled

LEMMA AddKeeps ==
  ASSUME ArrayInv, NEW sample \in Sample, AddPoint(sample)
  PROVE  ArrayInv' /\ KeepsPromise
<1>1. <<sample>> \in Seq(Value) /\ Len(<<sample>>) = 1 /\ <<sample>> # <<>>
  BY DEF Sample
<1>2. Doubled(SeriesFirst) \in Nat /\ Doubled(SeriesFirst) > capacity
  BY StoresAssumption, DoubledFits
<1>3. data \in Seq(Value) /\ Len(data) \in Nat /\ capacity \in Nat /\ Len(data) <= capacity
  BY DEF ArrayInv
<1>4. CASE ~Full /\ Written(<<sample>>, capacity) /\ UNCHANGED <<capacity, index_out>>
  <2>1. capacity' \in Nat /\ Len(data) + 1 <= capacity' /\ Written(<<sample>>, capacity')
    BY <1>3, <1>4 DEF Full
  <2> QED
    BY <1>1, <1>4, <2>1, WrittenKeeps
<1>5. CASE Full /\ capacity' = Doubled(SeriesFirst) /\ Written(<<sample>>, capacity')
           /\ UNCHANGED index_out
  <2>1. capacity' \in Nat /\ Len(data) + 1 <= capacity'
    BY <1>2, <1>3, <1>5 DEF Full
  <2> QED
    BY <1>1, <1>5, <2>1, WrittenKeeps
<1>6. CASE Refused /\ UNCHANGED capacity
  BY <1>3, <1>6, RefusedKeeps
<1> QED
  BY <1>4, <1>5, <1>6 DEF AddPoint

LEMMA BlockKeeps ==
  ASSUME ArrayInv, NEW new \in Block, PutBlock(new)
  PROVE  ArrayInv' /\ KeepsPromise
<1>1. <<new>> \in Seq(Value) /\ Len(<<new>>) = 1 /\ <<new>> # <<>>
  BY DEF Block
<1>2. Doubled(StorageFirst) \in Nat /\ Doubled(StorageFirst) > capacity
  BY StoresAssumption, DoubledFits
<1>3. data \in Seq(Value) /\ Len(data) \in Nat /\ capacity \in Nat /\ Len(data) <= capacity
  BY DEF ArrayInv
<1>4. CASE Refused /\ UNCHANGED capacity
  BY <1>3, <1>4, RefusedKeeps
<1>5. CASE capacity' = IF Full THEN Doubled(StorageFirst) ELSE capacity
  <2>1. capacity' \in Nat /\ Len(data) + 1 <= capacity'
    BY <1>2, <1>3, <1>5 DEF Full
  <2>2. CASE Refused
    BY <1>2, <1>3, <1>5, <2>1, <2>2, RefusedKeeps
  <2>3. CASE Written(<<new>>, capacity') /\ index_out' \in {index_out, Len(data)}
    BY <1>1, <2>1, <2>3, WrittenKeeps
  <2> QED
    BY <1>4, <2>2, <2>3 DEF PutBlock
<1> QED
  BY <1>4, <1>5 DEF PutBlock

LEMMA StoresKeep ==
  ArrayInv /\ [StoresNext]_storesVars => ArrayInv' /\ KeepsPromise
<1> SUFFICES ASSUME ArrayInv, [StoresNext]_storesVars
             PROVE  ArrayInv' /\ KeepsPromise
  OBVIOUS
<1>1. CASE UNCHANGED arrayVars
  BY <1>1 DEF arrayVars, ArrayInv, KeepsPromise
<1>2. CASE Zeroed
  <2>1. data' \in Seq(Value) /\ Len(data') = 0
    BY <1>2 DEF Zeroed
  <2> QED
    BY <1>2, <2>1 DEF Zeroed, ArrayInv, KeepsPromise, Promise!Next, Promise!Clear
<1>3. ASSUME NEW pushed \in BoundedSeq(Value, MaxPush), Push(pushed)
      PROVE  ArrayInv' /\ KeepsPromise
  <2>1. pushed \in Seq(Value)
    BY StoresAssumption DEF BoundedSeq, SeqOf
  <2> QED
    BY <1>3, <2>1, PushKeeps
<1> QED
  BY <1>1, <1>2, <1>3, AddKeeps, BlockKeeps
  DEF StoresNext, storesVars, FreeSamples, FreeSeries, FreeStorage

(* The three growing stores keep what is put into them where it was put,    *)
(* over every growth and every failure, for any capacities and lengths.    *)
THEOREM StoresImplementAppendOnly == StoresSpec => ImplementsAppendOnly
<1>1. StoresInit => Promise!Init
  BY ArrayInit
<1>2. StoresSpec => []ArrayInv
  BY ArrayInit, StoresKeep, PTL DEF StoresSpec
<1> QED
  BY <1>1, <1>2, StoresKeep, PTL DEF StoresSpec, ImplementsAppendOnly, KeepsPromise, Promise!Spec

-----------------------------------------------------------------------------

(* A piece of a piece.                                                     *)
LEMMA PieceOfPiece ==
  ASSUME NEW S, NEW s \in Seq(S), NEW i \in 1 .. Len(s), NEW e \in i .. Len(s),
         NEW n \in 1 .. e - i + 1
  PROVE  SubSeq(SubSeq(s, i, e), 1, n) = SubSeq(s, i, i + n - 1)
<1> DEFINE p == SubSeq(s, i, e)
           q == SubSeq(p, 1, n)
           r == SubSeq(s, i, i + n - 1)
<1>1. Len(s) \in Nat /\ i + n - 1 \in i .. Len(s) /\ i \in Nat /\ e \in Nat /\ n \in Nat
  OBVIOUS
<1>2. p \in Seq(S) /\ Len(p) = e - i + 1 /\ \A k \in 1 .. e - i + 1 : p[k] = s[i + k - 1]
  BY <1>1, SubSeqProperties, SMTT(30)
<1> HIDE DEF p
<1>3. q \in Seq(S) /\ Len(q) = n /\ \A k \in 1 .. n : q[k] = p[k]
  BY <1>1, <1>2, SubSeqProperties
<1>4. r \in Seq(S) /\ Len(r) = n /\ \A k \in 1 .. n : r[k] = s[i + k - 1]
  BY <1>1, SubSeqProperties
<1> HIDE DEF q, r
<1>5. ASSUME NEW k \in 1 .. n
      PROVE  q[k] = r[k]
  <2>1. k \in 1 .. e - i + 1
    BY <1>1
  <2> QED BY <1>2, <1>3, <1>4, <2>1
<1>6. q = r
  BY <1>3, <1>4, <1>5, SeqEqual
<1> QED BY <1>6 DEF q, r, p

(* Where a word starts and where it is over.                               *)
LEMMA WordFromIs ==
  ASSUME NEW S, ruleText \in Seq(S), NEW i \in 1 .. Len(ruleText) + 1
  PROVE  /\ WordFrom(i) \in i .. Len(ruleText) + 1
         /\ WordFrom(i) = Len(ruleText) + 1 \/ ~IsBlank(WordFrom(i))
         /\ \A k \in i .. WordFrom(i) - 1 : IsBlank(k)
<1> DEFINE n == Len(ruleText)
           T == {k \in i .. n : ~IsBlank(k)} \cup {n + 1}
<1>1. n \in Nat /\ T \in SUBSET Nat /\ n + 1 \in T
  OBVIOUS
<1>2. WordFrom(i) = Min(T)
  BY DEF WordFrom
<1> HIDE DEF T
<1>3. PICK m \in T : m = Min(T) /\ \A k \in T : m <= k
  BY <1>1, MinIs
<1>4. m \in i .. n + 1 /\ (m = n + 1 \/ ~IsBlank(m))
  BY <1>1, <1>3 DEF T
<1>5. ASSUME NEW k \in i .. m - 1
      PROVE  IsBlank(k)
  <2>1. k \in i .. n /\ ~(m <= k)
    BY <1>1, <1>4
  <2> QED BY <1>3, <2>1 DEF T
<1> QED BY <1>2, <1>3, <1>4, <1>5

LEMMA WordOverIs ==
  ASSUME NEW S, ruleText \in Seq(S), NEW i \in 1 .. Len(ruleText), ~IsBlank(i)
  PROVE  /\ WordOver(i) \in i + 1 .. Len(ruleText) + 1
         /\ WordOver(i) = Len(ruleText) + 1 \/ IsBlank(WordOver(i))
         /\ \A k \in i .. WordOver(i) - 1 : ~IsBlank(k)
<1> DEFINE n == Len(ruleText)
           T == {k \in i .. n : IsBlank(k)} \cup {n + 1}
<1>1. n \in Nat /\ T \in SUBSET Nat /\ n + 1 \in T
  OBVIOUS
<1>2. WordOver(i) = Min(T)
  BY DEF WordOver
<1> HIDE DEF T
<1>3. PICK m \in T : m = Min(T) /\ \A k \in T : m <= k
  BY <1>1, MinIs
<1>4. m \in i .. n + 1 /\ (m = n + 1 \/ IsBlank(m))
  BY <1>1, <1>3 DEF T
<1>5. ASSUME NEW k \in i .. m - 1
      PROVE  ~IsBlank(k)
  <2>1. k \in i .. n /\ ~(m <= k)
    BY <1>1, <1>4
  <2> QED BY <1>3, <2>1 DEF T
<1> QED BY <1>2, <1>3, <1>4, <1>5

LEMMA CopyOverIs ==
  ASSUME NEW S, ruleText \in Seq(S), NEW i \in 1 .. Len(ruleText), ~IsBlank(i)
  PROVE  CopyOver(i) = IF WordOver(i) <= i + MaxToken THEN WordOver(i) ELSE i + MaxToken
<1> DEFINE T == {WordOver(i), i + MaxToken}
<1>1. WordOver(i) \in Nat /\ i + MaxToken \in Nat
  BY WordOverIs, LexerAssumption
<1>2. T \in SUBSET Nat /\ T # {}
  BY <1>1
<1>3. Min(T) \in T /\ \A k \in T : Min(T) <= k
  <2> HIDE DEF T
  <2> QED BY <1>2, MinIs
<1> QED BY <1>1, <1>3 DEF CopyOver

(* The token of a word is the word, or as much of it as fits.              *)
LEMMA TokenOfWord ==
  ASSUME NEW S, ruleText \in Seq(S), NEW i \in 1 .. Len(ruleText), ~IsBlank(i)
  PROVE  LET token == SubSeq(ruleText, i, CopyOver(i) - 1)
         IN /\ token \in Seq(S)
            /\ Len(token) <= MaxToken
            /\ token = SubSeq(Word(i), 1, Min({MaxToken, Len(Word(i))}))
<1> DEFINE n == Len(ruleText)
           o == WordOver(i)
<1>1. /\ n \in Nat /\ o \in i + 1 .. n + 1 /\ (o = n + 1 \/ IsBlank(o))
      /\ \A k \in i .. o - 1 : ~IsBlank(k)
  BY WordOverIs
<1>2. Word(i) = SubSeq(ruleText, i, o - 1)
  <2>1. \A k \in i + 1 .. n + 1 :
          ((k = n + 1 \/ IsBlank(k)) /\ \A j \in i .. k - 1 : ~IsBlank(j)) => k = o
    <3> SUFFICES ASSUME NEW k \in i + 1 .. n + 1, k = n + 1 \/ IsBlank(k),
                        \A j \in i .. k - 1 : ~IsBlank(j), k # o
                 PROVE  FALSE
      OBVIOUS
    <3>1. CASE k < o
      <4>1. k \in i .. o - 1 /\ k # n + 1
        BY <1>1, <3>1
      <4> QED BY <1>1, <4>1
    <3>2. CASE o < k
      <4>1. o \in i .. k - 1 /\ o # n + 1
        BY <1>1, <3>2
      <4> QED BY <1>1, <4>1
    <3> QED BY <1>1, <3>1, <3>2
  <2>2. (CHOOSE k \in i + 1 .. n + 1 :
           (k = n + 1 \/ IsBlank(k)) /\ \A j \in i .. k - 1 : ~IsBlank(j)) = o
    BY <1>1, <2>1
  <2> QED BY <2>2 DEF Word
<1>3. Word(i) \in Seq(S) /\ Len(Word(i)) = o - i
  BY <1>1, <1>2, SubSeqProperties
<1> DEFINE m == IF o <= i + MaxToken THEN o - i ELSE MaxToken
<1>4. m \in 1 .. o - i /\ m <= MaxToken /\ CopyOver(i) = i + m
  BY <1>1, CopyOverIs, LexerAssumption
<1>5. Min({MaxToken, Len(Word(i))}) = m
  <2> DEFINE T == {MaxToken, o - i}
  <2>1. T \in SUBSET Nat /\ T # {}
    BY <1>1, LexerAssumption
  <2>2. Min(T) \in T /\ \A k \in T : Min(T) <= k
    <3> HIDE DEF T
    <3> QED BY <2>1, MinIs
  <2> QED BY <1>1, <1>3, <2>1, <2>2
<1> HIDE DEF m
<1>6. SubSeq(ruleText, i, i + m - 1) = SubSeq(Word(i), 1, m)
  <2>1. o - 1 \in i .. n /\ m \in 1 .. (o - 1) - i + 1
    BY <1>1, <1>4
  <2> QED BY <1>2, <2>1, PieceOfPiece
<1>7. SubSeq(ruleText, i, i + m - 1) \in Seq(S) /\ Len(SubSeq(ruleText, i, i + m - 1)) = m
  <2>1. i + m - 1 \in Nat /\ i <= i + m - 1 /\ i + m - 1 <= n /\ (i + m - 1) - i + 1 = m
    BY <1>1, <1>4
  <2> QED BY <2>1, SubSeqProperties
<1>8. CopyOver(i) - 1 = i + m - 1
  BY <1>4
<1> QED BY <1>4, <1>5, <1>6, <1>7, <1>8

(* What the loop has at each turn: it stands between two words, the tokens *)
(* are those of the words that start before that place, and when it has    *)
(* stopped there is no room, or no word left.                              *)
Before(i) == {j \in Starts : j < i}

IsTokenAt(k, i) ==
  /\ i < at
  /\ Cardinality(Before(i)) = k - 1
  /\ tokens[k] = SubSeq(ruleText, i, CopyOver(i) - 1)

TextChars == UNION {{s[i] : i \in DOMAIN s} : s \in RuleText}

LexInv ==
  /\ ruleText \in Seq(TextChars)
  /\ at \in 1 .. Len(ruleText) + 1
  /\ at = 1 \/ at = Len(ruleText) + 1 \/ IsBlank(at)
  /\ tokens \in Seq(Seq(TextChars))
  /\ Len(tokens) <= MaxTokens
  /\ Cardinality(Before(at)) = Len(tokens)
  /\ \A k \in DOMAIN tokens : \E i \in Starts : IsTokenAt(k, i)
  /\ lexing = "ended" => Len(tokens) = MaxTokens \/ Starts = Before(at)

LEMMA StartsFinite ==
  ASSUME ruleText \in Seq(TextChars)
  PROVE  /\ Starts \subseteq 1 .. Len(ruleText) /\ Starts \subseteq Nat
         /\ IsFiniteSet(Starts) /\ Cardinality(Starts) \in Nat
         /\ \A i : Before(i) \subseteq Starts /\ IsFiniteSet(Before(i))
                   /\ Cardinality(Before(i)) \in Nat
<1>1. Len(ruleText) \in Nat
  OBVIOUS
<1>2. Starts \subseteq 1 .. Len(ruleText) /\ Starts \subseteq Nat
  BY <1>1 DEF Starts
<1>3. IsFiniteSet(1 .. Len(ruleText))
  BY <1>1, FS_Interval
<1>4. IsFiniteSet(Starts)
  BY <1>2, <1>3, FS_Subset
<1>5. ASSUME NEW i
      PROVE  Before(i) \subseteq Starts /\ IsFiniteSet(Before(i))
  <2>1. Before(i) \subseteq Starts
    BY DEF Before
  <2> QED BY <1>4, <2>1, FS_Subset
<1>6. Cardinality(Starts) \in Nat /\ \A i : Cardinality(Before(i)) \in Nat
  BY <1>4, <1>5, FS_CardinalityType
<1> QED BY <1>2, <1>4, <1>5, <1>6

(* The word found from a place between two words starts there or behind    *)
(* it, and is the first one that does; up to where it is over no other     *)
(* starts.                                                                 *)
LEMMA WordIsNext ==
  ASSUME ruleText \in Seq(TextChars), NEW p \in 1 .. Len(ruleText) + 1,
         p = 1 \/ p = Len(ruleText) + 1 \/ IsBlank(p),
         WordFrom(p) <= Len(ruleText)
  PROVE  LET i == WordFrom(p)
         IN /\ i \in Starts /\ p <= i
            /\ Before(i) = Before(p)
            /\ Before(WordOver(i)) = Before(p) \cup {i}
            /\ WordOver(i) \in i + 1 .. Len(ruleText) + 1
            /\ WordOver(i) = Len(ruleText) + 1 \/ IsBlank(WordOver(i))
<1> DEFINE n == Len(ruleText)
<1>1. PICK i : i = WordFrom(p)
  OBVIOUS
<1>2. /\ n \in Nat /\ i \in p .. n /\ i \in 1 .. n /\ ~IsBlank(i)
      /\ \A k \in p .. i - 1 : IsBlank(k)
  BY <1>1, WordFromIs
<1>3. PICK o : o = WordOver(i)
  OBVIOUS
<1>4. /\ o \in i + 1 .. n + 1 /\ (o = n + 1 \/ IsBlank(o))
      /\ \A k \in i .. o - 1 : ~IsBlank(k)
  BY <1>2, <1>3, WordOverIs
<1>5. i \in Starts
  <2>1. CASE i = p
    BY <1>2, <2>1 DEF Starts
  <2>2. CASE i # p
    <3>1. i - 1 \in p .. i - 1
      BY <1>2, <2>2
    <3> QED BY <1>2, <3>1 DEF Starts
  <2> QED BY <2>1, <2>2
<1>6. ASSUME NEW j \in Starts, j < i
      PROVE  j < p
  <2>1. j \in 1 .. n /\ ~IsBlank(j)
    BY DEF Starts
  <2>2. j \notin p .. i - 1
    BY <1>2, <2>1
  <2> QED BY <1>2, <1>6, <2>1, <2>2
<1>7. ASSUME NEW j \in Starts, j < o, j # i
      PROVE  j < i
  <2>1. j \in 1 .. n /\ (j = 1 \/ IsBlank(j - 1))
    BY DEF Starts
  <2> SUFFICES ASSUME i < j
               PROVE  FALSE
    BY <1>2, <1>7, <2>1
  <2>2. j - 1 \in i .. o - 1 /\ j # 1
    BY <1>2, <1>4, <1>7, <2>1
  <2> QED BY <1>4, <2>1, <2>2
<1>8. Starts \subseteq Nat
  BY StartsFinite
<1>9. Before(i) = Before(p)
  <2>1. \A j \in Starts : j < i <=> j < p
    BY <1>2, <1>6, <1>8
  <2> QED BY <2>1 DEF Before
<1>10. Before(o) = Before(p) \cup {i}
  <2>1. \A j \in Starts : j < o <=> j < i \/ j = i
    BY <1>2, <1>4, <1>7, <1>8
  <2>2. Before(o) = Before(i) \cup {i}
    BY <1>5, <2>1 DEF Before
  <2> QED BY <1>9, <2>2
<1> QED BY <1>1, <1>2, <1>3, <1>4, <1>5, <1>9, <1>10

LEMMA NoWordLeft ==
  ASSUME ruleText \in Seq(TextChars), NEW p \in 1 .. Len(ruleText) + 1,
         WordFrom(p) > Len(ruleText)
  PROVE  Starts = Before(p)
<1>1. Len(ruleText) \in Nat /\ WordFrom(p) \in Nat /\ \A k \in p .. WordFrom(p) - 1 : IsBlank(k)
  BY WordFromIs
<1>2. ASSUME NEW j \in Starts
      PROVE  j < p
  <2>1. j \in 1 .. Len(ruleText) /\ ~IsBlank(j)
    BY DEF Starts
  <2>2. j \notin p .. WordFrom(p) - 1
    BY <1>1, <2>1
  <2> QED BY <1>1, <2>1, <2>2
<1> QED BY <1>2 DEF Before

LEMMA LexInitInv == LexInit => LexInv
<1> SUFFICES ASSUME LexInit
             PROVE  LexInv
  OBVIOUS
<1>1. ruleText = <<>> /\ at = 1 /\ tokens = <<>> /\ lexing = "idle"
  BY DEF LexInit
<1>2. Before(at) = {}
  BY <1>1 DEF Before, Starts
<1>3. Cardinality(Before(at)) = 0
  BY <1>2, FS_EmptySet
<1> QED BY <1>1, <1>3, LexerAssumption DEF LexInv

LEMMA LexStartKeeps == LexStart => LexInv'
<1> SUFFICES ASSUME LexStart
             PROVE  LexInv'
  OBVIOUS
<1>1. ruleText' \in RuleText /\ at' = 1 /\ tokens' = <<>> /\ lexing' = "lexing"
  BY DEF LexStart
<1>2. ruleText' \in Seq(TextChars)
  BY <1>1, LexerAssumption DEF TextChars
<1>3. Before(at)' = {}
  BY <1>1, <1>2 DEF Before, Starts
<1>4. Cardinality(Before(at)') = 0
  BY <1>3, FS_EmptySet
<1>5. at' \in 1 .. Len(ruleText') + 1
  BY <1>1, <1>2
<1>6. tokens' \in Seq(Seq(TextChars)) /\ Len(tokens') = 0 /\ DOMAIN tokens' = {}
  BY <1>1
<1>7. Len(tokens') <= MaxTokens
  BY <1>6, LexerAssumption
<1> QED BY <1>1, <1>2, <1>4, <1>5, <1>6, <1>7 DEF LexInv

LEMMA LexTokenKeeps == LexInv /\ LexToken => LexInv'
<1> SUFFICES ASSUME LexInv, LexToken
             PROVE  LexInv'
  OBVIOUS
<1>1. /\ ruleText \in Seq(TextChars) /\ at \in 1 .. Len(ruleText) + 1
      /\ at = 1 \/ at = Len(ruleText) + 1 \/ IsBlank(at)
      /\ tokens \in Seq(Seq(TextChars)) /\ Len(tokens) < MaxTokens
      /\ Cardinality(Before(at)) = Len(tokens)
      /\ \A k \in DOMAIN tokens : \E i \in Starts : IsTokenAt(k, i)
      /\ lexing = "lexing" /\ ruleText' = ruleText
  BY DEF LexInv, LexToken
<1>2. /\ Starts' = Starts
      /\ \A i : /\ CopyOver(i)' = CopyOver(i)
                /\ IsBlank(i)' = IsBlank(i)
                /\ Before(i)' = Before(i)
  BY <1>1 DEF Starts, CopyOver, WordOver, IsBlank, Before
<1>3. Len(ruleText) \in Nat /\ Starts \subseteq Nat
  BY <1>1, StartsFinite
<1>4. PICK start : start = WordFrom(at)
  OBVIOUS
<1>5. start \in at .. Len(ruleText) + 1
  BY <1>1, <1>4, WordFromIs
<1>6. CASE start > Len(ruleText)
  <2>1. lexing' = "ended" /\ at' = at /\ tokens' = tokens
    BY <1>4, <1>6 DEF LexToken
  <2>2. Starts = Before(at)
    BY <1>1, <1>4, <1>6, NoWordLeft
  <2>3. Before(at)' = Before(at)
    BY <1>2, <2>1 DEF Before
  <2>4. IsBlank(at)' = IsBlank(at)
    BY <1>1, <2>1 DEF IsBlank
  <2>5. ASSUME NEW k \in DOMAIN tokens'
        PROVE  \E i \in Starts' : IsTokenAt(k, i)'
    BY <1>1, <1>2, <2>1 DEF IsTokenAt
  <2> QED BY <1>1, <1>2, <2>1, <2>2, <2>3, <2>4, <2>5 DEF LexInv
<1>7. CASE start <= Len(ruleText)
  <2> DEFINE token == SubSeq(ruleText, start, CopyOver(start) - 1)
             n == Len(tokens) + 1
  <2>1. tokens' = Append(tokens, token) /\ at' = WordOver(start) /\ lexing' = "lexing"
    BY <1>1, <1>4, <1>5, <1>7, <1>3 DEF LexToken, NextPlace
  <2>2. /\ start \in Starts /\ at <= start
        /\ Before(start) = Before(at)
        /\ Before(at') = Before(at) \cup {start}
        /\ at' \in start + 1 .. Len(ruleText) + 1
        /\ at' = Len(ruleText) + 1 \/ IsBlank(at')
    BY <1>1, <1>4, <1>7, <2>1, WordIsNext
  <2>3. token \in Seq(TextChars)
    <3>1. start \in 1 .. Len(ruleText) /\ ~IsBlank(start)
      BY <2>2 DEF Starts
    <3> QED BY <1>1, <3>1, TokenOfWord
  <2> HIDE DEF token
  <2>4. n \in Nat /\ tokens' \in Seq(Seq(TextChars)) /\ Len(tokens') = n /\ n <= MaxTokens
    BY <1>1, <2>1, <2>3, LexerAssumption
  <2>5. DOMAIN tokens' = DOMAIN tokens \cup {n} /\ tokens'[n] = token
        /\ \A k \in DOMAIN tokens : tokens'[k] = tokens[k]
    BY <1>1, <2>1, <2>3
  <2>6. Cardinality(Before(at')) = n
    <3>1. IsFiniteSet(Before(at))
      BY <1>1, StartsFinite
    <3>2. start \notin Before(at)
      <4>1. at \in Nat /\ start \in Nat /\ ~(start < at)
        BY <1>1, <1>3, <2>2
      <4> QED BY <4>1 DEF Before
    <3>3. Cardinality(Before(at) \cup {start}) = Cardinality(Before(at)) + 1
      BY <3>1, <3>2, FS_AddElement
    <3> QED BY <1>1, <2>2, <3>3
  <2>7. Cardinality(Before(at)') = Len(tokens')
    <3>1. Before(at)' = Before(at')
      BY <1>2 DEF Before
    <3> QED BY <2>4, <2>6, <3>1
  <2>8. IsBlank(at)' = IsBlank(at')
    BY <1>1 DEF IsBlank
  <2>9. ASSUME NEW k \in DOMAIN tokens'
        PROVE  \E i \in Starts' : IsTokenAt(k, i)'
    <3>1. CASE k = n
      <4>1. start \in Nat /\ Len(tokens) \in Nat
        BY <1>1, <1>3, <2>2
      <4>2. Before(start)' = Before(at)
        BY <1>2, <2>2
      <4>3. start < at' /\ Cardinality(Before(start)') = n - 1
        BY <1>1, <2>2, <4>1, <4>2
      <4>4. tokens'[k] = SubSeq(ruleText', start, CopyOver(start)' - 1)
        BY <1>1, <1>2, <2>5, <3>1 DEF token
      <4>5. IsTokenAt(k, start)'
        BY <3>1, <4>3, <4>4 DEF IsTokenAt
      <4> QED BY <1>2, <2>2, <4>5
    <3>2. CASE k \in DOMAIN tokens
      <4>1. PICK i \in Starts : IsTokenAt(k, i)
        BY <1>1, <3>2
      <4>2. i < at'
        BY <1>1, <1>3, <2>2, <4>1 DEF IsTokenAt
      <4>3. IsTokenAt(k, i)'
        BY <1>1, <1>2, <2>5, <3>2, <4>1, <4>2 DEF IsTokenAt
      <4> QED BY <1>2, <4>1, <4>3
    <3> QED BY <2>5, <3>1, <3>2
  <2>10. at' \in 1 .. Len(ruleText') + 1
    BY <1>1, <1>3, <1>5, <2>2
  <2> QED BY <1>1, <2>1, <2>2, <2>4, <2>7, <2>8, <2>9, <2>10 DEF LexInv
<1> QED BY <1>3, <1>5, <1>6, <1>7

LEMMA LexDoneKeeps == LexInv /\ (LexDone \/ UNCHANGED lexVars) => LexInv'
<1> SUFFICES ASSUME LexInv, LexDone \/ UNCHANGED lexVars
             PROVE  LexInv'
  OBVIOUS
<1>1. ruleText' = ruleText /\ at' = at /\ tokens' = tokens
  BY DEF LexDone, lexVars
<1>2. Starts' = Starts /\ Before(at)' = Before(at) /\ IsBlank(at)' = IsBlank(at)
  BY <1>1 DEF Starts, Before, IsBlank
<1>3. \A k, i : IsTokenAt(k, i)' <=> IsTokenAt(k, i)
  BY <1>1 DEF IsTokenAt, Before, Starts, CopyOver, WordOver, IsBlank
<1>4. lexing' = "ended" => Len(tokens) = MaxTokens \/ Starts = Before(at)
  <2>1. CASE LexDone /\ at > Len(ruleText)
    <3>1. Starts \subseteq 1 .. Len(ruleText) /\ Len(ruleText) \in Nat /\ at \in Nat
      BY StartsFinite DEF LexInv
    <3>2. \A j \in Starts : j < at
      BY <2>1, <3>1
    <3> QED BY <3>2 DEF Before
  <2> QED BY <2>1 DEF LexDone, LexInv, lexVars
<1> QED BY <1>1, <1>2, <1>3, <1>4 DEF LexInv

LEMMA LexNextInv == LexInv /\ [LexNext]_lexVars => LexInv'
BY LexStartKeeps, LexTokenKeeps, LexDoneKeeps DEF LexNext

(* What the loop has is what is promised.                                  *)
LEMMA LexTells == LexInv => WordsInOrder
<1> SUFFICES ASSUME LexInv
             PROVE  WordsInOrder
  OBVIOUS
<1> DEFINE T == {MaxTokens, Cardinality(Starts)}
<1>1. /\ ruleText \in Seq(TextChars) /\ tokens \in Seq(Seq(TextChars))
      /\ Len(tokens) <= MaxTokens /\ Len(tokens) \in Nat
      /\ Cardinality(Before(at)) = Len(tokens)
  BY DEF LexInv
<1>2. /\ IsFiniteSet(Starts) /\ Cardinality(Starts) \in Nat /\ Before(at) \subseteq Starts
      /\ Starts \subseteq 1 .. Len(ruleText)
  BY <1>1, StartsFinite
<1>3. Len(tokens) <= Cardinality(Starts)
  BY <1>1, <1>2, FS_Subset
<1>4. Min(T) \in T /\ \A n \in T : Min(T) <= n
  <2>1. T \in SUBSET Nat /\ T # {}
    BY <1>2, LexerAssumption
  <2> HIDE DEF T
  <2> QED BY <2>1, MinIs
<1>5. MaxTokens \in Nat
  BY LexerAssumption
<1>6. Len(tokens) <= Min(T)
  BY <1>1, <1>3, <1>4
<1>7. lexing = "ended" => Len(tokens) = Min(T)
  <2> SUFFICES ASSUME Len(tokens) = MaxTokens \/ Starts = Before(at)
               PROVE  Len(tokens) = Min(T)
    BY DEF LexInv
  <2>1. Len(tokens) \in T
    BY <1>1
  <2> QED BY <1>1, <1>2, <1>4, <1>5, <1>6, <2>1
<1>8. ASSUME NEW k \in DOMAIN tokens
      PROVE  \E i \in Starts :
               /\ Cardinality({j \in Starts : j < i}) = k - 1
               /\ Len(tokens[k]) <= MaxToken
               /\ tokens[k] = SubSeq(Word(i), 1, Min({MaxToken, Len(Word(i))}))
  <2>1. PICK i \in Starts : IsTokenAt(k, i)
    BY DEF LexInv
  <2>2. i \in 1 .. Len(ruleText) /\ ~IsBlank(i)
    BY DEF Starts
  <2> QED BY <1>1, <2>1, <2>2, TokenOfWord DEF IsTokenAt, Before
<1> QED BY <1>6, <1>7, <1>8 DEF WordsInOrder

(* The lexer gives the first words of every text, whatever the text and    *)
(* the room: at each turn the tokens are those of the words that start     *)
(* before the place the loop has come to (LexInv).                         *)
THEOREM LexerKeepsOrder == LexSpec => []WordsInOrder
<1>1. LexInit => LexInv
  BY LexInitInv
<1>2. LexInv /\ [LexNext]_lexVars => LexInv'
  BY LexNextInv
<1>3. LexInv => WordsInOrder
  BY LexTells
<1> QED BY <1>1, <1>2, <1>3, PTL DEF LexSpec

-----------------------------------------------------------------------------

(***************************************************************************)
(* The histogram.                                                          *)
(***************************************************************************)

(* A counter that wraps counts modulo its width.                           *)
LEMMA CountsOn ==
  ASSUME NEW a \in Nat, NEW w \in Nat \ {0}
  PROVE  ((a % w) + 1) % w = (a + 1) % w
<1> DEFINE q == a \div w
           r == a % w
           p == (r + 1) \div w
           x == (r + 1) % w
           s == (a + 1) \div w
           y == (a + 1) % w
<1>1. r \in 0 .. w - 1 /\ q \in Int /\ a = (q * w) + r
  BY Remainder
<1>2. x \in 0 .. w - 1 /\ p \in Int /\ r + 1 = (p * w) + x
  BY <1>1, Remainder
<1>3. y \in 0 .. w - 1 /\ s \in Int /\ a + 1 = (s * w) + y
  BY Remainder
<1> HIDE DEF q, r, p, x, s, y
<1>4. (q * w) + (p * w) + x = (s * w) + y
  BY <1>1, <1>2, <1>3
<1>5. (q + p) * w + x = s * w + y
  <2>1. (q + p) * w = (q * w) + (p * w)
    BY <1>1, <1>2
  <2> QED BY <1>4, <2>1
<1>6. x = y
  <2>1. q + p \in Int
    BY <1>1, <1>2
  <2> QED BY <1>2, <1>3, <1>5, <2>1, QuotientOnce
<1> QED BY <1>6 DEF x, y, r

Counts == [Indexes \X Offsets -> Nat]

(* What the recursive definition of CountedAt stands for.                  *)
LEMMA CountedAtIs ==
  ASSUME NEW c \in Counts, NEW b \in Nat
  PROVE  \E s \in [0 .. b -> Nat] :
           /\ s[0] = CountedFrom(c, b, 0)
           /\ \A i \in 1 .. b : s[i] = CountedFrom(c, b, i) + s[i - 1]
           /\ CountedAt(c, b) = s[b]
<1> DEFINE Step(f) == [i \in 0 .. b |->
             CountedFrom(c, b, i) + (IF i = 0 THEN 0 ELSE f[i - 1])]
           upTo == CHOOSE f : f = Step(f)
           step == [p \in (1 .. b) \X Nat |-> CountedFrom(c, b, p[1]) + p[2]]
           base == CountedFrom(c, b, 0)
<1>1. \A i \in 0 .. b : CountedFrom(c, b, i) \in Nat
  BY DEF CountedFrom, Counts
<1>2. PICK g : IsRecursive(g, b, base, step)
  <2> HIDE DEF base, step
  <2> QED BY RecursiveUpTo
<1>3. \A i \in 1 .. b : g[i - 1] \in Nat => g[i] = CountedFrom(c, b, i) + g[i - 1]
  BY <1>2 DEF IsRecursive
<1>4. DOMAIN g = 0 .. b /\ g[0] = CountedFrom(c, b, 0)
  BY <1>2 DEF IsRecursive
<1> HIDE DEF step, base
<1> DEFINE T == {i \in Nat : i <= b => g[i] \in Nat}
<1>5. Nat \subseteq T
  <2>1. 0 \in T
    BY <1>1, <1>4
  <2>2. ASSUME NEW i \in Nat, i \in T
        PROVE  i + 1 \in T
    <3> SUFFICES ASSUME i + 1 <= b
                 PROVE  g[i + 1] \in Nat
      OBVIOUS
    <3>1. i + 1 \in 1 .. b /\ i + 1 \in 0 .. b /\ (i + 1) - 1 = i /\ g[i] \in Nat
      BY <2>2
    <3>2. g[i + 1] = CountedFrom(c, b, i + 1) + g[i]
      BY <1>3, <3>1
    <3>3. CountedFrom(c, b, i + 1) \in Nat
      BY <1>1, <3>1
    <3> QED BY <3>1, <3>2, <3>3
  <2> HIDE DEF T
  <2> QED BY <2>1, <2>2, Induction
<1>6. \A i \in 0 .. b : g[i] \in Nat
  BY <1>5
<1>7. \A i \in 0 .. b : g[i] = CountedFrom(c, b, i) + (IF i = 0 THEN 0 ELSE g[i - 1])
  <2> SUFFICES ASSUME NEW i \in 0 .. b
               PROVE  g[i] = CountedFrom(c, b, i) + (IF i = 0 THEN 0 ELSE g[i - 1])
    OBVIOUS
  <2>1. CASE i = 0
    <3>1. CountedFrom(c, b, 0) \in Nat
      BY <1>1
    <3> QED BY <1>4, <2>1, <3>1
  <2>2. CASE i # 0
    <3>1. i \in 1 .. b /\ i - 1 \in 0 .. b
      BY <2>2
    <3> QED BY <1>3, <1>6, <2>2, <3>1
  <2> QED BY <2>1, <2>2
<1> DEFINE h == [i \in 0 .. b |-> g[i]]
<1>8. h = Step(h)
  <2>1. \A i \in 0 .. b : h[i] = Step(h)[i]
    <3> TAKE i \in 0 .. b
    <3>1. i # 0 => i - 1 \in 0 .. b
      OBVIOUS
    <3> QED BY <1>7, <3>1
  <2> QED BY <2>1
<1>9. upTo = Step(upTo)
  <2> HIDE DEF h, Step
  <2> QED BY <1>8
<1> HIDE DEF upTo
<1>10. DOMAIN upTo = 0 .. b /\ upTo[0] = CountedFrom(c, b, 0)
  <2>1. CountedFrom(c, b, 0) \in Nat
    BY <1>1
  <2> QED BY <1>9, <2>1
<1>11. \A i \in 1 .. b : upTo[i] = CountedFrom(c, b, i) + upTo[i - 1]
  BY <1>9
<1> DEFINE U == {i \in Nat : i <= b => upTo[i] \in Nat}
<1>12. Nat \subseteq U
  <2>1. 0 \in U
    BY <1>1, <1>10
  <2>2. ASSUME NEW i \in Nat, i \in U
        PROVE  i + 1 \in U
    <3> SUFFICES ASSUME i + 1 <= b
                 PROVE  upTo[i + 1] \in Nat
      OBVIOUS
    <3>1. i + 1 \in 1 .. b /\ i + 1 \in 0 .. b /\ (i + 1) - 1 = i /\ upTo[i] \in Nat
      BY <2>2
    <3>2. upTo[i + 1] = CountedFrom(c, b, i + 1) + upTo[i]
      BY <1>11, <3>1
    <3>3. CountedFrom(c, b, i + 1) \in Nat
      BY <1>1, <3>1
    <3> QED BY <3>1, <3>2, <3>3
  <2> HIDE DEF U
  <2> QED BY <2>1, <2>2, Induction
<1>13. upTo \in [0 .. b -> Nat]
  <2>1. \A i \in 0 .. b : upTo[i] \in Nat
    BY <1>12
  <2>2. upTo = [i \in 0 .. b |-> upTo[i]]
    BY <1>9
  <2> QED BY <2>1, <2>2
<1>14. CountedAt(c, b) = upTo[b]
  BY DEF CountedAt, upTo
<1> QED BY <1>10, <1>11, <1>13, <1>14

(* Where one more is counted at one place, the sum is one more.            *)
LEMMA CountedAtOneMore ==
  ASSUME NEW c \in Counts, NEW d \in Counts, NEW b \in Nat,
         NEW index \in Indexes, NEW offset \in Offsets,
         d[<<index, offset>>] = c[<<index, offset>>] + 1,
         \A p \in Indexes \X Offsets : p # <<index, offset>> => d[p] = c[p]
  PROVE  /\ CountedAt(c, b) \in Nat
         /\ CountedAt(d, b) = CountedAt(c, b) + (IF index + offset = b THEN 1 ELSE 0)
<1>0. index \in Nat /\ offset \in Nat
  BY HistogramAssumption
<1>1. PICK s \in [0 .. b -> Nat] :
        /\ s[0] = CountedFrom(c, b, 0)
        /\ \A i \in 1 .. b : s[i] = CountedFrom(c, b, i) + s[i - 1]
        /\ CountedAt(c, b) = s[b]
  BY CountedAtIs
<1>2. PICK t \in [0 .. b -> Nat] :
        /\ t[0] = CountedFrom(d, b, 0)
        /\ \A i \in 1 .. b : t[i] = CountedFrom(d, b, i) + t[i - 1]
        /\ CountedAt(d, b) = t[b]
  BY CountedAtIs
<1> DEFINE One(i) == IF index + offset = b /\ i = index THEN 1 ELSE 0
          Extra(i) == IF index + offset = b /\ i >= index THEN 1 ELSE 0
<1>3. ASSUME NEW i \in 0 .. b
      PROVE  /\ CountedFrom(c, b, i) \in Nat
             /\ CountedFrom(d, b, i) = CountedFrom(c, b, i) + One(i)
  <2>1. DOMAIN c = Indexes \X Offsets /\ DOMAIN d = Indexes \X Offsets
    BY DEF Counts
  <2>2. CountedFrom(c, b, i) \in Nat
    BY DEF CountedFrom, Counts
  <2>3. CASE i = index /\ b - i = offset
    <3>1. <<i, b - i>> = <<index, offset>> /\ <<index, offset>> \in Indexes \X Offsets
      BY <2>3
    <3>2. One(i) = 1
      BY <1>0, <2>3
    <3> QED BY <2>1, <2>2, <3>1, <3>2 DEF CountedFrom
  <2>4. CASE ~(i = index /\ b - i = offset)
    <3>1. <<i, b - i>> # <<index, offset>>
      BY <2>4
    <3>2. One(i) = 0
      BY <1>0, <2>4
    <3> HIDE DEF One
    <3> QED BY <2>1, <2>2, <3>1, <3>2 DEF CountedFrom
  <2> QED BY <2>3, <2>4
<1> DEFINE T == {i \in Nat : i <= b => t[i] = s[i] + Extra(i)}
<1>4. Nat \subseteq T
  <2>1. 0 \in T
    <3>0. 0 \in 0 .. b
      OBVIOUS
    <3>1. /\ CountedFrom(c, b, 0) \in Nat
          /\ CountedFrom(d, b, 0) = CountedFrom(c, b, 0) + One(0)
      BY <1>3, <3>0
    <3>2. One(0) = Extra(0)
      BY <1>0
    <3> HIDE DEF One, Extra
    <3> QED BY <1>1, <1>2, <3>1, <3>2
  <2>2. ASSUME NEW i \in Nat, i \in T
        PROVE  i + 1 \in T
    <3> SUFFICES ASSUME i + 1 <= b
                 PROVE  t[i + 1] = s[i + 1] + Extra(i + 1)
      OBVIOUS
    <3>1. i + 1 \in 1 .. b /\ i + 1 \in 0 .. b /\ i \in 0 .. b /\ (i + 1) - 1 = i
      OBVIOUS
    <3>2. t[i] = s[i] + Extra(i)
      BY <2>2
    <3>3. /\ CountedFrom(c, b, i + 1) \in Nat
          /\ CountedFrom(d, b, i + 1) = CountedFrom(c, b, i + 1) + One(i + 1)
      BY <1>3, <3>1
    <3>4. One(i + 1) + Extra(i) = Extra(i + 1) /\ One(i + 1) \in Nat /\ Extra(i) \in Nat
      BY <1>0
    <3>5. s[i + 1] = CountedFrom(c, b, i + 1) + s[i] /\ s[i] \in Nat
      BY <1>1, <3>1
    <3>6. t[i + 1] = CountedFrom(d, b, i + 1) + t[i]
      BY <1>2, <3>1
    <3>7. t[i + 1] = (CountedFrom(c, b, i + 1) + One(i + 1)) + (s[i] + Extra(i))
      BY <3>2, <3>3, <3>6
    <3> DEFINE p == CountedFrom(c, b, i + 1)
               o == One(i + 1)
               e == Extra(i)
               g == Extra(i + 1)
    <3>8. /\ p \in Nat /\ o \in Nat /\ e \in Nat /\ s[i] \in Nat /\ o + e = g
          /\ t[i + 1] = (p + o) + (s[i] + e) /\ s[i + 1] = p + s[i]
      BY <3>3, <3>4, <3>5, <3>7
    <3> HIDE DEF p, o, e, g
    <3>9. t[i + 1] = s[i + 1] + g
      BY <3>8
    <3> QED BY <3>9 DEF g
  <2> HIDE DEF T
  <2> QED BY <2>1, <2>2, Induction
<1>5. t[b] = s[b] + Extra(b)
  BY <1>4
<1>6. Extra(b) = IF index + offset = b THEN 1 ELSE 0
  BY <1>0
<1> HIDE DEF Extra
<1> QED BY <1>1, <1>2, <1>5, <1>6

LEMMA CountedAtNone ==
  ASSUME NEW b \in Nat
  PROVE  CountedAt(NoneCounted, b) = 0
<1>1. NoneCounted \in Counts
  BY DEF NoneCounted, Counts
<1>2. PICK s \in [0 .. b -> Nat] :
        /\ s[0] = CountedFrom(NoneCounted, b, 0)
        /\ \A i \in 1 .. b : s[i] = CountedFrom(NoneCounted, b, i) + s[i - 1]
        /\ CountedAt(NoneCounted, b) = s[b]
  BY <1>1, CountedAtIs
<1>3. \A i \in 0 .. b : CountedFrom(NoneCounted, b, i) = 0
  BY DEF CountedFrom, NoneCounted
<1> DEFINE T == {i \in Nat : i <= b => s[i] = 0}
<1>4. Nat \subseteq T
  <2>1. 0 \in T
    BY <1>2, <1>3
  <2>2. ASSUME NEW i \in Nat, i \in T
        PROVE  i + 1 \in T
    <3> SUFFICES ASSUME i + 1 <= b
                 PROVE  s[i + 1] = 0
      OBVIOUS
    <3>1. i + 1 \in 1 .. b /\ i + 1 \in 0 .. b /\ (i + 1) - 1 = i /\ s[i] = 0
      BY <2>2
    <3> QED BY <1>2, <1>3, <3>1
  <2> HIDE DEF T
  <2> QED BY <2>1, <2>2, Induction
<1> QED BY <1>2, <1>4

(* As long as no offset carried a sample past the end, an offset that does *)
(* not is one without a wrap, so that the bin is the one the sample was    *)
(* meant for.                                                              *)
HistInv ==
  /\ counted \in Counts
  /\ bucket_count \in 0 .. IndexWidth - 1
  /\ bins = [b \in 0 .. bucket_count - 1 |-> bins[b]]
  /\ SamplesCounted

LEMMA CountKeeps ==
  ASSUME HistInv, histState = "ok", NEW index \in Indexes, NEW offset \in Offsets,
         index < bucket_count, NEW bin, BinIncr(bin),
         index + offset < bucket_count => bin = index + offset,
         counted' = [counted EXCEPT ![<<index, offset>>] = @ + 1],
         UNCHANGED bucket_count
  PROVE  HistInv'
<1>0. index \in Nat /\ offset \in Nat /\ IndexWidth \in Nat \ {0} /\ CountWidth \in Nat \ {0}
      /\ Indexes \subseteq Nat /\ Offsets \subseteq Nat
  BY HistogramAssumption
<1>1. /\ counted \in Counts /\ bucket_count \in 0 .. IndexWidth - 1
      /\ DOMAIN bins = 0 .. bucket_count - 1 /\ bins = [b \in 0 .. bucket_count - 1 |-> bins[b]]
      /\ SamplesCounted
  BY DEF HistInv
<1>2. counted' \in Counts
  <2>1. counted[<<index, offset>>] \in Nat
    BY <1>1 DEF Counts
  <2> QED BY <1>1, <2>1 DEF Counts
<1>3. Used' = Used \cup {<<index, offset>>}
  <2>1. DOMAIN counted = Indexes \X Offsets /\ DOMAIN counted' = Indexes \X Offsets
    BY <1>1, <1>2 DEF Counts
  <2>2. counted[<<index, offset>>] \in Nat /\ counted'[<<index, offset>>] > 0
    BY <1>1, <2>1 DEF Counts
  <2>3. \A p \in DOMAIN counted : p # <<index, offset>> => counted'[p] = counted[p]
    BY <2>1
  <2> QED BY <2>1, <2>2, <2>3 DEF Used
<1>4. \A s \in Used' : s[1] < bucket_count'
  BY <1>1, <1>3 DEF SamplesCounted
<1>5. bins' = [b \in 0 .. bucket_count' - 1 |-> bins'[b]]
  BY <1>1 DEF BinIncr
<1>6. ASSUME \A s \in Used' : s[1] + s[2] < bucket_count'
      PROVE  /\ histState' = "ok"
             /\ \A b \in DOMAIN bins' : bins'[b] = CountedAt(counted', b) % CountWidth
  <2>1. index + offset < bucket_count
    BY <1>3, <1>6
  <2>2. bin = index + offset /\ bin \in Nat
    BY <1>0, <2>1
  <2>3. bin \in DOMAIN bins
    BY <1>1, <2>1, <2>2
  <2>4. UNCHANGED histState /\ bins' = [bins EXCEPT ![bin] = (@ + 1) % CountWidth]
    BY <2>3 DEF BinIncr
  <2>5. \A b \in DOMAIN bins : bins[b] = CountedAt(counted, b) % CountWidth
    BY <1>1, <1>3, <1>6 DEF SamplesCounted
  <2>6. ASSUME NEW b \in DOMAIN bins'
        PROVE  bins'[b] = CountedAt(counted', b) % CountWidth
    <3>1. b \in DOMAIN bins /\ b \in Nat
      BY <1>1, <2>4
    <3>2. /\ CountedAt(counted, b) \in Nat
          /\ CountedAt(counted', b) = CountedAt(counted, b) + (IF bin = b THEN 1 ELSE 0)
      <4>1. PICK c, d : c = counted /\ d = counted'
        OBVIOUS
      <4>2. c \in Counts /\ d \in Counts /\ b \in Nat
        BY <1>1, <1>2, <3>1, <4>1
      <4>3. /\ d[<<index, offset>>] = c[<<index, offset>>] + 1
            /\ \A p \in Indexes \X Offsets : p # <<index, offset>> => d[p] = c[p]
        BY <1>1, <4>1 DEF Counts
      <4>4. /\ CountedAt(c, b) \in Nat
            /\ CountedAt(d, b) = CountedAt(c, b) + (IF index + offset = b THEN 1 ELSE 0)
        BY <4>2, <4>3, CountedAtOneMore
      <4> QED BY <2>2, <4>1, <4>4
    <3>3. CASE b = bin
      <4>1. bins'[b] = (bins[b] + 1) % CountWidth
        BY <2>3, <2>4, <3>3
      <4>2. bins[b] = CountedAt(counted, b) % CountWidth
        BY <2>5, <3>1
      <4>3. CountedAt(counted', b) = CountedAt(counted, b) + 1
        BY <3>2, <3>3
      <4> QED BY <1>0, <3>2, <4>1, <4>2, <4>3, CountsOn
    <3>4. CASE b # bin
      <4>1. bins'[b] = bins[b]
        BY <2>4, <3>1, <3>4
      <4>2. CountedAt(counted', b) = CountedAt(counted, b)
        BY <3>2, <3>4
      <4> QED BY <2>5, <3>1, <4>1, <4>2
    <3> QED BY <3>3, <3>4
  <2> QED BY <2>4, <2>6
<1>7. SamplesCounted'
  BY <1>4, <1>6 DEF SamplesCounted
<1> QED BY <1>1, <1>2, <1>5, <1>7 DEF HistInv

LEMMA EmptyCounted ==
  ASSUME counted = NoneCounted, histState = "ok",
         bins = [b \in 0 .. bucket_count - 1 |-> 0], bucket_count \in 0 .. IndexWidth - 1
  PROVE  HistInv
<1>1. Used = {} /\ counted \in Counts
  BY DEF Used, NoneCounted, Counts
<1>2. \A b \in DOMAIN bins : bins[b] = CountedAt(counted, b) % CountWidth
  <2> SUFFICES ASSUME NEW b \in DOMAIN bins
               PROVE  bins[b] = CountedAt(counted, b) % CountWidth
    OBVIOUS
  <2>1. CountedAt(counted, b) = 0
    BY CountedAtNone
  <2>2. 0 % CountWidth = 0
    BY HistogramAssumption
  <2> QED BY <2>1, <2>2
<1> QED BY <1>1, <1>2 DEF HistInv, SamplesCounted

LEMMA HistInitInv == StoresInit => HistInv
<1> SUFFICES ASSUME HistogramInit
             PROVE  HistInv
  BY DEF StoresInit
<1>1. bins = [b \in 0 .. bucket_count - 1 |-> 0]
  BY DEF HistogramInit, NoBins
<1> QED BY <1>1, EmptyCounted, HistogramAssumption DEF HistogramInit

LEMMA InitBinsKeeps ==
  ASSUME HistInv, histState = "ok", NEW n \in Buckets, InitBins(n)
  PROVE  HistInv'
<1>1. CASE UNCHANGED <<bins, bucket_count>>
  BY <1>1 DEF InitBins, HistInv, SamplesCounted, Used
<1>2. CASE bins' = [b \in 0 .. n - 1 |-> 0] /\ bucket_count' = n
  <2>1. counted = NoneCounted
    <3>1. Used = {}
      BY HistogramAssumption DEF HistInv, SamplesCounted, InitBins, Used, Counts
    <3>2. \A p \in Indexes \X Offsets : counted[p] = 0
      BY <3>1 DEF HistInv, Used, Counts
    <3> QED BY <3>2 DEF HistInv, Counts, NoneCounted
  <2>2. (counted = NoneCounted /\ histState = "ok"
         /\ bins = [b \in 0 .. bucket_count - 1 |-> 0] /\ bucket_count \in 0 .. IndexWidth - 1)'
    BY <1>2, <2>1, HistogramAssumption DEF InitBins, NoneCounted
  <2> QED BY <2>2, EmptyCounted, PTL
<1> QED BY <1>1, <1>2 DEF InitBins

LEMMA HistNextInv == HistInv /\ [StoresNext]_storesVars => HistInv'
<1> SUFFICES ASSUME HistInv, [StoresNext]_storesVars
             PROVE  HistInv'
  OBVIOUS
<1>1. CASE UNCHANGED histVars
  BY <1>1 DEF histVars, HistInv, SamplesCounted, Used
<1>2. CASE HistogramNext
  <2>0. histState = "ok"
    BY <1>2 DEF HistogramNext
  <2>1. ASSUME NEW n \in Buckets, InitBins(n)
        PROVE  HistInv'
    BY <2>0, <2>1, InitBinsKeeps
  <2>2. CASE FreeBins
    <3>1. (counted = NoneCounted /\ histState = "ok"
           /\ bins = [b \in 0 .. bucket_count - 1 |-> 0] /\ bucket_count \in 0 .. IndexWidth - 1)'
      BY <2>0, <2>2, HistogramAssumption DEF FreeBins, NoBins, NoneCounted
    <3> QED BY <3>1, EmptyCounted, PTL
  <2>3. ASSUME NEW index \in Indexes, CountBin(index), UNCHANGED bucket_count
        PROVE  HistInv'
    <3>0. index \in DOMAIN bins /\ bucket_count \in 0 .. IndexWidth - 1
          /\ DOMAIN bins = 0 .. bucket_count - 1
      BY <2>3 DEF CountBin, HistInv
    <3>1. index < bucket_count /\ index + 0 = index /\ 0 \in Offsets
      BY <3>0, HistogramAssumption
    <3> QED BY <2>0, <2>3, <3>1, CountKeeps DEF CountBin
  <2>4. ASSUME NEW index \in Indexes, NEW schema \in Schema, AddSample(index, schema),
               UNCHANGED bucket_count
        PROVE  HistInv'
    <3>1. CASE UNCHANGED <<bins, histState, counted>>
      BY <2>4, <3>1 DEF HistInv, SamplesCounted, Used
    <3>2. CASE InRange(index) /\ BinIncr((index + schema.bin_offset) % IndexWidth)
               /\ counted' = [counted EXCEPT ![<<index, schema.bin_offset>>] = @ + 1]
      <4>1. schema.bin_offset \in Offsets
        BY DEF Schema
      <4> DEFINE bin == (index + schema.bin_offset) % IndexWidth
      <4>2. index + schema.bin_offset < bucket_count => bin = index + schema.bin_offset
        <5>1. PICK sum : sum = index + schema.bin_offset
          OBVIOUS
        <5>2. sum \in Nat /\ IndexWidth \in Nat \ {0} /\ bucket_count \in 0 .. IndexWidth - 1
          BY <4>1, <5>1, HistogramAssumption DEF HistInv
        <5>3. sum < bucket_count => sum % IndexWidth = sum
          BY <5>2
        <5> QED BY <5>1, <5>3
      <4> HIDE DEF bin
      <4>3. BinIncr(bin)
        BY <3>2 DEF bin
      <4> QED BY <2>0, <2>4, <3>2, <4>1, <4>2, <4>3, CountKeeps DEF InRange
    <3> QED BY <2>4, <3>1, <3>2 DEF AddSample
  <2> QED BY <1>2, <2>1, <2>2, <2>3, <2>4 DEF HistogramNext
<1> QED BY <1>1, <1>2 DEF StoresNext, storesVars

(* Every bin has counted exactly the samples that were meant for it, for   *)
(* any number of bins, any schemas and any widths, unless an offset has    *)
(* carried a sample past the last bin.                                     *)
THEOREM SamplesCountedAlways == StoresSpec => []SamplesCounted
<1>1. HistInv => SamplesCounted
  BY DEF HistInv
<1> QED BY <1>1, HistInitInv, HistNextInv, PTL DEF StoresSpec

(***************************************************************************)
(* Quotients, and powers.                                                  *)
(***************************************************************************)

LEMMA Divided ==
  ASSUME NEW a \in Nat, NEW w \in Nat \ {0}
  PROVE  /\ a \div w \in Nat /\ a % w \in 0 .. w - 1
         /\ a = ((a \div w) * w) + (a % w)
<1> DEFINE q == a \div w
           r == a % w
<1>1. r \in 0 .. w - 1 /\ q \in Int /\ a = (q * w) + r
  BY Remainder
<1> HIDE DEF q, r
<1>2. q \in Nat
  <2> SUFFICES ASSUME q <= -1
               PROVE  FALSE
    BY <1>1
  <2>1. q * w <= -w
    BY <1>1
  <2> QED BY <1>1, <2>1
<1> QED BY <1>1, <1>2 DEF q, r

(* A quotient and a remainder that fit are the ones.                       *)
LEMMA DividedOnce ==
  ASSUME NEW w \in Nat \ {0}, NEW q \in Nat, NEW r \in 0 .. w - 1
  PROVE  /\ (r + (w * q)) \div w = q
         /\ (r + (w * q)) % w = r
<1> DEFINE a == r + (w * q)
           p == a \div w
           s == a % w
<1>1. a \in Nat /\ a = (q * w) + r
  <2>1. w * q \in Nat /\ w * q = q * w
    OBVIOUS
  <2> QED BY <2>1
<1>2. p \in Nat /\ s \in 0 .. w - 1 /\ a = (p * w) + s
  <2> HIDE DEF a
  <2> QED BY <1>1, Divided
<1>3. s = r
  <2> HIDE DEF a, p, s
  <2>1. (p * w) + s = (q * w) + r
    BY <1>1, <1>2
  <2> QED BY <1>2, <2>1, QuotientOnce
<1>4. p = q
  <2> HIDE DEF a, p, s
  <2>1. p * w = q * w
    BY <1>1, <1>2, <1>3
  <2>2. CASE p < q
    <3>1. (q - p) * w >= w
      BY <1>2, <2>2
    <3> QED BY <1>2, <2>1, <3>1
  <2>3. CASE q < p
    <3>1. (p - q) * w >= w
      BY <1>2, <2>3
    <3> QED BY <1>2, <2>1, <3>1
  <2> QED BY <1>2, <2>2, <2>3
<1> QED BY <1>3, <1>4

(* What the recursive definition of PowerOf stands for.                    *)
LEMMA PowerIs ==
  ASSUME NEW b \in Nat \ {0}, NEW n \in Nat
  PROVE  \E f : /\ f = [k \in 0 .. n |-> IF k = 0 THEN 1 ELSE b * f[k - 1]]
                /\ PowerOf(b, n) = f[n]
                /\ \A k \in 0 .. n : f[k] \in Nat \ {0}
<1> DEFINE Step(f) == [k \in 0 .. n |-> IF k = 0 THEN 1 ELSE b * f[k - 1]]
           power == CHOOSE f : f = Step(f)
           step == [p \in (1 .. n) \X Nat |-> b * p[2]]
<1>1. PICK g : IsRecursive(g, n, 1, step)
  <2> HIDE DEF step
  <2> QED BY RecursiveUpTo
<1>2. g[0] = 1 /\ \A k \in 1 .. n : g[k - 1] \in Nat => g[k] = b * g[k - 1]
  BY <1>1 DEF IsRecursive
<1> DEFINE T(f) == {k \in Nat : k <= n => f[k] \in Nat \ {0}}
<1>3. ASSUME NEW f, f[0] = 1,
             \A k \in 1 .. n : f[k - 1] \in Nat => f[k] = b * f[k - 1]
      PROVE  \A k \in 0 .. n : f[k] \in Nat \ {0}
  <2>1. 0 \in T(f)
    BY <1>3
  <2>2. ASSUME NEW k \in Nat, k \in T(f)
        PROVE  k + 1 \in T(f)
    <3> SUFFICES ASSUME k + 1 <= n
                 PROVE  f[k + 1] \in Nat \ {0}
      OBVIOUS
    <3>1. f[k] \in Nat \ {0} /\ k + 1 \in 1 .. n /\ (k + 1) - 1 = k
      BY <2>2
    <3>2. f[k + 1] = b * f[k]
      BY <1>3, <3>1
    <3>3. b * f[k] \in Nat \ {0}
      BY <3>1
    <3> QED BY <3>2, <3>3
  <2>3. Nat \subseteq T(f)
    <3> HIDE DEF T
    <3> QED BY <2>1, <2>2, Induction
  <2> QED BY <2>3
<1>4. \A k \in 0 .. n : g[k] \in Nat \ {0}
  BY <1>2, <1>3
<1> DEFINE h == [k \in 0 .. n |-> g[k]]
<1>5. h = Step(h)
  <2>1. ASSUME NEW k \in 0 .. n
        PROVE  h[k] = IF k = 0 THEN 1 ELSE b * h[k - 1]
    <3>1. CASE k = 0
      BY <1>2, <3>1
    <3>2. CASE k # 0
      <4>1. k \in 1 .. n /\ k - 1 \in 0 .. n
        BY <3>2
      <4>2. g[k - 1] \in Nat
        BY <1>4, <4>1
      <4> QED BY <1>2, <4>1, <4>2
    <3> QED BY <3>1, <3>2
  <2> HIDE DEF h
  <2>2. DOMAIN h = 0 .. n /\ h = [k \in 0 .. n |-> h[k]]
    BY DEF h
  <2> QED BY <2>1, <2>2
<1>6. power = Step(power)
  <2> HIDE DEF Step, h
  <2> QED BY <1>5
<1>7. PowerOf(b, n) = power[n]
  BY DEF PowerOf
<1> HIDE DEF power
<1>8. power[0] = 1 /\ \A k \in 1 .. n : power[k] = b * power[k - 1]
  <2>1. \A k \in 0 .. n : power[k] = IF k = 0 THEN 1 ELSE b * power[k - 1]
    BY <1>6
  <2> QED BY <2>1
<1>9. \A k \in 0 .. n : power[k] \in Nat \ {0}
  BY <1>3, <1>8
<1> QED BY <1>6, <1>7, <1>9

LEMMA PowerOfNone ==
  ASSUME NEW b \in Nat \ {0}
  PROVE  PowerOf(b, 0) = 1
<1>1. PICK f : /\ f = [k \in 0 .. 0 |-> IF k = 0 THEN 1 ELSE b * f[k - 1]]
               /\ PowerOf(b, 0) = f[0]
  BY PowerIs
<1>2. 0 \in 0 .. 0
  OBVIOUS
<1> QED BY <1>1, <1>2

LEMMA PowerOfOneMore ==
  ASSUME NEW b \in Nat \ {0}, NEW n \in Nat
  PROVE  /\ PowerOf(b, n) \in Nat \ {0}
         /\ PowerOf(b, n + 1) = b * PowerOf(b, n)
<1>1. PICK f : /\ f = [k \in 0 .. n |-> IF k = 0 THEN 1 ELSE b * f[k - 1]]
               /\ PowerOf(b, n) = f[n]
               /\ \A k \in 0 .. n : f[k] \in Nat \ {0}
  BY PowerIs
<1>2. n + 1 \in Nat
  OBVIOUS
<1>3. PICK g : /\ g = [k \in 0 .. n + 1 |-> IF k = 0 THEN 1 ELSE b * g[k - 1]]
               /\ PowerOf(b, n + 1) = g[n + 1]
  BY <1>2, PowerIs
<1>4. g[0] = 1 /\ \A k \in 1 .. n + 1 : g[k] = b * g[k - 1]
  <2>1. \A k \in 0 .. n + 1 : g[k] = IF k = 0 THEN 1 ELSE b * g[k - 1]
    BY <1>3
  <2> QED BY <2>1
<1>5. f[0] = 1 /\ \A k \in 1 .. n : f[k] = b * f[k - 1]
  <2>1. \A k \in 0 .. n : f[k] = IF k = 0 THEN 1 ELSE b * f[k - 1]
    BY <1>1
  <2> QED BY <2>1
<1> DEFINE T == {k \in Nat : k <= n => g[k] = f[k]}
<1>6. Nat \subseteq T
  <2>1. 0 \in T
    BY <1>4, <1>5
  <2>2. ASSUME NEW k \in Nat, k \in T
        PROVE  k + 1 \in T
    <3> SUFFICES ASSUME k + 1 <= n
                 PROVE  g[k + 1] = f[k + 1]
      OBVIOUS
    <3>1. k + 1 \in 1 .. n /\ k + 1 \in 1 .. n + 1 /\ (k + 1) - 1 = k /\ g[k] = f[k]
      BY <2>2
    <3>2. g[k + 1] = b * g[k] /\ f[k + 1] = b * f[k]
      BY <1>4, <1>5, <3>1
    <3> QED BY <3>1, <3>2
  <2> HIDE DEF T
  <2> QED BY <2>1, <2>2, Induction
<1>7. g[n] = f[n] /\ f[n] \in Nat \ {0}
  BY <1>1, <1>6
<1>8. g[n + 1] = b * g[n]
  <2>1. n + 1 \in 1 .. n + 1 /\ (n + 1) - 1 = n
    OBVIOUS
  <2> QED BY <1>4, <2>1
<1> QED BY <1>1, <1>3, <1>7, <1>8

(***************************************************************************)
(* Numbers as sums of places, each with the weight of a power of the base. *)
(***************************************************************************)

Places(b, s, u) == [k \in 1 .. u |-> (s[k] % b) * PowerOf(b, k - 1)]
PlacesUpTo(b, s, u, n) == SumFunctionOnSet(Places(b, s, u), 1 .. n)

(* What is not in the first places has the weight of the next.             *)
Behind(b, s, u, n) ==
  \E t \in Nat : PlacesUpTo(b, s, u, u) = PlacesUpTo(b, s, u, n) + (PowerOf(b, n) * t)

LEMMA PlaceDigit ==
  ASSUME NEW b \in Nat \ {0}, NEW x \in Nat
  PROVE  x % b \in 0 .. b - 1 /\ x % b \in Nat
<1>1. x % b \in 0 .. b - 1
  BY Divided
<1>2. 0 .. b - 1 \subseteq Nat
  OBVIOUS
<1> QED BY <1>1, <1>2

LEMMA PowerIsPower ==
  ASSUME NEW b \in Nat \ {0}, NEW n \in Nat
  PROVE  /\ PowerOf(b, 0) = 1
         /\ PowerOf(b, n) \in Nat \ {0}
         /\ PowerOf(b, n + 1) = b * PowerOf(b, n)
         /\ b \in Nat \ {0}
BY PowerOfNone, PowerOfOneMore

LEMMA PlacesAdd ==
  ASSUME NEW b \in Nat \ {0}, NEW u \in Nat, NEW s, \A k \in 1 .. u : s[k] \in Nat
  PROVE  /\ PlacesUpTo(b, s, u, 0) = 0
         /\ \A n \in 0 .. u : PlacesUpTo(b, s, u, n) \in Nat
         /\ \A n \in 0 .. u - 1 :
              PlacesUpTo(b, s, u, n + 1) = (s[n + 1] % b) * PowerOf(b, n) + PlacesUpTo(b, s, u, n)
<1> DEFINE g == Places(b, s, u)
<1>1. g \in [1 .. u -> Nat] /\ \A k \in 1 .. u : g[k] = (s[k] % b) * PowerOf(b, k - 1)
  <2>1. ASSUME NEW k \in 1 .. u
        PROVE  (s[k] % b) * PowerOf(b, k - 1) \in Nat
    <3>1. k - 1 \in Nat /\ s[k] \in Nat
      OBVIOUS
    <3>2. s[k] % b \in Nat /\ PowerOf(b, k - 1) \in Nat
      BY <3>1, PlaceDigit, PowerIsPower
    <3> QED BY <3>2
  <2> QED BY <2>1 DEF Places
<1> HIDE DEF g
<1>2. PlacesUpTo(b, s, u, 0) = 0
  <2>1. 1 .. 0 = {}
    OBVIOUS
  <2> QED BY <2>1, SumStarts DEF PlacesUpTo
<1>3. ASSUME NEW n \in 0 .. u - 1
      PROVE  PlacesUpTo(b, s, u, n + 1) = g[n + 1] + PlacesUpTo(b, s, u, n)
  <2>1. n \in Nat /\ 1 .. n + 1 \subseteq 1 .. u /\ g \in [1 .. u -> Int]
    BY <1>1
  <2> QED BY <2>1, SumOfOneMore, SMTT(30) DEF PlacesUpTo, g
<1> DEFINE T == {n \in Nat : n <= u => PlacesUpTo(b, s, u, n) \in Nat}
<1>4. Nat \subseteq T
  <2>1. 0 \in T
    BY <1>2
  <2>2. ASSUME NEW n \in Nat, n \in T
        PROVE  n + 1 \in T
    <3> SUFFICES ASSUME n + 1 <= u
                 PROVE  PlacesUpTo(b, s, u, n + 1) \in Nat
      OBVIOUS
    <3>1. n \in 0 .. u - 1 /\ n + 1 \in 1 .. u /\ PlacesUpTo(b, s, u, n) \in Nat
      BY <2>2
    <3>2. g[n + 1] \in Nat
      BY <1>1, <3>1
    <3> QED BY <1>3, <3>1, <3>2
  <2> HIDE DEF T
  <2> QED BY <2>1, <2>2, Induction
<1>5. \A n \in 0 .. u : PlacesUpTo(b, s, u, n) \in Nat
  BY <1>4
<1>6. ASSUME NEW n \in 0 .. u - 1
      PROVE  PlacesUpTo(b, s, u, n + 1) = (s[n + 1] % b) * PowerOf(b, n) + PlacesUpTo(b, s, u, n)
  <2>1. n + 1 \in 1 .. u /\ (n + 1) - 1 = n
    OBVIOUS
  <2> QED BY <1>1, <1>3, <2>1
<1> QED BY <1>2, <1>5, <1>6

(* Distributing a product, with nothing around that could be multiplied.   *)
LEMMA Distributes ==
  ASSUME NEW a \in Nat, NEW d \in Nat, NEW p \in Nat, NEW g \in Nat, NEW r \in Nat
  PROVE  ((d * p) + a) + ((g * p) * r) = a + (p * (d + (g * r)))
<1>1. p * (d + (g * r)) = (p * d) + (p * (g * r))
  OBVIOUS
<1>2. (g * p) * r = p * (g * r)
  OBVIOUS
<1>3. d * p = p * d
  OBVIOUS
<1> DEFINE x == p * d
           y == p * (g * r)
<1>4. x \in Nat /\ y \in Nat
  OBVIOUS
<1>5. (x + a) + y = a + (x + y)
  <2> HIDE DEF x, y
  <2> QED BY <1>4
<1> QED BY <1>1, <1>2, <1>3, <1>5

(* The first places never reach the weight of the next.                     *)
LEMMA PlacesStayBelow ==
  ASSUME NEW b \in Nat \ {0}, NEW u \in Nat, NEW s, \A k \in 1 .. u : s[k] \in Nat
  PROVE  \A n \in 0 .. u : PlacesUpTo(b, s, u, n) \in 0 .. PowerOf(b, n) - 1
<1>0. /\ PlacesUpTo(b, s, u, 0) = 0
      /\ \A n \in 0 .. u : PlacesUpTo(b, s, u, n) \in Nat
      /\ \A n \in 0 .. u - 1 :
           PlacesUpTo(b, s, u, n + 1) = (s[n + 1] % b) * PowerOf(b, n) + PlacesUpTo(b, s, u, n)
  BY PlacesAdd
<1> DEFINE T == {n \in Nat : n <= u => PlacesUpTo(b, s, u, n) < PowerOf(b, n)}
<1>1. 0 \in T
  BY <1>0, PowerIsPower
<1>2. ASSUME NEW n \in Nat, n \in T
      PROVE  n + 1 \in T
  <2> SUFFICES ASSUME n + 1 <= u
               PROVE  PlacesUpTo(b, s, u, n + 1) < PowerOf(b, n + 1)
    OBVIOUS
  <2> DEFINE d == s[n + 1] % b
             a == PlacesUpTo(b, s, u, n)
             p == PowerOf(b, n)
  <2>1. n \in 0 .. u - 1 /\ n \in 0 .. u /\ n + 1 \in 1 .. u
    OBVIOUS
  <2>2. PlacesUpTo(b, s, u, n + 1) = (d * p) + a /\ a < p /\ a \in Nat
    BY <1>0, <1>2, <2>1
  <2>3. p \in Nat \ {0} /\ PowerOf(b, n + 1) = b * p /\ b \in Nat \ {0}
    BY PowerIsPower
  <2>4. d \in 0 .. b - 1
    BY <2>1, PlaceDigit
  <2> HIDE DEF d, a, p
  <2>5. (b - d) * p >= p
    BY <2>3, <2>4
  <2>6. (b - d) * p = (b * p) - (d * p)
    BY <2>3, <2>4
  <2>7. b * p \in Nat /\ d * p \in Nat
    BY <2>3, <2>4
  <2> QED BY <2>2, <2>3, <2>5, <2>6, <2>7
<1>3. Nat \subseteq T
  <2> HIDE DEF T
  <2> QED BY <1>1, <1>2, Induction
<1>4. ASSUME NEW n \in 0 .. u
      PROVE  PlacesUpTo(b, s, u, n) \in 0 .. PowerOf(b, n) - 1
  <2>1. n \in Nat /\ PlacesUpTo(b, s, u, n) \in Nat /\ PlacesUpTo(b, s, u, n) < PowerOf(b, n)
    BY <1>0, <1>3
  <2>2. PowerOf(b, n) \in Nat
    BY <2>1, PowerIsPower
  <2> QED BY <2>1, <2>2
<1> QED BY <1>4

(* What the first places leave of the sum of all is a multiple of the next *)
(* place's weight.                                                         *)
LEMMA PlacesBehind ==
  ASSUME NEW b \in Nat \ {0}, NEW u \in Nat, NEW s, \A k \in 1 .. u : s[k] \in Nat
  PROVE  \A n \in 0 .. u : Behind(b, s, u, n)
<1> DEFINE all == PlacesUpTo(b, s, u, u)
           Left(n) == \E t \in Nat : all = PlacesUpTo(b, s, u, n) + (PowerOf(b, n) * t)
           T == {j \in Nat : j <= u => Left(u - j)}
<1>0. /\ \A n \in 0 .. u : PlacesUpTo(b, s, u, n) \in Nat
      /\ \A n \in 0 .. u - 1 :
           PlacesUpTo(b, s, u, n + 1) = (s[n + 1] % b) * PowerOf(b, n) + PlacesUpTo(b, s, u, n)
  BY PlacesAdd
<1>1. 0 \in T
  <2>1. PowerOf(b, u) \in Nat /\ all \in Nat /\ u - 0 = u
    BY <1>0, PowerIsPower
  <2>2. all = all + (PowerOf(b, u) * 0)
    <3> HIDE DEF all
    <3> QED BY <2>1
  <2> QED BY <2>1, <2>2
<1>2. ASSUME NEW j \in Nat, j \in T
      PROVE  j + 1 \in T
  <2> SUFFICES ASSUME j + 1 <= u
               PROVE  Left(u - (j + 1))
    OBVIOUS
  <2> DEFINE n == u - (j + 1)
             d == s[n + 1] % b
             a == PlacesUpTo(b, s, u, n)
             p == PowerOf(b, n)
  <2>1. n \in Nat /\ n \in 0 .. u - 1 /\ n \in 0 .. u /\ n + 1 \in 1 .. u /\ u - j = n + 1
    OBVIOUS
  <2>2. PICK t \in Nat : all = PlacesUpTo(b, s, u, n + 1) + (PowerOf(b, n + 1) * t)
    BY <1>2, <2>1
  <2> HIDE DEF n, all
  <2>3. PlacesUpTo(b, s, u, n + 1) = (d * p) + a /\ a \in Nat
    BY <1>0, <2>1
  <2>4. d \in Nat
    BY <2>1, PlaceDigit
  <2>5. p \in Nat /\ PowerOf(b, n + 1) = b * p /\ b \in Nat
    BY <2>1, PowerIsPower
  <2> HIDE DEF d, a, p
  <2>6. ((d * p) + a) + ((b * p) * t) = a + (p * (d + (b * t)))
    BY <2>3, <2>4, <2>5, Distributes
  <2>7. all = a + (p * (d + (b * t)))
    BY <2>2, <2>3, <2>5, <2>6
  <2>8. d + (b * t) \in Nat
    BY <2>4, <2>5
  <2> QED BY <2>7, <2>8 DEF a, p, n
<1>3. Nat \subseteq T
  <2> HIDE DEF T
  <2> QED BY <1>1, <1>2, Induction
<1>4. ASSUME NEW n \in 0 .. u
      PROVE  Left(n)
  <2>1. u - n \in Nat /\ u - n <= u /\ u - (u - n) = n
    OBVIOUS
  <2>2. u - n \in T
    BY <1>3, <2>1
  <2> QED BY <2>1, <2>2
<1> QED BY <1>4 DEF Behind

(***************************************************************************)
(* Variable-length integers.                                               *)
(***************************************************************************)

(* What the recursive definition of Rest stands for.                       *)
LEMMA RestIs ==
  ASSUME NEW v \in Nat, NEW n \in Nat
  PROVE  \E f : /\ f[0] = v /\ \A k \in 1 .. n : f[k] = f[k - 1] \div Group
                /\ Rest(v, n) = f[n]
                /\ \A k \in 0 .. n : f[k] \in Nat
<1> DEFINE Step(f) == [k \in 0 .. n |-> IF k = 0 THEN v ELSE f[k - 1] \div Group]
           left == CHOOSE f : f = Step(f)
           step == [p \in (1 .. n) \X Nat |-> p[2] \div Group]
<1>1. PICK g : IsRecursive(g, n, v, step)
  <2> HIDE DEF step
  <2> QED BY RecursiveUpTo
<1>2. g[0] = v /\ \A k \in 1 .. n : g[k - 1] \in Nat => g[k] = g[k - 1] \div Group
  BY <1>1 DEF IsRecursive
<1> DEFINE T(f) == {k \in Nat : k <= n => f[k] \in Nat}
<1>3. ASSUME NEW f, f[0] = v,
             \A k \in 1 .. n : f[k - 1] \in Nat => f[k] = f[k - 1] \div Group
      PROVE  \A k \in 0 .. n : f[k] \in Nat
  <2>1. 0 \in T(f)
    BY <1>3
  <2>2. ASSUME NEW k \in Nat, k \in T(f)
        PROVE  k + 1 \in T(f)
    <3> SUFFICES ASSUME k + 1 <= n
                 PROVE  f[k + 1] \in Nat
      OBVIOUS
    <3>1. f[k] \in Nat /\ k + 1 \in 1 .. n /\ (k + 1) - 1 = k
      BY <2>2
    <3>2. f[k + 1] = f[k] \div Group
      BY <1>3, <3>1
    <3>3. f[k] \div Group \in Nat
      BY <3>1, Divided, VarintAssumption
    <3> QED BY <3>2, <3>3
  <2>3. Nat \subseteq T(f)
    <3> HIDE DEF T
    <3> QED BY <2>1, <2>2, Induction
  <2> QED BY <2>3
<1>4. \A k \in 0 .. n : g[k] \in Nat
  BY <1>2, <1>3
<1> DEFINE h == [k \in 0 .. n |-> g[k]]
<1>5. h = Step(h)
  <2>1. ASSUME NEW k \in 0 .. n
        PROVE  h[k] = IF k = 0 THEN v ELSE h[k - 1] \div Group
    <3>1. CASE k = 0
      BY <1>2, <3>1
    <3>2. CASE k # 0
      <4>1. k \in 1 .. n /\ k - 1 \in 0 .. n
        BY <3>2
      <4>2. g[k - 1] \in Nat
        BY <1>4, <4>1
      <4> QED BY <1>2, <4>1, <4>2
    <3> QED BY <3>1, <3>2
  <2> HIDE DEF h
  <2>2. DOMAIN h = 0 .. n /\ h = [k \in 0 .. n |-> h[k]]
    BY DEF h
  <2> QED BY <2>1, <2>2
<1>6. left = Step(left)
  <2> HIDE DEF Step, h
  <2> QED BY <1>5
<1>7. Rest(v, n) = left[n]
  BY DEF Rest
<1> HIDE DEF left
<1>8. left[0] = v /\ \A k \in 1 .. n : left[k] = left[k - 1] \div Group
  <2>1. \A k \in 0 .. n : left[k] = IF k = 0 THEN v ELSE left[k - 1] \div Group
    BY <1>6
  <2> QED BY <2>1
<1>9. \A k \in 0 .. n : left[k] \in Nat
  BY <1>3, <1>8
<1> QED BY <1>7, <1>8, <1>9

LEMMA RestOfOneMore ==
  ASSUME NEW v \in Nat, NEW n \in Nat
  PROVE  /\ Rest(v, 0) = v
         /\ Rest(v, n) \in Nat
         /\ Rest(v, n + 1) = Rest(v, n) \div Group
<1>0. Rest(v, 0) = v
  BY RestIs
<1>1. PICK f : /\ f[0] = v /\ \A k \in 1 .. n : f[k] = f[k - 1] \div Group
               /\ Rest(v, n) = f[n]
               /\ \A k \in 0 .. n : f[k] \in Nat
  BY RestIs
<1>2. n + 1 \in Nat
  OBVIOUS
<1>3. PICK g : /\ g[0] = v /\ \A k \in 1 .. n + 1 : g[k] = g[k - 1] \div Group
               /\ Rest(v, n + 1) = g[n + 1]
  <2> DEFINE m == n + 1
  <2>1. m \in Nat
    OBVIOUS
  <2> HIDE DEF m
  <2>2. \E g : /\ g[0] = v /\ \A k \in 1 .. m : g[k] = g[k - 1] \div Group
               /\ Rest(v, m) = g[m]
    BY <2>1, RestIs
  <2> QED BY <2>2 DEF m
<1> DEFINE T == {k \in Nat : k <= n => g[k] = f[k]}
<1>4. Nat \subseteq T
  <2>1. 0 \in T
    BY <1>1, <1>3
  <2>2. ASSUME NEW k \in Nat, k \in T
        PROVE  k + 1 \in T
    <3> SUFFICES ASSUME k + 1 <= n
                 PROVE  g[k + 1] = f[k + 1]
      OBVIOUS
    <3>1. k + 1 \in 1 .. n /\ k + 1 \in 1 .. n + 1 /\ (k + 1) - 1 = k /\ g[k] = f[k]
      BY <2>2
    <3>2. g[k + 1] = g[k] \div Group /\ f[k + 1] = f[k] \div Group
      BY <1>1, <1>3, <3>1
    <3> QED BY <3>1, <3>2
  <2> HIDE DEF T
  <2> QED BY <2>1, <2>2, Induction
<1>5. g[n] = f[n] /\ f[n] \in Nat
  BY <1>1, <1>4
<1>6. g[n + 1] = g[n] \div Group
  <2>1. n + 1 \in 1 .. n + 1 /\ (n + 1) - 1 = n
    OBVIOUS
  <2> QED BY <1>3, <2>1
<1> QED BY <1>0, <1>1, <1>3, <1>5, <1>6

(* A number of groups and the sum of the first of them.                    *)
SumUpTo(s, u, n) == PlacesUpTo(Group, s, u, n)
Weight(n) == PowerOf(Group, n)

LEMMA Weights ==
  ASSUME NEW n \in Nat
  PROVE  /\ Weight(0) = 1
         /\ Weight(n) \in Nat \ {0}
         /\ Weight(n + 1) = Group * Weight(n)
         /\ Group \in Nat \ {0}
BY VarintAssumption, PowerOfNone, PowerOfOneMore DEF Weight

LEMMA GroupDigit ==
  ASSUME NEW x \in Nat
  PROVE  x % Group \in 0 .. Group - 1 /\ x % Group \in Nat
<1>1. Group \in Nat \ {0}
  BY VarintAssumption
<1> QED BY <1>1, PlaceDigit

LEMMA SumUpToIs ==
  ASSUME NEW u \in Nat, NEW s, \A k \in 1 .. u : s[k] \in Nat
  PROVE  /\ SumUpTo(s, u, 0) = 0
         /\ \A n \in 0 .. u : SumUpTo(s, u, n) \in Nat
         /\ \A n \in 0 .. u - 1 :
              SumUpTo(s, u, n + 1) = (s[n + 1] % Group) * Weight(n) + SumUpTo(s, u, n)
<1>1. Group \in Nat \ {0}
  BY VarintAssumption
<1> QED BY <1>1, PlacesAdd DEF SumUpTo, Weight

AddsUp(v, s, u, n) == SumUpTo(s, u, n) + (Weight(n) * Rest(v, n)) = v

(* When the groups are those that a number leaves, the sum of the first    *)
(* of them and what is left make the number.                               *)
LEMMA GroupsAddUp ==
  ASSUME NEW v \in Nat, NEW u \in Nat, NEW s,
         \A k \in 1 .. u : s[k] \in Nat /\ s[k] % Group = Rest(v, k - 1) % Group
  PROVE  \A n \in 0 .. u : AddsUp(v, s, u, n)
<1>0. /\ SumUpTo(s, u, 0) = 0
      /\ \A n \in 0 .. u : SumUpTo(s, u, n) \in Nat
      /\ \A n \in 0 .. u - 1 :
           SumUpTo(s, u, n + 1) = (s[n + 1] % Group) * Weight(n) + SumUpTo(s, u, n)
  BY SumUpToIs
<1> DEFINE T == {n \in Nat : n <= u => SumUpTo(s, u, n) + (Weight(n) * Rest(v, n)) = v}
<1>1. 0 \in T
  <2>1. Weight(0) = 1 /\ Rest(v, 0) = v
    BY Weights, RestOfOneMore
  <2> QED BY <1>0, <2>1
<1>2. ASSUME NEW n \in Nat, n \in T
      PROVE  n + 1 \in T
  <2> SUFFICES ASSUME n + 1 <= u
               PROVE  SumUpTo(s, u, n + 1) + (Weight(n + 1) * Rest(v, n + 1)) = v
    OBVIOUS
  <2> DEFINE d == Rest(v, n) % Group
             r == Rest(v, n + 1)
             a == SumUpTo(s, u, n)
             p == Weight(n)
  <2>1. n \in 0 .. u - 1 /\ n \in 0 .. u /\ n + 1 \in 1 .. u /\ (n + 1) - 1 = n
    OBVIOUS
  <2>2. a + (p * Rest(v, n)) = v
    BY <1>2, <2>1
  <2>3. Rest(v, n) \in Nat /\ r = Rest(v, n) \div Group /\ r \in Nat
    <3>1. n + 1 \in Nat
      OBVIOUS
    <3> QED BY <3>1, RestOfOneMore
  <2>4. Rest(v, n) = d + (Group * r) /\ d \in Nat
    <3>1. Group \in Nat \ {0}
      BY Weights
    <3>2. Rest(v, n) = (r * Group) + d /\ d \in 0 .. Group - 1
      BY <2>3, <3>1, Divided
    <3>3. r * Group = Group * r
      BY <2>3, <3>1
    <3>4. r * Group \in Nat
      BY <2>3, <3>1
    <3> HIDE DEF d, r
    <3> QED BY <3>2, <3>3, <3>4
  <2>5. SumUpTo(s, u, n + 1) = (d * p) + a
    BY <1>0, <2>1
  <2>6. Weight(n + 1) = Group * p /\ p \in Nat /\ Group \in Nat
    BY Weights
  <2>7. a \in Nat
    BY <1>0, <2>1
  <2> HIDE DEF a, p, d, r
  <2>8. ((d * p) + a) + ((Group * p) * r) = a + (p * (d + (Group * r)))
    BY <2>3, <2>4, <2>6, <2>7, Distributes
  <2> QED BY <2>2, <2>4, <2>5, <2>6, <2>8 DEF r
<1>3. Nat \subseteq T
  <2> HIDE DEF T
  <2> QED BY <1>1, <1>2, Induction
<1> QED BY <1>3 DEF AddsUp

(* The width of an integer is a multiple of every weight, and no more than *)
(* that behind the last group.                                             *)
LEMMA WidthIs ==
  /\ Width \in Nat \ {0} /\ MaxGroups \in Nat \ {0}
  /\ Width <= Weight(MaxGroups)
  /\ \A k \in 0 .. MaxGroups - 1 : \E q \in Nat : Width = q * Weight(k)
<1>0. Width \in Nat \ {0} /\ MaxGroups \in Nat \ {0} /\ Group \in Nat \ {0}
  BY VarintAssumption
<1> DEFINE n == MaxGroups - 1
           p == Weight(n)
<1>1. PICK values \in 1 .. Group : Width = values * p
  BY VarintAssumption DEF Weight
<1>2. n \in Nat /\ n + 1 = MaxGroups /\ p \in Nat \ {0} /\ Weight(MaxGroups) = Group * p
  <2>1. n \in Nat /\ n + 1 = MaxGroups
    BY <1>0
  <2>2. p \in Nat \ {0} /\ Weight(n + 1) = Group * p
    <3> HIDE DEF n
    <3> QED BY <2>1, Weights
  <2> QED BY <2>1, <2>2
<1>3. Width <= Weight(MaxGroups)
  <2> HIDE DEF p
  <2>1. values * p <= Group * p
    BY <1>0, <1>2
  <2> QED BY <1>1, <1>2, <2>1
<1> DEFINE T == {j \in Nat : j <= n => \E q \in Nat : Width = q * Weight(n - j)}
<1>4. 0 \in T
  BY <1>1, <1>2
<1>5. ASSUME NEW j \in Nat, j \in T
      PROVE  j + 1 \in T
  <2> SUFFICES ASSUME j + 1 <= n
               PROVE  \E q \in Nat : Width = q * Weight(n - (j + 1))
    OBVIOUS
  <2>1. PICK q \in Nat : Width = q * Weight(n - j)
    BY <1>2, <1>5
  <2> DEFINE k == n - (j + 1)
  <2>2. k \in Nat /\ n - j = k + 1
    BY <1>2
  <2> HIDE DEF k, n
  <2>3. Weight(n - j) = Group * Weight(k) /\ Weight(k) \in Nat
    BY <2>2, Weights
  <2>4. Width = (q * Group) * Weight(k)
    <3>1. q * (Group * Weight(k)) = (q * Group) * Weight(k)
      BY <1>0, <2>3
    <3> QED BY <2>1, <2>3, <3>1
  <2>5. q * Group \in Nat
    BY <1>0
  <2> QED BY <2>4, <2>5 DEF k
<1>6. Nat \subseteq T
  <2> HIDE DEF T
  <2> QED BY <1>4, <1>5, Induction
<1>7. ASSUME NEW k \in 0 .. n
      PROVE  \E q \in Nat : Width = q * Weight(k)
  <2>1. n - k \in Nat /\ n - k <= n /\ n - (n - k) = k
    BY <1>2
  <2>2. n - k \in T
    BY <1>6, <2>1
  <2> QED BY <2>1, <2>2
<1> QED BY <1>0, <1>3, <1>7

(* The first groups never reach the weight of the next.                    *)
LEMMA GroupsStayBelow ==
  ASSUME NEW u \in Nat, NEW s, \A k \in 1 .. u : s[k] \in Nat
  PROVE  \A n \in 0 .. u : SumUpTo(s, u, n) \in 0 .. Weight(n) - 1
<1>1. Group \in Nat \ {0}
  BY VarintAssumption
<1> QED BY <1>1, PlacesStayBelow DEF SumUpTo, Weight

(* What is left is what the weight goes into the number without the rest.  *)
LEMMA RestOnce ==
  ASSUME NEW v \in Nat, NEW n \in Nat, NEW t \in Nat, NEW a \in 0 .. Weight(n) - 1,
         v = a + (Weight(n) * t)
  PROVE  Rest(v, n) = t
<1> DEFINE s == [k \in 1 .. n |-> Rest(v, k - 1)]
           b == SumUpTo(s, n, n)
           p == Weight(n)
           r == Rest(v, n)
<1>1. \A k \in 1 .. n : s[k] \in Nat /\ s[k] % Group = Rest(v, k - 1) % Group
  <2>1. ASSUME NEW k \in 1 .. n
        PROVE  Rest(v, k - 1) \in Nat
    <3>1. k - 1 \in Nat
      OBVIOUS
    <3> QED BY <3>1, RestOfOneMore
  <2> QED BY <2>1
<1>2. b + (p * r) = v /\ b \in 0 .. p - 1
  <2> HIDE DEF s
  <2>1. \A m \in 0 .. n : AddsUp(v, s, n, m)
    BY <1>1, GroupsAddUp
  <2>2. \A m \in 0 .. n : SumUpTo(s, n, m) \in 0 .. Weight(m) - 1
    <3>1. \A k \in 1 .. n : s[k] \in Nat
      BY <1>1
    <3> QED BY <3>1, GroupsStayBelow
  <2>3. n \in 0 .. n
    OBVIOUS
  <2> QED BY <2>1, <2>2, <2>3 DEF AddsUp
<1>3. r \in Nat /\ p \in Nat \ {0}
  BY RestOfOneMore, Weights
<1> HIDE DEF b, p, r
<1>4. (b + (p * r)) \div p = r
  BY <1>2, <1>3, DividedOnce
<1>5. (a + (p * t)) \div p = t
  BY <1>3, DividedOnce DEF p
<1>6. b + (p * r) = a + (p * t)
  BY <1>2 DEF p
<1> QED BY <1>4, <1>5, <1>6 DEF r

LEMMA NothingRests ==
  ASSUME NEW v \in Nat, NEW n \in Nat, NEW k \in 0 .. n, Rest(v, k) = 0
  PROVE  Rest(v, n) = 0
<1> DEFINE T == {m \in Nat : m >= k => Rest(v, m) = 0}
<1>1. 0 \in T
  <2>1. 0 >= k => k = 0
    OBVIOUS
  <2> QED BY <2>1
<1>2. ASSUME NEW m \in Nat, m \in T
      PROVE  m + 1 \in T
  <2> SUFFICES ASSUME m + 1 >= k
               PROVE  Rest(v, m + 1) = 0
    OBVIOUS
  <2>1. CASE m + 1 = k
    BY <2>1
  <2>2. CASE m + 1 # k
    <3>1. Rest(v, m) = 0
      BY <1>2, <2>2
    <3>2. Rest(v, m + 1) = 0 \div Group
      BY <3>1, RestOfOneMore
    <3>3. Group \in Nat \ {0} /\ 0 \in 0 .. Group - 1 /\ 0 + (Group * 0) = 0
      BY VarintAssumption
    <3>4. 0 \div Group = 0
      BY <3>3, DividedOnce
    <3> QED BY <3>2, <3>4
  <2> QED BY <2>1, <2>2
<1>3. Nat \subseteq T
  <2> HIDE DEF T
  <2> QED BY <1>1, <1>2, Induction
<1> QED BY <1>3

LEMMA RestEnds ==
  ASSUME NEW v \in 0 .. Width - 1
  PROVE  v \in Nat /\ Rest(v, MaxGroups) = 0
<1>1. Width \in Nat /\ MaxGroups \in Nat /\ Width <= Weight(MaxGroups)
  BY WidthIs
<1>2. v \in Nat /\ Weight(MaxGroups) \in Nat /\ v < Weight(MaxGroups)
  BY <1>1, Weights
<1>3. v \in 0 .. Weight(MaxGroups) - 1 /\ v = v + (Weight(MaxGroups) * 0)
  BY <1>2
<1> QED BY <1>1, <1>2, <1>3, RestOnce

(* The bytes of a number that n groups hold and fewer do not.              *)
LEMMA EncodedIs ==
  ASSUME NEW v \in Nat, NEW n \in 1 .. MaxGroups, Rest(v, n) = 0,
         \A k \in 1 .. n - 1 : Rest(v, k) # 0
  PROVE  Encoded(v) = [k \in 1 .. n |->
                        (Rest(v, k - 1) % Group) + (IF k < n THEN Group ELSE 0)]
<1> DEFINE S == {k \in 1 .. MaxGroups : Rest(v, k) = 0}
<1>1. n \in S /\ S \in SUBSET Nat /\ \A k \in S : n <= k
  <2>1. ASSUME NEW k \in S, k < n
        PROVE  FALSE
    <3>1. k \in 1 .. n - 1
      BY <2>1
    <3> QED BY <3>1
  <2> QED BY <2>1
<1> HIDE DEF S
<1>2. Min(S) \in S /\ \A k \in S : Min(S) <= k
  <2>1. S \in SUBSET Nat /\ S # {}
    BY <1>1
  <2> QED BY <2>1, MinIs
<1>3. Min(S) = n
  <2>1. Min(S) <= n /\ n <= Min(S) /\ Min(S) \in Nat /\ n \in Nat
    BY <1>1, <1>2
  <2> QED BY <2>1
<1> QED BY <1>3 DEF Encoded, S

LEMMA EncodedTo ==
  ASSUME NEW v \in 0 .. Width - 1
  PROVE  \E n \in 1 .. MaxGroups : Rest(v, n) = 0 /\ \A k \in 1 .. n - 1 : Rest(v, k) # 0
<1> DEFINE S == {k \in 1 .. MaxGroups : Rest(v, k) = 0}
<1>1. MaxGroups \in S /\ S \in SUBSET Nat
  <2>1. MaxGroups \in 1 .. MaxGroups
    BY VarintAssumption
  <2> QED BY <2>1, RestEnds
<1>2. PICK n \in S : \A k \in S : n <= k
  <2> HIDE DEF S
  <2> QED BY <1>1, LeastNumber
<1>3. ASSUME NEW k \in 1 .. n - 1
      PROVE  Rest(v, k) # 0
  <2>1. n \in 1 .. MaxGroups /\ MaxGroups \in Nat
    BY VarintAssumption
  <2>2. k \in 1 .. MaxGroups /\ ~ (n <= k)
    BY <2>1
  <2> QED BY <1>2, <2>2
<1> QED BY <1>3

LEMMA GroupRest ==
  ASSUME NEW r \in 0 .. Group - 1
  PROVE  r % Group = r /\ (r + Group) % Group = r
<1>1. Group \in Nat \ {0} /\ r \in Nat
  BY VarintAssumption
<1>2. r + (Group * 0) = r /\ r + (Group * 1) = r + Group
  BY <1>1
<1>3. (r + (Group * 0)) % Group = r /\ (r + (Group * 1)) % Group = r
  BY <1>1, DividedOnce
<1> QED BY <1>2, <1>3

(* Where a value ends, if the first byte without a mark is at u.           *)
LEMMA EndsAt ==
  ASSUME NEW s \in Seq(Nat), NEW u \in 1 .. MaxGroups, u <= Len(s),
         ~Marked(s[u]), \A k \in 1 .. u - 1 : Marked(s[k])
  PROVE  u \in Ends(s) /\ Min(Ends(s)) = u
<1> DEFINE last == Min({Len(s), MaxGroups})
<1>0. Len(s) \in Nat /\ MaxGroups \in Nat
  BY VarintAssumption
<1>1. last = IF Len(s) <= MaxGroups THEN Len(s) ELSE MaxGroups
  BY <1>0, MinOfTwo
<1> HIDE DEF last
<1> DEFINE E == {k \in 1 .. last : ~Marked(s[k])}
<1>2. Ends(s) = E
  BY DEF Ends, last
<1>3. u \in E /\ E \in SUBSET Nat
  BY <1>0, <1>1
<1>4. ASSUME NEW k \in E
      PROVE  u <= k
  <2> SUFFICES ASSUME k < u
               PROVE  FALSE
    BY <1>0, <1>1
  <2>1. k \in 1 .. u - 1
    BY <1>0, <1>1
  <2> QED BY <2>1
<1> HIDE DEF E
<1>5. Min(E) = u
  <2>1. E \in SUBSET Nat /\ E # {}
    BY <1>3
  <2>2. Min(E) \in E /\ \A k \in E : Min(E) <= k
    BY <2>1, MinIs
  <2>3. Min(E) <= u /\ u <= Min(E) /\ Min(E) \in Nat
    BY <1>3, <1>4, <2>2
  <2> QED BY <2>3
<1> QED BY <1>2, <1>3, <1>5

LEMMA SomeEnd ==
  ASSUME NEW s \in Seq(Nat), Ends(s) # {}
  PROVE  \E u \in 1 .. MaxGroups :
           /\ u <= Len(s) /\ ~Marked(s[u]) /\ Min(Ends(s)) = u
           /\ \A k \in 1 .. u - 1 : Marked(s[k])
<1> DEFINE last == Min({Len(s), MaxGroups})
<1>0. Len(s) \in Nat /\ MaxGroups \in Nat
  BY VarintAssumption
<1>1. last = IF Len(s) <= MaxGroups THEN Len(s) ELSE MaxGroups
  BY <1>0, MinOfTwo
<1> HIDE DEF last
<1> DEFINE E == {k \in 1 .. last : ~Marked(s[k])}
<1>2. Ends(s) = E
  BY DEF Ends, last
<1>3. E \in SUBSET Nat /\ E # {}
  BY <1>0, <1>1, <1>2
<1>4. PICK u \in E : \A k \in E : u <= k
  <2> HIDE DEF E
  <2> QED BY <1>3, LeastNumber
<1>5. u \in 1 .. MaxGroups /\ u <= Len(s) /\ ~Marked(s[u])
  BY <1>0, <1>1
<1>6. \A k \in 1 .. u - 1 : Marked(s[k])
  <2> SUFFICES ASSUME NEW k \in 1 .. u - 1, ~Marked(s[k])
               PROVE  FALSE
    OBVIOUS
  <2>1. k \in E /\ k < u
    BY <1>0, <1>1
  <2> HIDE DEF E
  <2>2. u <= k
    BY <1>4, <2>1
  <2> QED BY <1>5, <2>1, <2>2
<1>7. Min(Ends(s)) = u
  BY <1>5, <1>6, EndsAt
<1> QED BY <1>5, <1>6, <1>7

LEMMA SomeEndIs ==
  ASSUME NEW s \in Seq(Nat), Ends(s) = {}
  PROVE  (\A k \in DOMAIN s : Marked(s[k])) \/ Len(s) > MaxGroups
<1> SUFFICES ASSUME NEW k \in DOMAIN s, ~Marked(s[k]), ~(Len(s) > MaxGroups)
             PROVE  FALSE
  OBVIOUS
<1> DEFINE last == Min({Len(s), MaxGroups})
<1>0. Len(s) \in Nat /\ MaxGroups \in Nat
  BY VarintAssumption
<1>1. last = IF Len(s) <= MaxGroups THEN Len(s) ELSE MaxGroups
  BY <1>0, MinOfTwo
<1>2. k \in 1 .. last
  <2> HIDE DEF last
  <2> QED BY <1>0, <1>1
<1>3. k \in Ends(s)
  BY <1>2 DEF Ends
<1> QED BY <1>3

(* What is decoded is the sum of the groups, less what is beyond the width.*)
LEMMA DecodedIs ==
  ASSUME NEW s, NEW u \in Nat, Min(Ends(s)) = u
  PROVE  Decoded(s) = SumUpTo(s, u, u) % Width
<1> DEFINE d == Places(Group, s, u)
<1>1. d = [k \in 1 .. u |-> (s[k] % Group) * PowerOf(Group, k - 1)]
  BY DEF Places
<1>2. DOMAIN d = 1 .. u
  BY <1>1
<1>3. [k \in 1 .. Min(Ends(s)) |-> (s[k] % Group) * PowerOf(Group, k - 1)] = d
  BY <1>1
<1> HIDE DEF d
<1>4. SumFunction(d) = SumFunctionOnSet(d, 1 .. u)
  BY <1>2 DEF SumFunction
<1>5. Decoded(s) = SumFunction(d) % Width
  BY <1>3 DEF Decoded
<1> QED BY <1>4, <1>5 DEF SumUpTo, PlacesUpTo, d

LEMMA FitsWidth ==
  ASSUME NEW v \in 0 .. Width - 1
  PROVE  v % Width = v
<1>1. Width \in Nat \ {0} /\ v \in Nat /\ v + (Width * 0) = v
  BY WidthIs
<1>2. (v + (Width * 0)) % Width = v
  BY <1>1, DividedOnce
<1> QED BY <1>1, <1>2

LEMMA FirstBytes ==
  ASSUME NEW s \in Seq(Nat), NEW n \in Nat, n <= Len(s)
  PROVE  SubSeq(s, 1, n) = [k \in 1 .. n |-> s[k]]
<1>1. SubSeq(s, 1, n) \in Seq(Nat) /\ Len(SubSeq(s, 1, n)) = n
  OBVIOUS
<1>2. \A k \in 1 .. n : SubSeq(s, 1, n)[k] = s[k]
  OBVIOUS
<1> QED BY <1>1, <1>2

LEMMA AllGroupsAddUp ==
  ASSUME NEW v \in Nat, NEW u \in Nat, NEW s,
         \A k \in 1 .. u : s[k] \in Nat /\ s[k] % Group = Rest(v, k - 1) % Group
  PROVE  AddsUp(v, s, u, u)
<1>1. \A n \in 0 .. u : AddsUp(v, s, u, n)
  BY GroupsAddUp
<1>2. u \in 0 .. u
  OBVIOUS
<1> QED BY <1>1, <1>2

(* A value's bytes, whatever follows them, are decoded to the value.       *)
LEMMA DecodesEncoded ==
  ASSUME NEW v \in 0 .. Width - 1, NEW s \in Seq(Nat),
         Len(Encoded(v)) <= Len(s),
         \A k \in 1 .. Len(Encoded(v)) : s[k] = Encoded(v)[k]
  PROVE  /\ Ends(s) # {} /\ Decoded(s) = v
         /\ Encoded(v) = SubSeq(s, 1, Min(Ends(s)))
<1>0. MaxGroups \in Nat /\ Group \in Nat \ {0} /\ v \in Nat
  BY VarintAssumption, RestEnds
<1>1. PICK n \in 1 .. MaxGroups : Rest(v, n) = 0 /\ \A k \in 1 .. n - 1 : Rest(v, k) # 0
  BY EncodedTo
<1> DEFINE e == [k \in 1 .. n |-> (Rest(v, k - 1) % Group) + (IF k < n THEN Group ELSE 0)]
<1>2. Encoded(v) = e /\ Len(e) = n /\ n \in Nat
  BY <1>0, <1>1, EncodedIs
<1>3. n <= Len(s) /\ \A k \in 1 .. n : s[k] = e[k]
  <2> HIDE DEF e
  <2> QED BY <1>2
<1>4. ASSUME NEW k \in 1 .. n
      PROVE  /\ Rest(v, k - 1) % Group \in 0 .. Group - 1
             /\ s[k] = (Rest(v, k - 1) % Group) + (IF k < n THEN Group ELSE 0)
  <2>1. k - 1 \in Nat
    OBVIOUS
  <2>2. Rest(v, k - 1) \in Nat
    BY <1>0, <2>1, RestOfOneMore
  <2> QED BY <1>3, <2>2, GroupDigit
<1>5. \A k \in 1 .. n : s[k] \in Nat /\ s[k] % Group = Rest(v, k - 1) % Group
  <2> SUFFICES ASSUME NEW k \in 1 .. n
               PROVE  s[k] \in Nat /\ s[k] % Group = Rest(v, k - 1) % Group
    OBVIOUS
  <2> DEFINE r == Rest(v, k - 1) % Group
  <2>1. r \in 0 .. Group - 1 /\ s[k] = r + (IF k < n THEN Group ELSE 0)
    BY <1>4
  <2> HIDE DEF r
  <2>2. r \in Nat /\ (s[k] = r \/ s[k] = r + Group)
    BY <1>0, <2>1
  <2>3. r % Group = r /\ (r + Group) % Group = r
    BY <2>1, GroupRest
  <2>4. s[k] % Group = r
    BY <2>2, <2>3
  <2>5. s[k] \in Nat
    BY <1>0, <2>2
  <2> QED BY <2>4, <2>5 DEF r
<1>6. ~Marked(s[n]) /\ \A k \in 1 .. n - 1 : Marked(s[k])
  <2>1. n \in 1 .. n /\ ~(n < n)
    BY <1>1
  <2>2. s[n] = (Rest(v, n - 1) % Group) + 0 /\ Rest(v, n - 1) % Group \in 0 .. Group - 1
    BY <1>4, <2>1
  <2>3. ~Marked(s[n])
    BY <1>0, <2>2 DEF Marked
  <2>4. ASSUME NEW k \in 1 .. n - 1
        PROVE  Marked(s[k])
    <3>1. k \in 1 .. n /\ k < n
      BY <1>2
    <3>2. s[k] = (Rest(v, k - 1) % Group) + Group /\ Rest(v, k - 1) % Group \in 0 .. Group - 1
      BY <1>4, <3>1
    <3> QED BY <1>0, <3>2 DEF Marked
  <2> QED BY <2>3, <2>4
<1>7. n \in Ends(s) /\ Min(Ends(s)) = n
  BY <1>3, <1>6, EndsAt
<1>8. SumUpTo(s, n, n) = v
  <2>1. SumUpTo(s, n, n) + (Weight(n) * Rest(v, n)) = v
    <3> HIDE DEF e
    <3>1. AddsUp(v, s, n, n)
      BY <1>0, <1>2, <1>5, AllGroupsAddUp
    <3> QED BY <3>1 DEF AddsUp
  <2>2. SumUpTo(s, n, n) \in Nat /\ Weight(n) \in Nat
    <3>1. \A m \in 0 .. n : SumUpTo(s, n, m) \in Nat
      BY <1>2, <1>5, SumUpToIs
    <3>2. n \in 0 .. n
      BY <1>2
    <3> QED BY <1>2, <3>1, <3>2, Weights
  <2> QED BY <1>1, <2>1, <2>2
<1>9. Decoded(s) = v
  <2>1. Decoded(s) = SumUpTo(s, n, n) % Width
    BY <1>2, <1>7, DecodedIs
  <2> QED BY <1>8, <2>1, FitsWidth
<1>10. Encoded(v) = SubSeq(s, 1, n)
  <2>1. SubSeq(s, 1, n) = [k \in 1 .. n |-> s[k]]
    BY <1>2, <1>3, FirstBytes
  <2>2. DOMAIN e = 1 .. n /\ e = [k \in 1 .. n |-> e[k]]
    OBVIOUS
  <2> HIDE DEF e
  <2> QED BY <1>2, <1>3, <2>1, <2>2
<1> QED BY <1>7, <1>9, <1>10

(* What is left of that sum, and the group that is written next.           *)
LEMMA RestOfSum ==
  ASSUME NEW u \in Nat, NEW s, \A k \in 1 .. u : s[k] \in Nat, NEW k \in 1 .. u
  PROVE  \E t \in Nat : /\ Rest(SumUpTo(s, u, u), k) = t
                        /\ Rest(SumUpTo(s, u, u), k - 1) = (s[k] % Group) + (Group * t)
<1> DEFINE all == SumUpTo(s, u, u)
           n == k - 1
           d == s[k] % Group
           a == SumUpTo(s, u, n)
           p == Weight(n)
<1>0. n \in Nat /\ n \in 0 .. u /\ n \in 0 .. u - 1 /\ n + 1 = k /\ k \in 0 .. u /\ k \in Nat /\ u \in 0 .. u
  OBVIOUS
<1>1. /\ \A m \in 0 .. u : SumUpTo(s, u, m) \in Nat
      /\ \A m \in 0 .. u - 1 :
           SumUpTo(s, u, m + 1) = (s[m + 1] % Group) * Weight(m) + SumUpTo(s, u, m)
  BY SumUpToIs
<1>2. \A m \in 0 .. u : SumUpTo(s, u, m) \in 0 .. Weight(m) - 1
  BY GroupsStayBelow
<1>3. PICK t \in Nat : all = SumUpTo(s, u, k) + (Weight(k) * t)
  <2>1. Group \in Nat \ {0}
    BY VarintAssumption
  <2>2. \A m \in 0 .. u : Behind(Group, s, u, m)
    BY <2>1, PlacesBehind
  <2> QED BY <1>0, <2>2 DEF Behind, SumUpTo, Weight
<1>4. all \in Nat
  BY <1>0, <1>1
<1>5. SumUpTo(s, u, k) \in 0 .. Weight(k) - 1 /\ a \in 0 .. p - 1 /\ a \in Nat
  BY <1>0, <1>1, <1>2
<1>6. SumUpTo(s, u, k) = (d * p) + a
  <2> HIDE DEF n
  <2>1. SumUpTo(s, u, n + 1) = (s[n + 1] % Group) * Weight(n) + SumUpTo(s, u, n)
    BY <1>0, <1>1
  <2> QED BY <1>0, <2>1
<1> HIDE DEF all, n
<1>7. Rest(all, k) = t
  BY <1>0, <1>3, <1>4, <1>5, RestOnce
<1>8. d \in Nat
  BY GroupDigit
<1>9. p \in Nat /\ Weight(k) = Group * p /\ Group \in Nat
  BY <1>0, Weights
<1> HIDE DEF d
<1>10. all = a + (p * (d + (Group * t)))
  <2> HIDE DEF a, p
  <2>1. ((d * p) + a) + ((Group * p) * t) = a + (p * (d + (Group * t)))
    BY <1>5, <1>8, <1>9, Distributes
  <2> QED BY <1>3, <1>6, <1>9, <2>1
<1>11. Rest(all, n) = d + (Group * t)
  <2>1. d + (Group * t) \in Nat
    BY <1>8, <1>9
  <2> QED BY <1>0, <1>4, <1>5, <1>10, <2>1, RestOnce
<1> QED BY <1>7, <1>11 DEF all, n, d

(* Bytes of a value that has no more groups than it needs, and fits.       *)
LEMMA EncodesDecoded ==
  ASSUME NEW s, NEW u \in 1 .. MaxGroups,
         \A k \in 1 .. u : s[k] \in 0 .. (2 * Group) - 1,
         ~Marked(s[u]), \A k \in 1 .. u - 1 : Marked(s[k]),
         u > 1 => s[u] # 0, s[u] * Weight(u - 1) < Width
  PROVE  /\ SumUpTo(s, u, u) \in 0 .. Width - 1
         /\ Encoded(SumUpTo(s, u, u)) = [k \in 1 .. u |-> s[k]]
<1> DEFINE all == SumUpTo(s, u, u)
           p == Weight(u - 1)
<1>0. u \in Nat /\ MaxGroups \in Nat /\ Group \in Nat \ {0}
  BY VarintAssumption
<1>1. \A k \in 1 .. u : s[k] \in Nat
  BY <1>0
<1>2. \A m \in 0 .. u : SumUpTo(s, u, m) \in 0 .. Weight(m) - 1
  BY <1>0, <1>1, GroupsStayBelow
<1>3. s[u] % Group = s[u] /\ s[u] \in Nat
  <2>1. s[u] \in 0 .. Group - 1
    BY <1>0 DEF Marked
  <2> QED BY <1>0, <2>1, GroupRest
<1>4. all \in 0 .. Width - 1 /\ all \in Nat
  <2>1. u - 1 \in 0 .. MaxGroups - 1 /\ u - 1 \in Nat /\ u - 1 \in 0 .. u - 1 /\ u - 1 \in 0 .. u /\ (u - 1) + 1 = u
    BY <1>0
  <2>2. PICK q \in Nat : Width = q * p
    BY <2>1, WidthIs
  <2> DEFINE a == SumUpTo(s, u, u - 1)
  <2>3. all = (s[u] * p) + a
    <3>1. \A m \in 0 .. u - 1 :
            SumUpTo(s, u, m + 1) = (s[m + 1] % Group) * Weight(m) + SumUpTo(s, u, m)
      BY <1>0, <1>1, SumUpToIs
    <3> DEFINE m == u - 1
    <3>2. SumUpTo(s, u, m + 1) = (s[m + 1] % Group) * Weight(m) + SumUpTo(s, u, m)
      BY <2>1, <3>1
    <3> QED BY <1>3, <2>1, <3>2
  <2>4. p \in Nat \ {0} /\ a \in 0 .. p - 1
    BY <1>2, <2>1, Weights
  <2> HIDE DEF p, a
  <2> DEFINE x == s[u]
  <2>5. x \in Nat /\ x * p < q * p
    BY <1>3, <2>2 DEF p
  <2> HIDE DEF x
  <2>6. x < q
    <3> SUFFICES ASSUME q <= x
                 PROVE  FALSE
      BY <2>5
    <3>1. (x - q) * p >= 0
      BY <2>4, <2>5
    <3> QED BY <2>4, <2>5, <3>1
  <2>7. (q - x) * p >= p
    BY <2>4, <2>5, <2>6
  <2>8. (q - x) * p = (q * p) - (x * p)
    BY <2>4, <2>5
  <2>9. x * p \in Nat /\ q * p \in Nat
    BY <2>4, <2>5
  <2>10. all = (x * p) + a
    BY <2>3 DEF x
  <2> QED BY <2>2, <2>4, <2>7, <2>8, <2>9, <2>10
<1>5. ASSUME NEW k \in 1 .. u
      PROVE  \E t \in Nat : Rest(all, k) = t /\ Rest(all, k - 1) = (s[k] % Group) + (Group * t)
  BY <1>0, <1>1, RestOfSum
<1> HIDE DEF all
<1>6. ASSUME NEW k \in 1 .. u
      PROVE  Rest(all, k - 1) % Group = s[k] % Group
  <2>1. PICK t \in Nat : Rest(all, k - 1) = (s[k] % Group) + (Group * t)
    BY <1>5
  <2>2. s[k] % Group \in 0 .. Group - 1
    BY <1>1, GroupDigit
  <2> QED BY <1>0, <2>1, <2>2, DividedOnce
<1>7. Rest(all, u) = 0
  <2>1. all \in 0 .. Weight(u) - 1 /\ Weight(u) \in Nat
    <3>1. u \in 0 .. u
      BY <1>0
    <3> QED BY <1>0, <1>2, <3>1, Weights DEF all
  <2>2. all = all + (Weight(u) * 0)
    BY <1>4, <2>1
  <2> QED BY <1>0, <1>4, <2>1, <2>2, RestOnce
<1>8. ASSUME NEW k \in 1 .. u - 1
      PROVE  Rest(all, k) # 0
  <2> SUFFICES ASSUME Rest(all, k) = 0
               PROVE  FALSE
    OBVIOUS
  <2>1. u - 1 \in Nat /\ k \in 0 .. u - 1 /\ u \in 1 .. u /\ u > 1
    BY <1>0
  <2>2. Rest(all, u - 1) = 0
    BY <1>4, <2>1, NothingRests
  <2>3. PICK t \in Nat : Rest(all, u) = t /\ Rest(all, u - 1) = (s[u] % Group) + (Group * t)
    BY <1>5, <2>1
  <2>4. t = 0
    BY <1>7, <2>3
  <2>5. s[u] = 0
    BY <1>0, <1>3, <2>2, <2>3, <2>4
  <2> QED BY <2>1, <2>5
<1>9. Encoded(all) = [k \in 1 .. u |->
                       (Rest(all, k - 1) % Group) + (IF k < u THEN Group ELSE 0)]
  BY <1>4, <1>7, <1>8, EncodedIs
<1>10. ASSUME NEW k \in 1 .. u
       PROVE  (Rest(all, k - 1) % Group) + (IF k < u THEN Group ELSE 0) = s[k]
  <2>1. CASE k = u
    BY <1>0, <1>3, <1>6, <2>1
  <2>2. CASE k # u
    <3> DEFINE r == s[k] - Group
    <3>1. k \in 1 .. u - 1 /\ k < u
      BY <1>0, <2>2
    <3>2. r \in 0 .. Group - 1 /\ s[k] = r + Group
      BY <1>0, <3>1 DEF Marked
    <3>3. s[k] % Group = r
      BY <3>2, GroupRest
    <3> QED BY <1>6, <3>1, <3>2, <3>3
  <2> QED BY <2>1, <2>2
<1>11. Encoded(all) = [k \in 1 .. u |-> s[k]]
  BY <1>9, <1>10
<1> QED BY <1>4, <1>11 DEF all

VarintTypes ==
  /\ bytes \in Seq(0 .. (2 * Group) - 1)
  /\ value \in Nat /\ used \in Nat
  /\ varintStatus \in {"idle", "encoded", "IPMB_ERR_SHORT_READ", "round trip", "decoded"}

(* Between the two calls the bytes are those of the value.                 *)
VarintInv ==
  /\ VarintTypes
  /\ varintStatus = "encoded" => value \in 0 .. Width - 1 /\ bytes = Encoded(value)
  /\ VarintFaithful

LEMMA VarintInitInv == VarintInit => VarintInv
BY DEF VarintInit, VarintInv, VarintTypes, VarintFaithful

LEMMA EncodedTyped ==
  ASSUME NEW v \in 0 .. Width - 1
  PROVE  /\ Encoded(v) \in Seq(0 .. (2 * Group) - 1)
         /\ \A k \in 1 .. Len(Encoded(v)) - 1 : Marked(Encoded(v)[k])
<1>0. MaxGroups \in Nat /\ Group \in Nat \ {0} /\ v \in Nat
  BY VarintAssumption, RestEnds
<1>1. PICK n \in 1 .. MaxGroups : Rest(v, n) = 0 /\ \A k \in 1 .. n - 1 : Rest(v, k) # 0
  BY EncodedTo
<1> DEFINE e == [k \in 1 .. n |-> (Rest(v, k - 1) % Group) + (IF k < n THEN Group ELSE 0)]
<1>2. Encoded(v) = e /\ n \in Nat
  BY <1>0, <1>1, EncodedIs
<1>3. ASSUME NEW k \in 1 .. n
      PROVE  Rest(v, k - 1) % Group \in 0 .. Group - 1
  <2>1. k - 1 \in Nat
    BY <1>2
  <2>2. Rest(v, k - 1) \in Nat
    BY <1>0, <2>1, RestOfOneMore
  <2> QED BY <2>2, GroupDigit
<1>4. ASSUME NEW k \in 1 .. n
      PROVE  e[k] \in 0 .. (2 * Group) - 1 /\ (k < n => Marked(e[k]))
  <2> DEFINE r == Rest(v, k - 1) % Group
  <2>1. r \in 0 .. Group - 1
    BY <1>3
  <2>2. e[k] = r + (IF k < n THEN Group ELSE 0)
    OBVIOUS
  <2> HIDE DEF r, e
  <2> QED BY <1>0, <2>1, <2>2 DEF Marked
<1>5. e \in Seq(0 .. (2 * Group) - 1) /\ Len(e) = n
  <2>1. DOMAIN e = 1 .. n /\ e = [k \in 1 .. n |-> e[k]]
    OBVIOUS
  <2> DEFINE B == 0 .. (2 * Group) - 1
  <2>2. \A k \in 1 .. n : e[k] \in B
    BY <1>4
  <2> HIDE DEF e, B
  <2>3. e \in [1 .. n -> B]
    BY <2>1, <2>2
  <2>4. e \in Seq(B) /\ Len(e) = n
    BY <1>2, <2>3
  <2> QED BY <2>4 DEF B
<1>6. \A k \in 1 .. n - 1 : Marked(e[k])
  <2> HIDE DEF e
  <2>1. \A k \in 1 .. n - 1 : k \in 1 .. n /\ k < n
    BY <1>2
  <2> QED BY <1>4, <2>1
<1> HIDE DEF e
<1> QED BY <1>2, <1>5, <1>6

LEMMA CutEncoded ==
  ASSUME NEW v \in 0 .. Width - 1, NEW room \in Nat, Len(Encoded(v)) > room
  PROVE  /\ SubSeq(Encoded(v), 1, room) \in Seq(0 .. (2 * Group) - 1)
         /\ \A k \in DOMAIN SubSeq(Encoded(v), 1, room) : Marked(SubSeq(Encoded(v), 1, room)[k])
<1> DEFINE e == Encoded(v)
           B == 0 .. (2 * Group) - 1
           s == SubSeq(e, 1, room)
<1>1. /\ e \in Seq(B)
      /\ \A k \in 1 .. Len(e) - 1 : Marked(e[k])
  BY EncodedTyped
<1>2. Len(e) > room
  OBVIOUS
<1> HIDE DEF e, B
<1>3. Len(e) \in Nat
  BY <1>1
<1>4. s \in Seq(B) /\ Len(s) = room /\ \A k \in 1 .. room : s[k] = e[k]
  BY <1>1, <1>2, <1>3
<1>5. \A k \in 1 .. room : k \in 1 .. Len(e) - 1
  BY <1>2, <1>3
<1>6. DOMAIN s = 1 .. room
  BY <1>4
<1> HIDE DEF s
<1>7. \A k \in DOMAIN s : Marked(s[k])
  BY <1>1, <1>4, <1>5, <1>6
<1> QED BY <1>4, <1>7 DEF s, e, B

LEMMA VarintEncodes == VarintInv /\ VarintEncode => VarintInv'
<1> SUFFICES ASSUME VarintInv, VarintEncode
             PROVE  VarintInv'
  OBVIOUS
<1>0. /\ \A x \in Room : x \in Nat
      /\ \A x \in 0 .. Width - 1 : x \in Nat
      /\ value \in Nat /\ used \in Nat
  <2>1. Room \subseteq Nat /\ Width \in Nat
    BY VarintAssumption
  <2>2. value \in Nat /\ used \in Nat
    BY DEF VarintInv, VarintTypes
  <2>3. \A x \in 0 .. Width - 1 : x \in Nat
    BY <2>1
  <2> QED BY <2>1, <2>2, <2>3
<1>1. PICK v \in 0 .. Width - 1, room \in Room :
        IF Len(Encoded(v)) > room
          THEN /\ varintStatus' = "IPMB_ERR_SHORT_READ"
               /\ bytes' = SubSeq(Encoded(v), 1, room)
               /\ UNCHANGED <<value, used>>
          ELSE /\ varintStatus' = "encoded"
               /\ bytes' = Encoded(v)
               /\ value' = v
               /\ used' = Len(bytes')
  BY DEF VarintEncode
<1> DEFINE B == 0 .. (2 * Group) - 1
<1>2. room \in Nat /\ v \in Nat
  BY <1>0
<1> HIDE DEF B
<1>3. CASE Len(Encoded(v)) > room
  <2>1. bytes' = SubSeq(Encoded(v), 1, room) /\ varintStatus' = "IPMB_ERR_SHORT_READ"
        /\ value' = value /\ used' = used
    BY <1>1, <1>3
  <2>2. bytes' \in Seq(B) /\ \A k \in DOMAIN bytes' : Marked(bytes'[k])
    BY <1>2, <1>3, <2>1, CutEncoded DEF B
  <2>3. VarintFaithful'
    BY <2>1, <2>2 DEF VarintFaithful, Marked
  <2>4. VarintTypes'
    BY <1>0, <2>1, <2>2 DEF VarintTypes, B
  <2> QED BY <2>1, <2>3, <2>4 DEF VarintInv
<1>4. CASE ~(Len(Encoded(v)) > room)
  <2>1. varintStatus' = "encoded" /\ bytes' = Encoded(v) /\ value' = v /\ used' = Len(Encoded(v))
    BY <1>1, <1>4
  <2>2. Encoded(v) \in Seq(B)
    BY EncodedTyped DEF B
  <2>3. Len(Encoded(v)) \in Nat
    BY <2>2
  <2>4. (bytes = Encoded(value))'
    BY <2>1
  <2>5. VarintFaithful'
    BY <2>1 DEF VarintFaithful
  <2>6. VarintTypes'
    BY <1>2, <2>1, <2>2, <2>3 DEF VarintTypes, B
  <2> QED BY <2>1, <2>4, <2>5, <2>6 DEF VarintInv
<1> QED BY <1>3, <1>4

LEMMA NatBytes == Seq(0 .. (2 * Group) - 1) \subseteq Seq(Nat)
<1>1. Group \in Nat \ {0}
  BY VarintAssumption
<1> QED BY <1>1

LEMMA RoundTripKeeps ==
  VarintInv /\ VarintDecode /\ varintStatus = "encoded" => VarintInv'
<1> SUFFICES ASSUME VarintInv, VarintDecode, varintStatus = "encoded"
             PROVE  VarintInv'
  OBVIOUS
<1> USE DEF VarintInv, VarintTypes
<1>0. Group \in Nat \ {0} /\ Width \in Nat \ {0}
  BY VarintAssumption
<1>1. bytes' \in {bytes, bytes \o <<Group>>} /\ bytes = Encoded(value) /\ value \in 0 .. Width - 1
  BY DEF VarintDecode
<1> DEFINE B == 0 .. (2 * Group) - 1
<1>2. /\ bytes' \in Seq(B) /\ Len(bytes) <= Len(bytes')
      /\ \A k \in 1 .. Len(bytes) : bytes'[k] = bytes[k]
  <2>1. Group \in B /\ bytes \in Seq(B)
    BY <1>0
  <2> HIDE DEF B
  <2>2. CASE bytes' = bytes
    BY <2>1, <2>2
  <2>3. CASE bytes' = bytes \o <<Group>>
    BY <2>1, <2>3
  <2> QED BY <1>1, <2>2, <2>3
<1> DEFINE s == bytes'
<1>3. s \in Seq(Nat)
  BY <1>2, NatBytes
<1> HIDE DEF B, s
<1>4. /\ Ends(s) # {} /\ Decoded(s) = value
      /\ Encoded(value) = SubSeq(s, 1, Min(Ends(s)))
  <2>1. Len(Encoded(value)) <= Len(s) /\ \A k \in 1 .. Len(Encoded(value)) : s[k] = Encoded(value)[k]
    BY <1>1, <1>2 DEF s
  <2> QED BY <1>1, <1>3, <2>1, DecodesEncoded
<1>5. varintStatus' = "round trip" /\ value' = Decoded(s) /\ used' = Min(Ends(s))
  BY <1>4 DEF VarintDecode, s
<1>6. used' \in Nat
  <2>1. PICK u \in 1 .. MaxGroups : Min(Ends(s)) = u
    BY <1>3, <1>4, SomeEnd
  <2>2. u \in Nat
    BY VarintAssumption
  <2> QED BY <1>5, <2>1, <2>2
<1>7. VarintFaithful'
  <2>1. value' = value
    BY <1>4, <1>5
  <2>2. Encoded(value') = SubSeq(bytes', 1, used')
    BY <1>4, <1>5, <2>1 DEF s
  <2>3. (Encoded(value) = SubSeq(bytes, 1, used))'
    BY <2>2
  <2> QED BY <1>5, <2>3 DEF VarintFaithful
<1> QED BY <1>2, <1>4, <1>5, <1>6, <1>7 DEF B

LEMMA DecodeKeeps ==
  VarintInv /\ VarintDecode /\ varintStatus = "idle" => VarintInv'
<1> SUFFICES ASSUME VarintInv, VarintDecode, varintStatus = "idle"
             PROVE  VarintInv'
  OBVIOUS
<1> USE DEF VarintInv, VarintTypes
<1>0. Group \in Nat \ {0} /\ Width \in Nat \ {0} /\ MaxGroups \in Nat
  BY VarintAssumption
<1> DEFINE s == bytes'
           B == 0 .. (2 * Group) - 1
<1>1. s \in Seq(B)
  BY VarintAssumption DEF VarintDecode
<1>2. s \in Seq(Nat)
  BY <1>1, NatBytes
<1>3. IF Ends(s) = {}
        THEN varintStatus' = "IPMB_ERR_SHORT_READ" /\ UNCHANGED <<value, used>>
        ELSE varintStatus' = "decoded" /\ value' = Decoded(s) /\ used' = Min(Ends(s))
  BY DEF VarintDecode
<1> HIDE DEF s
<1>4. CASE Ends(s) = {}
  <2>1. (\A k \in DOMAIN s : Marked(s[k])) \/ Len(s) > MaxGroups
    BY <1>2, <1>4, SomeEndIs
  <2>2. VarintFaithful'
    BY <1>3, <1>4, <2>1 DEF VarintFaithful, Marked, s
  <2> QED BY <1>1, <1>3, <1>4, <2>2 DEF s
<1>5. CASE Ends(s) # {}
  <2>1. PICK u \in 1 .. MaxGroups :
          /\ u <= Len(s) /\ ~Marked(s[u]) /\ Min(Ends(s)) = u
          /\ \A k \in 1 .. u - 1 : Marked(s[k])
    BY <1>2, <1>5, SomeEnd
  <2>2. varintStatus' = "decoded" /\ value' = Decoded(s) /\ used' = u /\ u \in Nat
    BY <1>0, <1>3, <1>5, <2>1
  <2> DEFINE all == SumUpTo(s, u, u)
  <2>3. ASSUME NEW k \in 1 .. u
        PROVE  s[k] \in B /\ s[k] \in Nat
    <3> HIDE DEF B
    <3>1. k \in 1 .. Len(s)
      BY <1>1, <2>1, <2>2
    <3> QED BY <1>1, <1>2, <3>1
  <2>4. all \in Nat
    <3>1. \A n \in 0 .. u : SumUpTo(s, u, n) \in Nat
      BY <2>2, <2>3, SumUpToIs
    <3>2. u \in 0 .. u
      BY <2>2
    <3> QED BY <3>1, <3>2
  <2>5. value' = all % Width
    BY <2>1, <2>2, DecodedIs
  <2> HIDE DEF all
  <2>6. value' \in Nat
    <3>1. all % Width \in 0 .. Width - 1
      BY <1>0, <2>4, Divided
    <3> QED BY <1>0, <2>5, <3>1
  <2>7. \/ u > 1 /\ s[u] = 0
        \/ s[u] * PowerOf(Group, u - 1) >= Width
        \/ Encoded(value') = SubSeq(s, 1, u)
    <3> SUFFICES ASSUME u > 1 => s[u] # 0, ~(s[u] * PowerOf(Group, u - 1) >= Width)
                 PROVE  Encoded(value') = SubSeq(s, 1, u)
      OBVIOUS
    <3>1. s[u] * Weight(u - 1) < Width
      <4>1. u \in 1 .. u /\ u - 1 \in Nat
        BY <2>2
      <4>2. s[u] \in Nat /\ Weight(u - 1) \in Nat
        BY <2>3, <4>1, Weights
      <4>3. s[u] * Weight(u - 1) \in Nat
        BY <4>2
      <4> QED BY <1>0, <4>3 DEF Weight
    <3>2. all \in 0 .. Width - 1 /\ Encoded(all) = [k \in 1 .. u |-> s[k]]
      <4>1. \A k \in 1 .. u : s[k] \in 0 .. (2 * Group) - 1
        BY <2>3
      <4> QED BY <2>1, <3>1, <4>1, EncodesDecoded DEF all
    <3>3. value' = all
      BY <2>5, <3>2, FitsWidth
    <3>4. SubSeq(s, 1, u) = [k \in 1 .. u |-> s[k]]
      BY <1>2, <2>1, <2>2, FirstBytes
    <3> QED BY <3>2, <3>3, <3>4
  <2>8. VarintFaithful'
    BY <2>2, <2>7 DEF VarintFaithful, s
  <2> QED BY <1>1, <2>2, <2>6, <2>8 DEF s
<1> QED BY <1>4, <1>5

LEMMA VarintNextInv == VarintInv /\ [VarintNext]_varintVars => VarintInv'
<1>1. VarintInv /\ UNCHANGED varintVars => VarintInv'
  <2> SUFFICES ASSUME VarintInv, UNCHANGED varintVars
               PROVE  VarintInv'
    OBVIOUS
  <2> QED BY DEF VarintInv, VarintTypes, VarintFaithful, varintVars
<1>2. VarintDecode => varintStatus \in {"idle", "encoded"}
  BY DEF VarintDecode
<1> QED BY <1>1, <1>2, VarintEncodes, RoundTripKeeps, DecodeKeeps DEF VarintNext

(* Whatever the width of an integer and of its groups: a value is decoded  *)
(* from exactly the bytes it was encoded to, whatever follows them, and    *)
(* what is decoded from other bytes is either encoded to them again, or    *)
(* has a superfluous group or bits beyond the width at its end.            *)
THEOREM VarintFaithfulAlways == VarintSpec => []VarintFaithful
<1>1. VarintInv => VarintFaithful
  BY DEF VarintInv
<1> QED BY <1>1, VarintInitInv, VarintNextInv, PTL DEF VarintSpec

(***************************************************************************)
(* The bit reader.                                                         *)
(***************************************************************************)

LEMMA PowerOfTwo ==
  ASSUME NEW n \in Nat
  PROVE  /\ PowerOf(2, 0) = 1 /\ PowerOf(2, n) \in Nat \ {0}
         /\ PowerOf(2, n + 1) = 2 * PowerOf(2, n)
<1>1. 2 \in Nat \ {0}
  OBVIOUS
<1> QED BY <1>1, PowerOfNone, PowerOfOneMore

LEMMA PowersMultiply ==
  ASSUME NEW m \in Nat, NEW n \in Nat
  PROVE  PowerOf(2, m + n) = PowerOf(2, m) * PowerOf(2, n)
<1> DEFINE T == {k \in Nat : PowerOf(2, m + k) = PowerOf(2, m) * PowerOf(2, k)}
<1>1. 0 \in T
  <2>1. m + 0 = m /\ PowerOf(2, m) \in Nat /\ PowerOf(2, 0) = 1
    BY PowerOfTwo
  <2> QED BY <2>1
<1>2. ASSUME NEW k \in Nat, k \in T
      PROVE  k + 1 \in T
  <2> DEFINE j == m + k
             p == PowerOf(2, m)
             q == PowerOf(2, k)
  <2>1. j \in Nat /\ m + (k + 1) = j + 1
    OBVIOUS
  <2>2. PowerOf(2, j) = p * q
    BY <1>2
  <2>3. p \in Nat /\ q \in Nat /\ PowerOf(2, k + 1) = 2 * q
    BY PowerOfTwo
  <2> HIDE DEF j
  <2>4. PowerOf(2, j + 1) = 2 * PowerOf(2, j)
    BY <2>1, PowerOfTwo
  <2> HIDE DEF p, q
  <2>5. PowerOf(2, j + 1) = p * (2 * q)
    BY <2>2, <2>3, <2>4
  <2> QED BY <2>1, <2>3, <2>5 DEF p
<1>3. Nat \subseteq T
  <2> HIDE DEF T
  <2> QED BY <1>1, <1>2, Induction
<1> QED BY <1>3

(* The weight of a byte among bits.                                        *)
LEMMA BytesAreBits ==
  ASSUME NEW n \in Nat
  PROVE  PowerOf(PowerOf(2, ByteBits), n) = PowerOf(2, ByteBits * n)
<1> DEFINE w == PowerOf(2, ByteBits)
           T == {k \in Nat : PowerOf(w, k) = PowerOf(2, ByteBits * k)}
<1>0. ByteBits \in Nat /\ w \in Nat \ {0}
  BY BitAssumption, PowerOfTwo
<1>1. 0 \in T
  <2>1. ByteBits * 0 = 0
    BY <1>0
  <2>2. PowerOf(w, 0) = 1 /\ PowerOf(2, 0) = 1
    <3> HIDE DEF w
    <3> QED BY <1>0, PowerOfNone, PowerOfTwo
  <2> QED BY <2>1, <2>2
<1>2. ASSUME NEW k \in Nat, k \in T
      PROVE  k + 1 \in T
  <2> DEFINE j == ByteBits * k
  <2>1. j \in Nat /\ ByteBits * (k + 1) = ByteBits + j
    BY <1>0
  <2>2. PowerOf(w, k) = PowerOf(2, j)
    BY <1>2
  <2> HIDE DEF j
  <2>3. PowerOf(2, ByteBits + j) = w * PowerOf(2, j)
    BY <1>0, <2>1, PowersMultiply
  <2> HIDE DEF w
  <2>4. PowerOf(w, k + 1) = w * PowerOf(w, k)
    BY <1>0, PowerOfOneMore
  <2>5. PowerOf(w, k + 1) = PowerOf(2, ByteBits * (k + 1))
    BY <2>1, <2>2, <2>3, <2>4
  <2> QED BY <2>5 DEF w
<1>3. Nat \subseteq T
  <2> HIDE DEF T
  <2> QED BY <1>1, <1>2, Induction
<1> QED BY <1>3

ByteValues == 0 .. PowerOf(2, ByteBits) - 1

LEMMA ByteIsDigit ==
  /\ PowerOf(2, ByteBits) \in Nat \ {0}
  /\ \A x \in ByteValues : x \in Nat /\ x % PowerOf(2, ByteBits) = x
<1> DEFINE w == PowerOf(2, ByteBits)
<1>1. w \in Nat \ {0}
  BY BitAssumption, PowerOfTwo
<1>2. ASSUME NEW x \in ByteValues
      PROVE  x \in Nat /\ x % w = x
  <2>1. x \in 0 .. w - 1
    BY DEF ByteValues
  <2> HIDE DEF w
  <2>2. x \in Nat /\ x + (w * 0) = x
    BY <1>1, <2>1
  <2>3. (x + (w * 0)) % w = x
    BY <1>1, <2>1, DividedOnce
  <2> QED BY <2>2, <2>3
<1> QED BY <1>1, <1>2

(* The bytes as a number are a sum of places to the base of a byte.        *)
LEMMA NumberIs ==
  ASSUME NEW octets \in Seq(ByteValues)
  PROVE  Number(octets) = PlacesUpTo(PowerOf(2, ByteBits), octets, Len(octets), Len(octets))
<1> DEFINE w == PowerOf(2, ByteBits)
           u == Len(octets)
           f == [k \in DOMAIN octets |-> octets[k] * PowerOf(2, ByteBits * (k - 1))]
           g == Places(w, octets, u)
<1>1. DOMAIN octets = 1 .. u
  OBVIOUS
<1>2. ASSUME NEW k \in 1 .. u
      PROVE  octets[k] * PowerOf(2, ByteBits * (k - 1)) = (octets[k] % w) * PowerOf(w, k - 1)
  <2> DEFINE j == k - 1
  <2>1. j \in Nat /\ octets[k] \in ByteValues
    OBVIOUS
  <2>2. octets[k] % w = octets[k]
    BY <2>1, ByteIsDigit
  <2> HIDE DEF j
  <2>3. PowerOf(w, j) = PowerOf(2, ByteBits * j)
    BY <2>1, BytesAreBits
  <2> HIDE DEF w
  <2> QED BY <2>2, <2>3 DEF j
<1>3. f = g
  <2>1. g = [k \in 1 .. u |-> (octets[k] % w) * PowerOf(w, k - 1)]
    BY DEF Places
  <2>2. f = [k \in 1 .. u |-> octets[k] * PowerOf(2, ByteBits * (k - 1))]
    BY <1>1
  <2> HIDE DEF f, g, w
  <2> QED BY <1>2, <2>1, <2>2
<1>4. DOMAIN f = 1 .. u
  BY <1>1
<1>5. Number(octets) = SumFunction(f)
  BY DEF Number
<1> HIDE DEF f, g
<1>6. SumFunction(f) = SumFunctionOnSet(f, 1 .. u)
  BY <1>4 DEF SumFunction
<1> QED BY <1>3, <1>5, <1>6 DEF PlacesUpTo, g

LEMMA ParityOnly ==
  ASSUME NEW x \in Nat, NEW y \in Nat
  PROVE  (x + (2 * y)) % 2 = x % 2
<1> DEFINE h == x \div 2
           b == x % 2
<1>1. 2 \in Nat \ {0}
  OBVIOUS
<1>2. h \in Nat /\ b \in 0 .. 2 - 1 /\ x = (h * 2) + b
  BY <1>1, Divided
<1> HIDE DEF h, b
<1>3. x + (2 * y) = b + (2 * (h + y)) /\ h + y \in Nat
  BY <1>2
<1>4. (b + (2 * (h + y))) % 2 = b
  BY <1>1, <1>2, <1>3, DividedOnce
<1> QED BY <1>3, <1>4 DEF b

(* A number with a digit d between what is below and what is behind it; r  *)
(* is the weight of a bit in the digit, v its weight in the number.        *)
DigitIn(n, v, low, w, d, r, h, t) ==
  n = low + (w * (d + ((r * (2 * h)) * t))) /\ v = w * r

(* A bit of a digit is a bit of the number, wherever the digit stands.     *)
LEMMA BitOfDigit ==
  ASSUME NEW w \in Nat \ {0}, NEW low \in 0 .. w - 1, NEW d \in Nat,
         NEW r \in Nat \ {0}, NEW h \in Nat, NEW t \in Nat,
         NEW n, NEW v, DigitIn(n, v, low, w, d, r, h, t)
  PROVE  (n \div v) % 2 = (d \div r) % 2
<1> DEFINE x == d \div r
           s == d % r
           y == h * t
           z == x + (2 * y)
           below == low + (w * s)
<1>1. x \in Nat /\ s \in 0 .. r - 1 /\ d = (x * r) + s
  BY Divided
<1>2. y \in Nat /\ (r * (2 * h)) * t = (2 * y) * r
  <2>1. (r * (2 * h)) * t = ((2 * h) * r) * t
    OBVIOUS
  <2>2. ((2 * h) * r) * t = (2 * (h * t)) * r
    OBVIOUS
  <2> QED BY <2>1, <2>2
<1> HIDE DEF x, s, y
<1>3. d + ((2 * y) * r) = s + (r * z) /\ z \in Nat
  BY <1>1, <1>2
<1> HIDE DEF z
<1>4. low + (w * (s + (r * z))) = below + ((w * r) * z)
  <2>1. w * (s + (r * z)) = (w * s) + (w * (r * z))
    BY <1>1, <1>3
  <2>2. w * (r * z) = (w * r) * z
    BY <1>3
  <2> DEFINE a == w * s
             b == (w * r) * z
  <2>3. a \in Nat /\ b \in Nat /\ low \in Nat
    BY <1>1, <1>3
  <2> HIDE DEF a, b
  <2>4. low + (a + b) = (low + a) + b
    BY <2>3
  <2> QED BY <2>1, <2>2, <2>4 DEF a, b
<1>5. below \in 0 .. (w * r) - 1 /\ w * r \in Nat \ {0}
  <2>1. (r - s) * w >= w
    BY <1>1
  <2>2. (r - s) * w = (w * r) - (w * s)
    BY <1>1
  <2>3. w * r \in Nat /\ w * s \in Nat
    BY <1>1
  <2> QED BY <2>1, <2>2, <2>3
<1>6. (below + ((w * r) * z)) \div (w * r) = z
  <2> DEFINE p == w * r
  <2> HIDE DEF below, p
  <2>1. (below + (p * z)) \div p = z
    BY <1>3, <1>5, DividedOnce DEF p
  <2> QED BY <2>1 DEF p
<1>7. z % 2 = x % 2
  BY <1>1, <1>2, ParityOnly DEF z
<1>8. low + (w * (d + ((r * (2 * h)) * t))) = below + ((w * r) * z)
  <2> HIDE DEF below
  <2> QED BY <1>2, <1>3, <1>4
<1> HIDE DEF below
<1>9. n = below + ((w * r) * z) /\ v = w * r
  BY <1>8 DEF DigitIn
<1>10. n \div v = z
  BY <1>6, <1>9
<1> QED BY <1>7, <1>10 DEF x

LEMMA BitOfNumber ==
  ASSUME NEW octets \in Seq(ByteValues), NEW p \in Nat, p < ByteBits * Len(octets)
  PROVE  /\ Number(octets) \in Nat
         /\ (Number(octets) \div PowerOf(2, p)) % 2
              = (octets[p \div ByteBits + 1] \div PowerOf(2, p % ByteBits)) % 2
<1> DEFINE q == p \div ByteBits
           r == p % ByteBits
           w == PowerOf(2, ByteBits)
           u == Len(octets)
           all == Number(octets)
           d == octets[q + 1]
           low == PlacesUpTo(w, octets, u, q)
           weight == PowerOf(w, q)
<1>0. ByteBits \in Nat \ {0} /\ u \in Nat /\ w \in Nat \ {0}
  <2>1. ByteBits \in Nat \ {0}
    BY BitAssumption
  <2>2. w \in Nat \ {0}
    BY ByteIsDigit
  <2> QED BY <2>1, <2>2
<1>1. q \in Nat /\ r \in 0 .. ByteBits - 1 /\ p = (q * ByteBits) + r /\ r \in Nat
  <2>1. ByteBits \in Nat \ {0}
    BY BitAssumption
  <2>2. q \in Nat /\ r \in 0 .. ByteBits - 1 /\ p = (q * ByteBits) + r
    BY <2>1, Divided
  <2> HIDE DEF q, r
  <2>3. r \in Nat
    BY <2>1, <2>2
  <2> QED BY <2>2, <2>3
<1> HIDE DEF q, r, w
<1>2. q < u
  <2> SUFFICES ASSUME u <= q
               PROVE  FALSE
    BY <1>0, <1>1
  <2>1. (q - u) * ByteBits >= 0
    BY <1>0, <1>1
  <2>2. (q - u) * ByteBits = (q * ByteBits) - (ByteBits * u)
    BY <1>0, <1>1
  <2>3. q * ByteBits \in Nat /\ ByteBits * u \in Nat
    BY <1>0, <1>1
  <2> QED BY <1>1, <2>1, <2>2, <2>3
<1>3. \A k \in 1 .. u : octets[k] \in Nat /\ octets[k] % w = octets[k]
  <2>1. \A k \in 1 .. u : octets[k] \in ByteValues
    OBVIOUS
  <2> QED BY <2>1, ByteIsDigit DEF w
<1>4. q \in 0 .. u - 1 /\ q \in 0 .. u /\ q + 1 \in 0 .. u /\ q + 1 \in 1 .. u
  BY <1>0, <1>1, <1>2
<1>5. all = PlacesUpTo(w, octets, u, u)
  BY NumberIs DEF w
<1>6. PICK t \in Nat : all = PlacesUpTo(w, octets, u, q + 1) + (PowerOf(w, q + 1) * t)
  <2>1. \A k \in 1 .. u : octets[k] \in Nat
    BY <1>3
  <2> HIDE DEF u, all, d, low, weight
  <2>2. \A n \in 0 .. u : Behind(w, octets, u, n)
    BY <1>0, <2>1, PlacesBehind
  <2> QED BY <1>4, <1>5, <2>2 DEF Behind
<1>7. PlacesUpTo(w, octets, u, q + 1) = (d * weight) + low /\ low \in Nat
  <2>1. /\ \A n \in 0 .. u : PlacesUpTo(w, octets, u, n) \in Nat
        /\ \A n \in 0 .. u - 1 :
             PlacesUpTo(w, octets, u, n + 1) = (octets[n + 1] % w) * PowerOf(w, n) + PlacesUpTo(w, octets, u, n)
    BY <1>0, <1>3, PlacesAdd, SMTT(60)
  <2> QED BY <1>3, <1>4, <2>1
<1>8. low \in 0 .. weight - 1
  <2>1. \A n \in 0 .. u : PlacesUpTo(w, octets, u, n) \in 0 .. PowerOf(w, n) - 1
    BY <1>0, <1>3, PlacesStayBelow
  <2> QED BY <1>4, <2>1
<1>9. weight \in Nat \ {0} /\ PowerOf(w, q + 1) = w * weight
  BY <1>0, <1>1, PowerOfOneMore
<1>10. d \in Nat
  BY <1>3, <1>4
<1>11. all = low + (weight * (d + (w * t))) /\ all \in Nat
  <2> HIDE DEF low, weight, d, all
  <2>1. ((d * weight) + low) + ((w * weight) * t) = low + (weight * (d + (w * t)))
    BY <1>0, <1>7, <1>9, <1>10, Distributes
  <2>2. (d * weight) + low \in Nat /\ (w * weight) * t \in Nat
    BY <1>0, <1>7, <1>9, <1>10
  <2> QED BY <1>6, <1>7, <1>9, <2>1, <2>2
<1> DEFINE s == PowerOf(2, r)
           i == ByteBits - (r + 1)
           h == PowerOf(2, i)
<1>12. s \in Nat \ {0} /\ i \in Nat /\ h \in Nat
  <2>1. i \in Nat
    BY <1>0, <1>1
  <2> HIDE DEF i
  <2> QED BY <1>1, <2>1, PowerOfTwo
<1>13. w = s * (2 * h)
  <2>1. r + (i + 1) = ByteBits /\ i + 1 \in Nat /\ i \in Nat
    BY <1>0, <1>1
  <2> HIDE DEF i
  <2>2. PowerOf(2, r + (i + 1)) = PowerOf(2, r) * PowerOf(2, i + 1)
    BY <1>1, <2>1, PowersMultiply
  <2>3. PowerOf(2, i + 1) = 2 * h
    BY <2>1, PowerOfTwo
  <2> QED BY <2>1, <2>2, <2>3 DEF w
<1>14. weight * s = PowerOf(2, p)
  <2> DEFINE j == ByteBits * q
  <2>1. j \in Nat /\ p = j + r
    BY <1>0, <1>1
  <2>2. weight = PowerOf(2, j)
    BY <1>1, BytesAreBits DEF w
  <2> HIDE DEF j
  <2>3. PowerOf(2, j + r) = PowerOf(2, j) * PowerOf(2, r)
    BY <1>1, <2>1, PowersMultiply
  <2> QED BY <2>1, <2>2, <2>3
<1> HIDE DEF all, low, weight, d, s, h
<1>15. weight \in Nat \ {0} /\ s \in Nat \ {0} /\ h \in Nat
  BY <1>9, <1>12
<1>16. (all \div PowerOf(2, p)) % 2 = (d \div s) % 2
  <2> DEFINE v == PowerOf(2, p)
  <2>1. v = weight * s
    BY <1>14
  <2>2. all = low + (weight * (d + ((s * (2 * h)) * t)))
    BY <1>11, <1>13
  <2> HIDE DEF v
  <2>3. DigitIn(all, v, low, weight, d, s, h, t)
    BY <2>1, <2>2 DEF DigitIn
  <2>4. (all \div v) % 2 = (d \div s) % 2
    <3>1. weight \in Nat \ {0}
      BY <1>15
    <3>2. low \in 0 .. weight - 1
      BY <1>8
    <3>3. d \in Nat
      BY <1>10
    <3>4. s \in Nat \ {0}
      BY <1>15
    <3>5. h \in Nat
      BY <1>15
    <3>6. t \in Nat
      OBVIOUS
    <3> QED BY <3>1, <3>2, <3>3, <3>4, <3>5, <3>6, <2>3, BitOfDigit, SMTT(60)
  <2> QED BY <2>4 DEF v
<1> QED BY <1>11, <1>16 DEF all, d, s, q, r

LEMMA NumberTyped ==
  ASSUME NEW octets \in Seq(ByteValues)
  PROVE  Number(octets) \in Nat
<1> DEFINE w == PowerOf(2, ByteBits)
           u == Len(octets)
<1>1. u \in Nat /\ w \in Nat \ {0}
  BY ByteIsDigit
<1>2. \A k \in 1 .. u : octets[k] \in Nat
  <2>1. \A k \in 1 .. u : octets[k] \in ByteValues
    OBVIOUS
  <2> QED BY <2>1, ByteIsDigit
<1>3. Number(octets) = PlacesUpTo(w, octets, u, u)
  BY NumberIs
<1> HIDE DEF w, u
<1>4. \A n \in 0 .. u : PlacesUpTo(w, octets, u, n) \in Nat
  BY <1>1, <1>2, PlacesAdd
<1>5. u \in 0 .. u
  BY <1>1
<1> QED BY <1>3, <1>4, <1>5

(* A remainder gains the next bit when the modulus is doubled.             *)
LEMMA OneMoreBit ==
  ASSUME NEW n \in Nat, NEW p \in Nat \ {0}
  PROVE  n % (2 * p) = (n % p) + (p * ((n \div p) % 2))
<1> DEFINE q == n \div p
           s == n % p
           h == q \div 2
           b == q % 2
<1>1. q \in Nat /\ s \in 0 .. p - 1 /\ n = (q * p) + s
  BY Divided
<1>2. h \in Nat /\ b \in 0 .. 2 - 1 /\ q = (h * 2) + b
  <2>1. 2 \in Nat \ {0}
    OBVIOUS
  <2> HIDE DEF q
  <2> QED BY <1>1, <2>1, Divided
<1> HIDE DEF q, s, h, b
<1>3. b = 0 \/ b = 1
  BY <1>2
<1>4. n = (s + (p * b)) + ((2 * p) * h)
  <2>1. q * p = (p * b) + ((2 * p) * h)
    <3>1. CASE b = 0
      BY <1>2, <3>1
    <3>2. CASE b = 1
      BY <1>2, <3>2
    <3> QED BY <1>3, <3>1, <3>2
  <2>2. p * b \in Nat /\ (2 * p) * h \in Nat
    BY <1>2, <1>3
  <2> QED BY <1>1, <2>1, <2>2
<1>5. s + (p * b) \in 0 .. (2 * p) - 1 /\ 2 * p \in Nat \ {0}
  <2>1. CASE b = 0
    BY <1>1, <2>1
  <2>2. CASE b = 1
    BY <1>1, <2>2
  <2> QED BY <1>3, <2>1, <2>2
<1>6. ((s + (p * b)) + ((2 * p) * h)) % (2 * p) = s + (p * b)
  BY <1>2, <1>5, DividedOnce
<1>7. n % (2 * p) = s + (p * b)
  BY <1>4, <1>6
<1> QED BY <1>7 DEF s, b, q

Joined(x, b, v, a, p, r) == x \in Nat /\ r + (x * p) = (r + (a * p)) + ((p * v) * b)

LEMMA BitJoins ==
  ASSUME NEW b \in Nat, NEW v \in Nat, NEW a \in Nat, NEW p \in Nat, NEW r \in Nat,
         NEW x, x = (b * v) + a
  PROVE  Joined(x, b, v, a, p, r)
<1>1. ((b * v) + a) * p = ((b * v) * p) + (a * p)
  OBVIOUS
<1>2. (b * v) * p = (p * v) * b
  OBVIOUS
<1> DEFINE z == a * p
           y == (p * v) * b
<1>3. z \in Nat /\ y \in Nat
  OBVIOUS
<1>4. r + (y + z) = (r + z) + y
  <2> HIDE DEF z, y
  <2> QED BY <1>3
<1>5. x \in Nat
  OBVIOUS
<1>6. r + (x * p) = (r + (a * p)) + ((p * v) * b)
  BY <1>1, <1>2, <1>4
<1> QED BY <1>5, <1>6 DEF Joined

LEMMA SumOfNext ==
  ASSUME NEW n \in Nat, NEW g \in [0 .. n - 1 -> Int], NEW m \in 0 .. n - 1
  PROVE  SumFunctionOnSet(g, 0 .. m) = g[m] + SumFunctionOnSet(g, (0 .. m) \ {m})
<1>1. 0 .. m \in SUBSET (0 .. n - 1) /\ m \in 0 .. m
  OBVIOUS
<1>2. IsFiniteSet(0 .. m)
  BY FS_Interval
<1> QED BY <1>1, <1>2, SumTakesOut

(* What a read returns, put behind the bits before it.                     *)
LEMMA ReadIs ==
  ASSUME bitData \in Seq(ByteValues), NEW from \in Nat, NEW n \in Nat,
         from + n <= ByteBits * Len(bitData),
         NEW out, out = SumFunction([i \in 0 .. n - 1 |-> Bit(from + i) * PowerOf(2, i)])
  PROVE  /\ out \in Nat
         /\ (Number(bitData) % PowerOf(2, from)) + (out * PowerOf(2, from))
              = Number(bitData) % PowerOf(2, from + n)
<1> DEFINE all == Number(bitData)
           f == [i \in 0 .. n - 1 |-> Bit(from + i) * PowerOf(2, i)]
           Sum(m) == SumFunctionOnSet(f, 0 .. m - 1)
           p == PowerOf(2, from)
           Done(m) == Sum(m) \in Nat /\ (all % p) + (Sum(m) * p) = all % PowerOf(2, from + m)
           T == {m \in Nat : m <= n => Done(m)}
<1>0. all \in Nat /\ p \in Nat \ {0} /\ ByteBits * Len(bitData) \in Nat
  <2>1. ByteBits \in Nat /\ Len(bitData) \in Nat
    BY BitAssumption
  <2>2. ByteBits * Len(bitData) \in Nat
    BY <2>1
  <2>3. all \in Nat /\ p \in Nat \ {0}
    BY NumberTyped, PowerOfTwo
  <2> QED BY <2>2, <2>3
<1>1. ASSUME NEW i \in 0 .. n - 1
      PROVE  Bit(from + i) \in Nat /\ Bit(from + i) = (all \div PowerOf(2, from + i)) % 2
  <2> DEFINE j == from + i
  <2>1. j \in Nat /\ j < ByteBits * Len(bitData)
    BY <1>0
  <2> HIDE DEF j
  <2>2. Bit(j) = (all \div PowerOf(2, j)) % 2
    BY <2>1, BitOfNumber DEF Bit
  <2>3. (all \div PowerOf(2, j)) % 2 \in Nat
    <3>1. all \div PowerOf(2, j) \in Nat
      BY <1>0, <2>1, PowerOfTwo, Divided
    <3>2. 2 \in Nat \ {0}
      OBVIOUS
    <3> HIDE DEF all
    <3>3. (all \div PowerOf(2, j)) % 2 \in 0 .. 2 - 1
      BY <3>1, <3>2, Divided
    <3> QED BY <3>3
  <2> QED BY <2>2, <2>3 DEF j
<1>2. \A i \in 0 .. n - 1 : f[i] = Bit(from + i) * PowerOf(2, i) /\ f[i] \in Nat
  <2> SUFFICES ASSUME NEW i \in 0 .. n - 1
               PROVE  Bit(from + i) * PowerOf(2, i) \in Nat
    OBVIOUS
  <2>1. i \in Nat
    OBVIOUS
  <2>2. Bit(from + i) \in Nat /\ PowerOf(2, i) \in Nat
    BY <1>1, <2>1, PowerOfTwo
  <2> QED BY <2>2
<1>3. DOMAIN f = 0 .. n - 1
  OBVIOUS
<1>4. f \in [0 .. n - 1 -> Int]
  <2>1. f = [i \in 0 .. n - 1 |-> f[i]]
    OBVIOUS
  <2> HIDE DEF f
  <2> QED BY <1>2, <2>1
<1> HIDE DEF f
<1>5. 0 \in T
  <2>1. 0 .. 0 - 1 = {}
    OBVIOUS
  <2>2. Sum(0) = 0
    BY <2>1, SumStarts
  <2>3. PowerOf(2, from + 0) = p
    OBVIOUS
  <2>4. all % p \in Nat
    <3> HIDE DEF all, p
    <3>1. all % p \in 0 .. p - 1
      BY <1>0, Divided
    <3> QED BY <1>0, <3>1
  <2> HIDE DEF p, all
  <2> QED BY <1>0, <2>2, <2>3, <2>4
<1>6. ASSUME NEW m \in Nat, m \in T
      PROVE  m + 1 \in T
  <2> SUFFICES ASSUME m + 1 <= n
               PROVE  Done(m + 1)
    OBVIOUS
  <2> DEFINE j == from + m
             b == Bit(from + m)
             a == Sum(m)
             v == PowerOf(2, m)
             r == all % p
  <2>1. Done(m) /\ m \in 0 .. n - 1 /\ j \in Nat /\ from + (m + 1) = j + 1 /\ (m + 1) - 1 = m
    BY <1>6
  <2>2. Sum(m + 1) = f[m] + a
    <3>1. 0 .. m \subseteq 0 .. n - 1 /\ m \in 0 .. m /\ (0 .. m) \ {m} = 0 .. m - 1
      BY <2>1
    <3>2. SumFunctionOnSet(f, 0 .. m) = f[m] + SumFunctionOnSet(f, (0 .. m) \ {m})
      <4> HIDE DEF Sum, T, Done, all, p, j, b, a, v, r
      <4> QED BY <1>4, <2>1, SumOfNext
    <3> QED BY <2>1, <3>1, <3>2
  <2>3. f[m] = b * v /\ b \in Nat /\ b = (all \div PowerOf(2, j)) % 2
    BY <1>1, <1>2, <2>1
  <2>4. v \in Nat /\ PowerOf(2, j) = p * v /\ PowerOf(2, j + 1) = 2 * PowerOf(2, j)
        /\ PowerOf(2, j) \in Nat \ {0}
    <3>1. v \in Nat /\ PowerOf(2, j) = p * v
      BY PowerOfTwo, PowersMultiply
    <3> HIDE DEF j, v, p
    <3> QED BY <2>1, <3>1, PowerOfTwo
  <2>5. a \in Nat /\ r + (a * p) = all % PowerOf(2, j)
    BY <2>1
  <2>6. r \in Nat
    <3> HIDE DEF all, p
    <3>1. r \in 0 .. p - 1
      BY <1>0, Divided
    <3> QED BY <1>0, <3>1
  <2> HIDE DEF b, v, a, j, r, all, p, Sum
  <2>7. all % PowerOf(2, j + 1) = (all % PowerOf(2, j)) + (PowerOf(2, j) * b)
    BY <1>0, <2>3, <2>4, OneMoreBit, ZenonT(30)
  <2>8. all % PowerOf(2, j + 1) = (r + (a * p)) + ((p * v) * b)
    BY <2>4, <2>5, <2>7
  <2>9. Sum(m + 1) = (b * v) + a
    BY <2>2, <2>3
  <2>10. b \in Nat /\ v \in Nat /\ a \in Nat /\ p \in Nat
    BY <1>0, <2>3, <2>4, <2>5
  <2>11. Joined(Sum(m + 1), b, v, a, p, r)
    BY <2>6, <2>9, <2>10, BitJoins
  <2>12. Sum(m + 1) \in Nat /\ r + (Sum(m + 1) * p) = all % PowerOf(2, j + 1)
    BY <2>8, <2>11 DEF Joined
  <2> QED BY <2>1, <2>12 DEF r
<1>7. Nat \subseteq T
  <2> HIDE DEF T
  <2> QED BY <1>5, <1>6, Induction
<1>8. Done(n)
  <2> HIDE DEF Done
  <2> QED BY <1>7
<1>9. out = Sum(n)
  BY <1>3 DEF SumFunction, f
<1> QED BY <1>8, <1>9

BitInv ==
  /\ bitData \in Seq(ByteValues)
  /\ bit_pos \in Nat
  /\ bitStatus = "idle" => bit_pos = 0 /\ seen = 0
  /\ BitsInOrder

LEMMA BitInitInv == BitInit => BitInv
BY DEF BitInit, BitInv, BitsInOrder

LEMMA BitStartKeeps == BitInv /\ BitStart => BitInv'
<1> SUFFICES ASSUME BitInv, BitStart
             PROVE  BitInv'
  OBVIOUS
<1>1. /\ bit_pos' = 0 /\ seen' = 0 /\ bitStatus' = "IPMB_OK"
      /\ bitData' \in BitData
  BY DEF BitInv, BitStart
<1>2. bitData' \in Seq(ByteValues)
  BY <1>1, BitAssumption DEF ByteValues
<1> DEFINE s == bitData'
           all == Number(s)
<1>3. all \in Nat /\ PowerOf(2, 0) = 1
  BY <1>2, NumberTyped, PowerOfTwo
<1>4. all % PowerOf(2, 0) = 0
  <2>1. 1 \in Nat \ {0}
    OBVIOUS
  <2> HIDE DEF all
  <2>2. all % 1 \in 0 .. 1 - 1
    BY <1>3, <2>1, Divided
  <2> QED BY <1>3, <2>2
<1>5. seen' = Number(s) % PowerOf(2, bit_pos')
  <2> HIDE DEF s
  <2> QED BY <1>1, <1>4
<1>6. bit_pos' <= ByteBits * Len(s)
  <2> HIDE DEF s
  <2>1. ByteBits \in Nat /\ Len(s) \in Nat
    <3>1. s \in Seq(ByteValues)
      BY <1>2 DEF s
    <3>2. ByteBits \in Nat
      BY BitAssumption
    <3> QED BY <3>1, <3>2
  <2>2. ByteBits * Len(s) \in Nat
    BY <2>1
  <2> QED BY <1>1, <2>2
<1>7. BitsInOrder'
  BY <1>5, <1>6 DEF BitsInOrder
<1> QED BY <1>1, <1>2, <1>7 DEF BitInv

LEMMA BitReadKeeps ==
  ASSUME NEW bits \in Nat, BitInv, BitRead(bits)
  PROVE  BitInv'
<1>1. bitData' = bitData /\ bitStatus # "idle"
  BY DEF BitRead
<1>2. CASE bit_pos' = bit_pos /\ seen' = seen /\ bitStatus' # "idle"
  <2>1. BitsInOrder'
    BY <1>1, <1>2 DEF BitInv, BitsInOrder
  <2> QED BY <1>1, <1>2, <2>1 DEF BitInv
<1>3. CASE /\ bit_pos + bits <= ByteBits * Len(bitData)
           /\ bitStatus' = "IPMB_OK"
           /\ bitOut' = SumFunction([i \in 0 .. bits - 1 |-> Bit(bit_pos + i) * PowerOf(2, i)])
           /\ bit_pos' = bit_pos + bits
           /\ seen' = seen + bitOut' * PowerOf(2, bit_pos)
  <2>1. bitData \in Seq(ByteValues) /\ bit_pos \in Nat
    BY DEF BitInv
  <2> DEFINE out == SumFunction([i \in 0 .. bits - 1 |-> Bit(bit_pos + i) * PowerOf(2, i)])
             next == bit_pos + bits
  <2>2. (Number(bitData) % PowerOf(2, bit_pos)) + (out * PowerOf(2, bit_pos))
          = Number(bitData) % PowerOf(2, next)
    BY <1>3, <2>1, ReadIs
  <2>3. seen = Number(bitData) % PowerOf(2, bit_pos)
    BY <1>1 DEF BitInv, BitsInOrder
  <2>4. next \in Nat /\ next <= ByteBits * Len(bitData) /\ bit_pos' = next
        /\ bitOut' = out /\ bitStatus' = "IPMB_OK"
    BY <1>3, <2>1
  <2> HIDE DEF out, next
  <2>5. seen' = Number(bitData) % PowerOf(2, next)
    <3>1. seen' = seen + out * PowerOf(2, bit_pos)
      BY <1>3, <2>4
    <3> QED BY <2>2, <2>3, <3>1
  <2>6. BitsInOrder'
    BY <1>1, <2>4, <2>5 DEF BitsInOrder
  <2> QED BY <1>1, <2>1, <2>4, <2>6 DEF BitInv
<1> QED BY <1>2, <1>3 DEF BitRead

LEMMA BitNextInv == BitInv /\ [BitNext]_bitVars => BitInv'
<1> SUFFICES ASSUME BitInv, [BitNext]_bitVars
             PROVE  BitInv'
  OBVIOUS
<1>1. CASE BitStart
  BY <1>1, BitStartKeeps
<1>2. ASSUME NEW bits \in 0 .. MaxBits + 1, BitRead(bits)
      PROVE  BitInv'
  <2>1. bits \in Nat
    BY BitAssumption
  <2> QED BY <1>2, <2>1, BitReadKeeps
<1>3. CASE UNCHANGED bitVars
  BY <1>3 DEF BitInv, BitsInOrder, bitVars
<1> QED BY <1>1, <1>2, <1>3 DEF BitNext

(* However long the bytes are and however they are divided into reads: the *)
(* reads put together are the bytes as one number, up to the position.     *)
THEOREM BitsInOrderAlways == BitSpec => []BitsInOrder
<1>1. BitInv => BitsInOrder
  BY DEF BitInv
<1> QED BY <1>1, BitInitInv, BitNextInv, PTL DEF BitSpec

-----------------------------------------------------------------------------
(***************************************************************************)
(* The division of a block.                                                *)
(***************************************************************************)

(* Exclusive or is associative and commutative; only what one of the two   *)
(* has is in it.                                                           *)
LEMMA XorMoves ==
  ASSUME NEW a, NEW b, NEW c
  PROVE  /\ Xor(Xor(a, b), c) = Xor(Xor(a, c), b)
         /\ Xor(Xor(a, b), c) = Xor(a, Xor(b, c))
         /\ Xor(a, b) = Xor(b, a)
         /\ Xor(Xor(a, b), b) = a
<1>1. ASSUME NEW x, NEW p, NEW q
      PROVE  x \in Xor(p, q) <=> ~(x \in p <=> x \in q)
  BY DEF Xor
<1>2. ASSUME NEW x
      PROVE  /\ x \in Xor(Xor(a, b), c) <=> x \in Xor(Xor(a, c), b)
             /\ x \in Xor(Xor(a, b), c) <=> x \in Xor(a, Xor(b, c))
             /\ x \in Xor(a, b) <=> x \in Xor(b, a)
             /\ x \in Xor(Xor(a, b), b) <=> x \in a
  BY <1>1
<1>3. Xor(Xor(a, b), c) = Xor(Xor(a, c), b)
  BY <1>2
<1>4. Xor(Xor(a, b), c) = Xor(a, Xor(b, c))
  BY <1>2
<1>5. Xor(a, b) = Xor(b, a)
  BY <1>2
<1>6. Xor(Xor(a, b), b) = a
  BY <1>2
<1> QED BY <1>3, <1>4, <1>5, <1>6

(* The generator, put under the bit at place i. *)
Under(i) == {i + 32 - d : d \in Generator}

LEMMA UnderIs ==
  ASSUME NEW i \in Nat
  PROVE  /\ i \in Under(i)
         /\ \A j \in Under(i) : j \in Nat /\ i <= j /\ j <= i + 32
<1>1. 32 \in Generator /\ Generator \subseteq 0 .. 32
  BY DEF Generator
<1>2. i + 32 - 32 = i
  OBVIOUS
<1>3. i \in Under(i)
  BY <1>1, <1>2 DEF Under
<1>4. ASSUME NEW j \in Under(i)
      PROVE  j \in Nat /\ i <= j /\ j <= i + 32
  <2>1. PICK d \in Generator : j = i + 32 - d
    BY DEF Under
  <2>2. d \in 0 .. 32
    BY <1>1
  <2> QED BY <2>1, <2>2
<1> QED BY <1>3, <1>4

LEMMA DividedIs ==
  ASSUME NEW r \in SUBSET Nat, NEW i \in Nat
  PROVE  /\ DividedAt(r, i) = IF i \in r THEN Xor(r, Under(i)) ELSE r
         /\ DividedAt(r, i) \in SUBSET Nat
<1>1. DividedAt(r, i) = IF i \in r THEN Xor(r, Under(i)) ELSE r
  BY DEF DividedAt, Under
<1>2. Under(i) \in SUBSET Nat
  BY UnderIs
<1> QED BY <1>1, <1>2 DEF Xor

Divides == [p \in Nat \X SUBSET Nat |-> DividedAt(p[2], p[1] - 1)]

(* What the recursive definition of RestAfter stands for. *)
LEMMA RestAfterIs ==
  ASSUME NEW taken, NEW n \in Nat, Xor(Sent(taken), Ones) \in SUBSET Nat
  PROVE  \E f : /\ IsRecursive(f, n, Xor(Sent(taken), Ones), Divides)
                /\ RestAfter(taken, n) = f[n]
                /\ f[n] \in SUBSET Nat
<1> DEFINE v == Xor(Sent(taken), Ones)
           Step(f) == [k \in 0 .. n |-> IF k = 0 THEN v ELSE DividedAt(f[k - 1], k - 1)]
           left == CHOOSE f : f = Step(f)
<1>0. v \in SUBSET Nat
  OBVIOUS
<1>1. RestAfter(taken, n) = left[n]
  BY DEF RestAfter
<1> HIDE DEF v
<1>2. PICK g : IsRecursive(g, n, v, Divides)
  BY RecursiveUpTo
<1>3. /\ g[0] = v /\ DOMAIN g = 0 .. n
      /\ \A k \in 1 .. n : g[k - 1] \in SUBSET Nat => g[k] = DividedAt(g[k - 1], k - 1)
  <2>1. /\ g[0] = v /\ DOMAIN g = 0 .. n
        /\ \A k \in 1 .. n : g[k] = Divides[<<k, g[k - 1]>>]
    BY <1>2 DEF IsRecursive
  <2>2. ASSUME NEW k \in 1 .. n, g[k - 1] \in SUBSET Nat
        PROVE  Divides[<<k, g[k - 1]>>] = DividedAt(g[k - 1], k - 1)
    <3>1. <<k, g[k - 1]>> \in Nat \X SUBSET Nat
      BY <2>2
    <3> QED BY <3>1 DEF Divides
  <2> QED BY <2>1, <2>2
<1> DEFINE T(f) == {k \in Nat : k <= n => f[k] \in SUBSET Nat}
<1>4. ASSUME NEW f, f[0] = v,
             \A k \in 1 .. n : f[k - 1] \in SUBSET Nat => f[k] = DividedAt(f[k - 1], k - 1)
      PROVE  \A k \in 0 .. n : f[k] \in SUBSET Nat
  <2>1. 0 \in T(f)
    BY <1>0, <1>4
  <2>2. ASSUME NEW k \in Nat, k \in T(f)
        PROVE  k + 1 \in T(f)
    <3> SUFFICES ASSUME k + 1 <= n
                 PROVE  f[k + 1] \in SUBSET Nat
      OBVIOUS
    <3>1. f[k] \in SUBSET Nat /\ k + 1 \in 1 .. n /\ (k + 1) - 1 = k
      BY <2>2
    <3>2. f[k + 1] = DividedAt(f[k], k)
      BY <1>4, <3>1
    <3> QED BY <3>1, <3>2, DividedIs
  <2>3. Nat \subseteq T(f)
    <3> HIDE DEF T
    <3> QED BY <2>1, <2>2, Induction
  <2> QED BY <2>3
<1>5. \A k \in 0 .. n : g[k] \in SUBSET Nat
  BY <1>3, <1>4
<1> DEFINE h == [k \in 0 .. n |-> g[k]]
<1>6. h = Step(h)
  <2>1. ASSUME NEW k \in 0 .. n
        PROVE  h[k] = IF k = 0 THEN v ELSE DividedAt(h[k - 1], k - 1)
    <3>1. CASE k = 0
      BY <1>3, <3>1
    <3>2. CASE k # 0
      <4>1. k \in 1 .. n /\ k - 1 \in 0 .. n
        BY <3>2
      <4>2. g[k - 1] \in SUBSET Nat
        BY <1>5, <4>1
      <4> QED BY <1>3, <4>1, <4>2
    <3> QED BY <3>1, <3>2
  <2> HIDE DEF h
  <2>2. DOMAIN h = 0 .. n /\ h = [k \in 0 .. n |-> h[k]]
    BY DEF h
  <2> QED BY <2>1, <2>2
<1>7. left = Step(left)
  <2> HIDE DEF Step, h
  <2> QED BY <1>6
<1> HIDE DEF left
<1>8. /\ DOMAIN left = 0 .. n /\ left[0] = v
      /\ \A k \in 1 .. n : left[k] = DividedAt(left[k - 1], k - 1)
  <2>1. DOMAIN left = 0 .. n
    BY <1>7
  <2>2. \A k \in 0 .. n : left[k] = IF k = 0 THEN v ELSE DividedAt(left[k - 1], k - 1)
    BY <1>7
  <2> QED BY <2>1, <2>2
<1>9. \A k \in 0 .. n : left[k] \in SUBSET Nat
  BY <1>4, <1>8
<1>10. ASSUME NEW k \in 1 .. n
       PROVE  left[k] = Divides[<<k, left[k - 1]>>]
  <2>1. k - 1 \in 0 .. n
    OBVIOUS
  <2>2. <<k, left[k - 1]>> \in Nat \X SUBSET Nat
    BY <1>9, <2>1
  <2> QED BY <1>8, <2>2 DEF Divides
<1>11. IsRecursive(left, n, v, Divides)
  BY <1>8, <1>10 DEF IsRecursive
<1> QED BY <1>1, <1>9, <1>11 DEF v

LEMMA RestAfterOneMore ==
  ASSUME NEW taken, NEW n \in Nat, Xor(Sent(taken), Ones) \in SUBSET Nat
  PROVE  /\ RestAfter(taken, 0) = Xor(Sent(taken), Ones)
         /\ RestAfter(taken, n) \in SUBSET Nat
         /\ RestAfter(taken, n + 1) = DividedAt(RestAfter(taken, n), n)
<1> DEFINE v == Xor(Sent(taken), Ones)
           m == n + 1
<1>0. m \in Nat /\ 0 \in Nat /\ v \in SUBSET Nat
  OBVIOUS
<1>1. PICK e : IsRecursive(e, 0, v, Divides) /\ RestAfter(taken, 0) = e[0]
  BY RestAfterIs
<1>2. PICK f : IsRecursive(f, n, v, Divides) /\ RestAfter(taken, n) = f[n]
               /\ f[n] \in SUBSET Nat
  BY RestAfterIs
<1>3. PICK g : IsRecursive(g, m, v, Divides) /\ RestAfter(taken, m) = g[m]
  <2> HIDE DEF m
  <2> QED BY <1>0, RestAfterIs
<1>4. g[n] = f[n]
  <2>1. n <= n /\ n <= m
    OBVIOUS
  <2> HIDE DEF m, v
  <2> QED BY <1>0, <1>2, <1>3, <2>1, RecursiveOnce
<1>5. e[0] = v
  BY <1>1 DEF IsRecursive
<1>6. g[m] = Divides[<<m, g[n]>>]
  <2>1. m \in 1 .. m /\ m - 1 = n
    OBVIOUS
  <2> HIDE DEF m, v
  <2> QED BY <1>3, <2>1 DEF IsRecursive
<1>7. Divides[<<m, g[n]>>] = DividedAt(g[n], n)
  <2>1. <<m, g[n]>> \in Nat \X SUBSET Nat /\ m - 1 = n
    BY <1>2, <1>4
  <2> HIDE DEF m
  <2> QED BY <2>1 DEF Divides
<1>8. RestAfter(taken, m) = DividedAt(f[n], n)
  BY <1>3, <1>4, <1>6, <1>7
<1> QED BY <1>1, <1>2, <1>5, <1>8

(* The word of 32 bits that starts at place n. *)
Window(r, n) == {i - n : i \in r}
Fits(r, n) == r \in SUBSET (n .. n + 31)

LEMMA WindowIs ==
  ASSUME NEW n \in Nat, NEW r, Fits(r, n)
  PROVE  /\ Window(r, n) \in Word32
         /\ \A b \in 0 .. 31 : b \in Window(r, n) <=> b + n \in r
<1>1. ASSUME NEW i \in r
      PROVE  i \in Nat /\ n <= i /\ i <= n + 31 /\ i - n \in 0 .. 31 /\ (i - n) + n = i
  BY DEF Fits
<1>2. Window(r, n) \in Word32
  BY <1>1 DEF Window, Word32
<1>3. ASSUME NEW b \in 0 .. 31
      PROVE  b \in Window(r, n) <=> b + n \in r
  <2>1. ASSUME b \in Window(r, n)
        PROVE  b + n \in r
    BY <1>1, <2>1 DEF Window
  <2>2. ASSUME b + n \in r
        PROVE  b \in Window(r, n)
    <3>1. (b + n) - n = b
      OBVIOUS
    <3> QED BY <2>2, <3>1 DEF Window
  <2> QED BY <2>1, <2>2
<1> QED BY <1>2, <1>3

(* The polynomial is the generator, put under the bit that goes, without   *)
(* that bit.                                                               *)
LEMMA PolyUnder ==
  ASSUME NEW n \in Nat, NEW b \in 0 .. 31
  PROVE  b \in Poly <=> b + (n + 1) \in Under(n)
<1>1. b + (n + 1) \in Under(n) <=> \E d \in Generator : b + (n + 1) = n + 32 - d
  BY DEF Under
<1>2. ASSUME NEW d \in 0 .. 32
      PROVE  b + (n + 1) = n + 32 - d <=> d = 31 - b
  OBVIOUS
<1>3. Generator \subseteq 0 .. 32
  BY DEF Generator
<1>4. b + (n + 1) \in Under(n) <=> 31 - b \in Generator
  BY <1>1, <1>2, <1>3
<1>5. b \in Poly <=> 31 - b \in Generator
  BY DEF Poly, Generator
<1> QED BY <1>4, <1>5

(* To turn a word once is to divide at its first bit and look one further. *)
LEMMA TurnDivides ==
  ASSUME NEW n \in Nat, NEW r, Fits(r, n)
  PROVE  /\ Fits(DividedAt(r, n), n + 1)
         /\ Window(DividedAt(r, n), n + 1) = BitStep(Window(r, n))
<1> DEFINE w == Window(r, n)
           m == n + 1
           q == DividedAt(r, n)
<1>1. r \in SUBSET Nat /\ m \in Nat
  BY DEF Fits
<1>2. q = IF n \in r THEN Xor(r, Under(n)) ELSE r
  BY <1>1, DividedIs
<1>3. \A i \in r : i \in Nat /\ n <= i /\ i <= n + 31
  BY DEF Fits
<1>4. n \notin q
  BY <1>2, UnderIs DEF Xor
<1>5. \A i \in q : i \in Nat /\ n <= i /\ i <= n + 32
  BY <1>2, <1>3, UnderIs DEF Xor
<1>6. Fits(q, m)
  <2>1. \A i \in q : i \in m .. m + 31
    BY <1>4, <1>5
  <2> QED BY <2>1 DEF Fits
<1>7. w \in Word32 /\ Window(q, m) \in Word32 /\ BitStep(w) \in Word32
  BY <1>1, <1>6, WindowIs, BitStepBelow
<1>8. 0 \in w <=> n \in r
  <2>1. 0 \in w <=> 0 + n \in r
    BY WindowIs
  <2> QED BY <2>1
<1>9. ASSUME NEW b \in 0 .. 31
      PROVE  b \in Down(w) <=> b + m \in r
  <2>1. CASE b = 31
    <3>1. b \notin Down(w) /\ b + m \notin r
      BY <1>3, <2>1 DEF Down
    <3> QED BY <3>1
  <2>2. CASE b # 31
    <3>1. b \in 0 .. 30 /\ b + 1 \in 0 .. 31 /\ (b + 1) + n = b + m
      BY <2>2
    <3>2. b \in Down(w) <=> b + 1 \in w
      BY <3>1 DEF Down
    <3>3. b + 1 \in w <=> (b + 1) + n \in r
      BY <3>1, WindowIs
    <3> QED BY <3>1, <3>2, <3>3
  <2> QED BY <2>1, <2>2
<1>10. ASSUME NEW b \in 0 .. 31
       PROVE  b \in Window(q, m) <=> b \in BitStep(w)
  <2>1. b \in Window(q, m) <=> b + m \in q
    BY <1>1, <1>6, WindowIs
  <2>2. b \in Poly <=> b + m \in Under(n)
    BY PolyUnder
  <2> HIDE DEF w, m, q
  <2> QED BY <1>2, <1>8, <1>9, <2>1, <2>2 DEF BitStep, Xor
<1>11. Window(q, m) = BitStep(w)
  <2> HIDE DEF w, m, q
  <2> QED BY <1>7, <1>10 DEF Word32
<1> QED BY <1>6, <1>11

(* The bits of a byte are put behind those of a block. *)
LEMMA SentBits ==
  ASSUME NEW taken \in Seq(Octet)
  PROVE  \A i \in Sent(taken) : i \in Nat /\ i < 8 * Len(taken)
<1> SUFFICES ASSUME NEW i \in Sent(taken)
             PROVE  i \in Nat /\ i < 8 * Len(taken)
  OBVIOUS
<1>1. PICK k \in DOMAIN taken : i \in Up(taken[k], 8 * (k - 1))
  BY DEF Sent
<1>2. k \in 1 .. Len(taken) /\ taken[k] \in Octet /\ Len(taken) \in Nat
  OBVIOUS
<1>3. PICK b \in 0 .. 7 : i = b + 8 * (k - 1)
  BY <1>1, <1>2 DEF Up, Octet
<1> QED BY <1>2, <1>3

LEMMA SentOneMore ==
  ASSUME NEW taken \in Seq(Octet), NEW byte \in Octet
  PROVE  Sent(Append(taken, byte)) = Xor(Sent(taken), Up(byte, 8 * Len(taken)))
<1> DEFINE more == Append(taken, byte)
           n == Len(taken)
<1>1. /\ n \in Nat /\ DOMAIN taken = 1 .. n /\ DOMAIN more = 1 .. n + 1
      /\ more[n + 1] = byte /\ \A k \in 1 .. n : more[k] = taken[k]
  OBVIOUS
<1>2. Sent(more) = Sent(taken) \cup Up(byte, 8 * n)
  <2>1. ASSUME NEW i
        PROVE  i \in Sent(more) <=> i \in Sent(taken) \/ i \in Up(byte, 8 * n)
    <3>1. i \in Sent(more) <=> \E k \in 1 .. n + 1 : i \in Up(more[k], 8 * (k - 1))
      BY <1>1 DEF Sent
    <3>2. i \in Sent(taken) <=> \E k \in 1 .. n : i \in Up(taken[k], 8 * (k - 1))
      BY <1>1 DEF Sent
    <3>3. (n + 1) - 1 = n /\ n + 1 \in 1 .. n + 1 /\ \A k \in 1 .. n + 1 : k = n + 1 \/ k \in 1 .. n
      BY <1>1
    <3>4. \A k \in 1 .. n : k \in 1 .. n + 1
      BY <1>1
    <3> HIDE DEF more, n
    <3> QED BY <1>1, <3>1, <3>2, <3>3, <3>4
  <2> QED BY <2>1
<1>3. \A i \in Up(byte, 8 * n) : i \notin Sent(taken)
  <2> SUFFICES ASSUME NEW i \in Up(byte, 8 * n)
               PROVE  i \notin Sent(taken)
    OBVIOUS
  <2>1. PICK b \in 0 .. 7 : i = b + 8 * n
    BY DEF Up, Octet
  <2>2. ~(i < 8 * n)
    BY <1>1, <2>1
  <2> QED BY <2>2, SentBits
<1> HIDE DEF more, n
<1> QED BY <1>2, <1>3 DEF Xor, more, n

LEMMA SentNat ==
  ASSUME NEW taken \in Seq(Octet)
  PROVE  Xor(Sent(taken), Ones) \in SUBSET Nat
<1>1. Sent(taken) \in SUBSET Nat
  BY SentBits
<1>2. Ones \in SUBSET Nat
  BY DEF Ones
<1> QED BY <1>1, <1>2 DEF Xor

LEMMA UpBehind ==
  ASSUME NEW byte \in Octet, NEW n \in Nat
  PROVE  \A i \in Up(byte, n) : i \in n .. n + 7
<1> SUFFICES ASSUME NEW i \in Up(byte, n)
             PROVE  i \in n .. n + 7
  OBVIOUS
<1>1. PICK b \in 0 .. 7 : i = b + n
  BY DEF Up, Octet
<1> QED BY <1>1

(* As long as the division is before it, a byte behind the block stays. *)
LEMMA RestOfAppended ==
  ASSUME NEW taken \in Seq(Octet), NEW byte \in Octet
  PROVE  RestAfter(Append(taken, byte), 8 * Len(taken)) =
           Xor(RestAfter(taken, 8 * Len(taken)), Up(byte, 8 * Len(taken)))
<1> DEFINE more == Append(taken, byte)
           n == 8 * Len(taken)
           up == Up(byte, n)
           T == {m \in Nat : m <= n => RestAfter(more, m) = Xor(RestAfter(taken, m), up)}
<1>1. n \in Nat /\ more \in Seq(Octet)
  OBVIOUS
<1>2. Xor(Sent(taken), Ones) \in SUBSET Nat /\ Xor(Sent(more), Ones) \in SUBSET Nat
  BY <1>1, SentNat
<1>3. Sent(more) = Xor(Sent(taken), up)
  BY SentOneMore
<1>4. \A i \in up : i \in n .. n + 7
  BY <1>1, UpBehind
<1> HIDE DEF more, n, up
<1>5. 0 \in T
  <2>1. /\ RestAfter(taken, 0) = Xor(Sent(taken), Ones)
        /\ RestAfter(more, 0) = Xor(Sent(more), Ones)
    BY <1>2, RestAfterOneMore
  <2>2. Xor(Sent(more), Ones) = Xor(Xor(Sent(taken), Ones), up)
    BY <1>3, XorMoves
  <2> QED BY <2>1, <2>2
<1>6. ASSUME NEW m \in Nat, m \in T
      PROVE  m + 1 \in T
  <2> SUFFICES ASSUME m + 1 <= n
               PROVE  RestAfter(more, m + 1) = Xor(RestAfter(taken, m + 1), up)
    OBVIOUS
  <2> DEFINE r == RestAfter(taken, m)
             s == RestAfter(more, m)
  <2>1. s = Xor(r, up)
    BY <1>1, <1>6
  <2>2. /\ r \in SUBSET Nat /\ s \in SUBSET Nat
        /\ RestAfter(taken, m + 1) = DividedAt(r, m)
        /\ RestAfter(more, m + 1) = DividedAt(s, m)
    BY <1>2, RestAfterOneMore
  <2>3. m \notin up
    BY <1>1, <1>4
  <2> HIDE DEF r, s
  <2>4. m \in s <=> m \in r
    BY <2>1, <2>3 DEF Xor
  <2>5. CASE m \in r
    <3>1. DividedAt(r, m) = Xor(r, Under(m)) /\ DividedAt(s, m) = Xor(s, Under(m))
      BY <2>2, <2>4, <2>5, DividedIs
    <3>2. Xor(s, Under(m)) = Xor(Xor(r, Under(m)), up)
      BY <2>1, XorMoves
    <3> QED BY <2>2, <3>1, <3>2
  <2>6. CASE m \notin r
    <3>1. DividedAt(r, m) = r /\ DividedAt(s, m) = s
      BY <2>2, <2>4, <2>6, DividedIs
    <3> QED BY <2>1, <2>2, <3>1
  <2> QED BY <2>5, <2>6
<1>7. Nat \subseteq T
  <2> HIDE DEF T
  <2> QED BY <1>5, <1>6, Induction
<1>8. RestAfter(more, n) = Xor(RestAfter(taken, n), up)
  BY <1>1, <1>7
<1> QED BY <1>8 DEF more, n, up

(* What the sum has become is what is left of the block when it is divided *)
(* up to the bit the loop is at.                                           *)
Place == 8 * Len(block) - bit

CrcInv ==
  /\ block \in Seq(Octet)
  /\ bit \in 0 .. 8
  /\ verdict \in {"returned", "summing", "accepted", "refused"}
  /\ verdict # "summing" => bit = 0
  /\ bit > 0 => Len(block) > 0
  /\ Fits(RestAfter(block, Place), Place)
  /\ verdict = "summing" => crc = Window(RestAfter(block, Place), Place)
  /\ verdict # "summing" => crc = Xor(Window(RestAfter(block, Place), Place), Ones)

LEMMA CrcInitInv == CrcInit => CrcInv
<1> SUFFICES ASSUME CrcInit
             PROVE  CrcInv
  OBVIOUS
<1>1. block = <<>> /\ crc = {} /\ bit = 0 /\ verdict = "returned"
  BY DEF CrcInit
<1>2. block \in Seq(Octet) /\ Len(block) = 0 /\ DOMAIN block = {}
  BY <1>1
<1>3. Place = 0
  BY <1>1, <1>2 DEF Place
<1>4. Sent(block) = {}
  BY <1>2 DEF Sent
<1>5. Xor(Sent(block), Ones) = Ones /\ Xor(Ones, Ones) = {}
  BY <1>4 DEF Xor
<1>6. RestAfter(block, 0) = Ones
  BY <1>2, <1>5, SentNat, RestAfterOneMore
<1>7. Fits(Ones, 0)
  BY DEF Fits, Ones
<1>8. Window(Ones, 0) = Ones
  <2>1. ASSUME NEW i \in Ones
        PROVE  i - 0 = i
    BY DEF Ones
  <2> QED BY <2>1 DEF Window
<1> QED BY <1>1, <1>2, <1>3, <1>5, <1>6, <1>7, <1>8 DEF CrcInv

LEMMA CrcSeedKeeps == CrcInv /\ (Extend \/ Return) => CrcInv'
<1> SUFFICES ASSUME CrcInv, Extend \/ Return
             PROVE  CrcInv'
  OBVIOUS
<1> DEFINE w == Window(RestAfter(block, Place), Place)
<1>1. /\ UNCHANGED <<block, bit>> /\ bit = 0 /\ crc' = Xor(crc, Ones)
      /\ verdict # "summing" <=> verdict' = "summing"
      /\ verdict' \in {"returned", "summing"}
  BY DEF Extend, Return, Seeded, CrcInv
<1>2. Place' = Place /\ RestAfter(block, Place)' = RestAfter(block, Place)
  BY <1>1 DEF Place
<1>3. /\ verdict = "summing" => crc = w
      /\ verdict # "summing" => crc = Xor(w, Ones)
  BY DEF CrcInv
<1>4. Xor(Xor(w, Ones), Ones) = w
  BY XorMoves
<1>5. /\ verdict' = "summing" => crc' = w
      /\ verdict' # "summing" => crc' = Xor(w, Ones)
  <2> HIDE DEF w
  <2> QED BY <1>1, <1>3, <1>4
<1> QED BY <1>1, <1>2, <1>5 DEF CrcInv

LEMMA CrcShiftKeeps == CrcInv /\ ShiftBit => CrcInv'
<1> SUFFICES ASSUME CrcInv, ShiftBit
             PROVE  CrcInv'
  OBVIOUS
<1> DEFINE n == Place
           r == RestAfter(block, n)
<1>1. /\ bit > 0 /\ crc' = BitStep(crc) /\ bit' = bit - 1
      /\ UNCHANGED <<block, verdict>>
  BY DEF ShiftBit
<1>2. /\ block \in Seq(Octet) /\ bit \in 0 .. 8 /\ verdict = "summing"
      /\ Fits(r, n) /\ crc = Window(r, n) /\ Len(block) \in Nat /\ Len(block) > 0
  BY <1>1 DEF CrcInv
<1>3. n \in Nat /\ Place' = n + 1
  BY <1>1, <1>2 DEF Place
<1>4. RestAfter(block, n + 1) = DividedAt(r, n)
  <2> HIDE DEF n
  <2> QED BY <1>2, <1>3, SentNat, RestAfterOneMore
<1>5. RestAfter(block, Place)' = RestAfter(block, n + 1)
  BY <1>1, <1>3
<1>6. Fits(DividedAt(r, n), n + 1) /\ Window(DividedAt(r, n), n + 1) = BitStep(Window(r, n))
  <2> HIDE DEF n, r
  <2> QED BY <1>2, <1>3, TurnDivides
<1> HIDE DEF n, r
<1>7. Fits(RestAfter(block, Place), Place)'
  BY <1>3, <1>4, <1>5, <1>6
<1>8. crc' = Window(RestAfter(block, Place), Place)'
  BY <1>1, <1>2, <1>3, <1>4, <1>5, <1>6
<1>9. bit' \in 0 .. 8
  BY <1>1, <1>2
<1> QED BY <1>1, <1>2, <1>7, <1>8, <1>9 DEF CrcInv

(* A byte behind the first bit of a word is taken into its lowest bits. *)
LEMMA ByteInWindow ==
  ASSUME NEW n \in Nat, NEW r, Fits(r, n), NEW byte \in Octet
  PROVE  /\ Fits(Xor(r, Up(byte, n)), n)
         /\ Window(Xor(r, Up(byte, n)), n) = Xor(Window(r, n), byte)
<1> DEFINE up == Up(byte, n)
           q == Xor(r, up)
<1>1. \A i \in up : i \in n .. n + 7
  BY UpBehind
<1>2. \A i \in up : i \in n .. n + 31
  BY <1>1
<1>3. Fits(q, n)
  BY <1>2 DEF Fits, Xor
<1>4. Window(r, n) \in Word32 /\ Window(q, n) \in Word32 /\ byte \in Word32
  BY <1>3, WindowIs, OctetFits
<1>5. Xor(Window(r, n), byte) \in Word32
  BY <1>4, XorWord
<1>6. ASSUME NEW b \in 0 .. 31
      PROVE  b \in Window(q, n) <=> b \in Xor(Window(r, n), byte)
  <2>1. b \in Window(q, n) <=> b + n \in q
    BY <1>3, WindowIs
  <2>2. b \in Window(r, n) <=> b + n \in r
    BY WindowIs
  <2>3. b + n \in up <=> b \in byte
    <3>1. byte \in SUBSET (0 .. 7)
      BY DEF Octet
    <3>2. \A c \in 0 .. 7 : c + n = b + n <=> c = b
      OBVIOUS
    <3> QED BY <3>1, <3>2 DEF Up
  <2> HIDE DEF up
  <2> QED BY <2>1, <2>2, <2>3 DEF Xor
<1>7. Window(q, n) = Xor(Window(r, n), byte)
  <2> HIDE DEF q
  <2> QED BY <1>4, <1>5, <1>6 DEF Word32
<1> QED BY <1>3, <1>7

LEMMA CrcByteKeeps ==
  ASSUME NEW byte \in SentByte, NEW change, CrcInv, TakeByte(byte, change)
  PROVE  CrcInv'
<1> DEFINE n == 8 * Len(block)
           r == RestAfter(block, n)
<1>1. /\ verdict = "summing" /\ verdict' = verdict /\ bit = 0 /\ bit' = 8
      /\ block' = Append(block, byte) /\ crc' = Xor(crc, byte)
  BY DEF TakeByte
<1>2. byte \in Octet
  BY ChecksumAssumption
<1>3. block \in Seq(Octet) /\ n \in Nat /\ Len(block) \in Nat
  BY DEF CrcInv
<1>4. Place = n
  BY <1>1, <1>3 DEF Place
<1>5. Fits(r, n) /\ crc = Window(r, n)
  BY <1>1, <1>4 DEF CrcInv
<1>6. block' \in Seq(Octet) /\ Len(block') = Len(block) + 1
  BY <1>1, <1>2, <1>3
<1>7. Place' = n
  BY <1>1, <1>3, <1>6 DEF Place
<1>8. RestAfter(block, Place)' = Xor(r, Up(byte, n))
  <2>1. RestAfter(Append(block, byte), n) = Xor(r, Up(byte, n))
    BY <1>2, <1>3, RestOfAppended
  <2> QED BY <1>1, <1>7, <2>1
<1>9. /\ Fits(Xor(r, Up(byte, n)), n)
      /\ Window(Xor(r, Up(byte, n)), n) = Xor(Window(r, n), byte)
  <2> HIDE DEF n, r
  <2> QED BY <1>2, <1>3, <1>5, ByteInWindow
<1> HIDE DEF n, r
<1>10. Fits(RestAfter(block, Place), Place)'
  BY <1>7, <1>8, <1>9
<1>11. crc' = Window(RestAfter(block, Place), Place)'
  BY <1>1, <1>5, <1>7, <1>8, <1>9
<1>12. Len(block') > 0
  BY <1>3, <1>6
<1> QED BY <1>1, <1>6, <1>10, <1>11, <1>12 DEF CrcInv

LEMMA CrcCompareKeeps ==
  ASSUME NEW k, NEW change, CrcInv, Compare(k, change)
  PROVE  CrcInv'
<1>1. /\ verdict = "returned" /\ verdict' \in {"accepted", "refused"}
      /\ UNCHANGED <<block, crc, bit>>
  BY DEF Compare
<1>2. Place' = Place /\ RestAfter(block, Place)' = RestAfter(block, Place)
  BY <1>1 DEF Place
<1> QED BY <1>1, <1>2 DEF CrcInv

LEMMA CrcNextInv == CrcInv /\ [CrcNext]_crcVars => CrcInv'
<1> SUFFICES ASSUME CrcInv, [CrcNext]_crcVars
             PROVE  CrcInv'
  OBVIOUS
<1>1. CASE Extend \/ Return
  BY <1>1, CrcSeedKeeps
<1>2. CASE ShiftBit
  BY <1>2, CrcShiftKeeps
<1>3. CASE \E byte \in SentByte, change \in Change \cup {{}} : TakeByte(byte, change)
  BY <1>3, CrcByteKeeps
<1>4. CASE \E k \in 1 .. 4, change \in Change \cup {{}} : Compare(k, change)
  BY <1>4, CrcCompareKeeps
<1>5. CASE UNCHANGED crcVars
  <2>1. UNCHANGED <<block, crc, bit, verdict>>
    BY <1>5 DEF crcVars
  <2>2. Place' = Place /\ RestAfter(block, Place)' = RestAfter(block, Place)
    BY <2>1 DEF Place
  <2> QED BY <2>1, <2>2 DEF CrcInv
<1> QED BY <1>1, <1>2, <1>3, <1>4, <1>5 DEF CrcNext

LEMMA SumIsRemainder ==
  ASSUME CrcInv, verdict = "returned"
  PROVE  crc = CrcOf(block)
<1> DEFINE n == 8 * Len(block)
<1>1. Place = n /\ crc = Xor(Window(RestAfter(block, Place), Place), Ones)
  <2>1. bit = 0 /\ Len(block) \in Nat
    BY DEF CrcInv
  <2> QED BY <2>1 DEF CrcInv, Place
<1>2. CrcOf(block) = Xor(Window(RestAfter(block, n), n), Ones)
  BY DEF CrcOf, Window
<1> QED BY <1>1, <1>2

-----------------------------------------------------------------------------
(***************************************************************************)
(* The turns of the loop over a byte, and the values of the older table.   *)
(***************************************************************************)

(* What the recursive definition of ByteStep stands for. *)
LEMMA ByteStepIs ==
  ASSUME NEW w
  PROVE  ByteStep(w) =
           BitStep(BitStep(BitStep(BitStep(BitStep(BitStep(BitStep(BitStep(w))))))))
<1> DEFINE Step(f) == [n \in 0 .. 8 |-> IF n = 0 THEN w ELSE BitStep(f[n - 1])]
           turned == CHOOSE f : f = Step(f)
           x1 == BitStep(w)
           x2 == BitStep(x1)
           x3 == BitStep(x2)
           x4 == BitStep(x3)
           x5 == BitStep(x4)
           x6 == BitStep(x5)
           x7 == BitStep(x6)
           x8 == BitStep(x7)
           h == [n \in 0 .. 8 |-> <<w, x1, x2, x3, x4, x5, x6, x7, x8>>[n + 1]]
<1>1. ByteStep(w) = turned[8]
  BY DEF ByteStep
<1>2. h = Step(h)
  <2>1. /\ h[0] = w /\ h[1] = x1 /\ h[2] = x2 /\ h[3] = x3 /\ h[4] = x4
        /\ h[5] = x5 /\ h[6] = x6 /\ h[7] = x7 /\ h[8] = x8
    <3> HIDE DEF x1, x2, x3, x4, x5, x6, x7, x8
    <3> QED OBVIOUS
  <2>2. DOMAIN h = 0 .. 8 /\ h = [n \in 0 .. 8 |-> h[n]]
    OBVIOUS
  <2>3. /\ x1 = BitStep(w) /\ x2 = BitStep(x1) /\ x3 = BitStep(x2) /\ x4 = BitStep(x3)
        /\ x5 = BitStep(x4) /\ x6 = BitStep(x5) /\ x7 = BitStep(x6) /\ x8 = BitStep(x7)
    OBVIOUS
  <2> HIDE DEF h, x1, x2, x3, x4, x5, x6, x7, x8
  <2>4. ASSUME NEW n \in 0 .. 8
        PROVE  h[n] = IF n = 0 THEN w ELSE BitStep(h[n - 1])
    <3>1. \/ n = 0 \/ n = 1 \/ n = 2 \/ n = 3 \/ n = 4 \/ n = 5 \/ n = 6 \/ n = 7 \/ n = 8
      OBVIOUS
    <3> QED BY <2>1, <2>3, <3>1
  <2> QED BY <2>2, <2>4
<1>3. turned = Step(turned)
  <2> HIDE DEF Step, h
  <2> QED BY <1>2
<1> HIDE DEF turned
<1>4. turned[0] = w /\ \A n \in 1 .. 8 : turned[n] = BitStep(turned[n - 1])
  <2>1. \A n \in 0 .. 8 : turned[n] = IF n = 0 THEN w ELSE BitStep(turned[n - 1])
    BY <1>3
  <2> QED BY <2>1
<1>5. /\ turned[1] = x1 /\ turned[2] = BitStep(turned[1]) /\ turned[3] = BitStep(turned[2])
      /\ turned[4] = BitStep(turned[3]) /\ turned[5] = BitStep(turned[4])
      /\ turned[6] = BitStep(turned[5]) /\ turned[7] = BitStep(turned[6])
      /\ turned[8] = BitStep(turned[7])
  BY <1>4
<1> QED BY <1>1, <1>5

LEMMA ByteStepLinear ==
  ASSUME NEW v, NEW w
  PROVE  ByteStep(Xor(v, w)) = Xor(ByteStep(v), ByteStep(w))
<1> DEFINE Twice(u) == BitStep(BitStep(u))
           Four(u) == Twice(Twice(u))
<1>1. ASSUME NEW a, NEW b
      PROVE  Twice(Xor(a, b)) = Xor(Twice(a), Twice(b))
  BY BitStepLinear
<1>2. ASSUME NEW a, NEW b
      PROVE  Four(Xor(a, b)) = Xor(Four(a), Four(b))
  <2> HIDE DEF Twice
  <2> QED BY <1>1
<1>3. ASSUME NEW u
      PROVE  ByteStep(u) = Four(Four(u))
  BY ByteStepIs
<1> HIDE DEF Four
<1> QED BY <1>2, <1>3

(* The sums over the bytes with one of the four low bits: the bit goes,    *)
(* the polynomial comes, and is turned itself.                             *)
LEMMA OneBitTurned ==
  /\ ByteStep({}) = {}
  /\ ByteStep({0}) = {1, 2, 4, 7, 12, 13, 16, 17, 18, 24, 25, 26, 28, 29, 30}
  /\ ByteStep({1}) = {2, 3, 5, 8, 13, 14, 17, 18, 19, 25, 26, 27, 29, 30, 31}
  /\ ByteStep({2}) = {0, 3, 4, 10, 14, 15, 16, 18, 19, 21, 22, 24, 25, 26}
  /\ ByteStep({3}) = {1, 4, 5, 11, 15, 16, 17, 19, 20, 22, 23, 25, 26, 27}
<1> DEFINE c0 == {5, 8, 9, 15, 19, 20, 21, 23, 24, 26, 27, 29, 30, 31}
           c1 == {4, 7, 8, 14, 18, 19, 20, 22, 23, 25, 26, 28, 29, 30}
           c2 == {3, 6, 7, 13, 17, 18, 19, 21, 22, 24, 25, 27, 28, 29}
           c3 == {2, 5, 6, 12, 16, 17, 18, 20, 21, 23, 24, 26, 27, 28}
           c4 == {1, 4, 5, 11, 15, 16, 17, 19, 20, 22, 23, 25, 26, 27}
           c5 == {0, 3, 4, 10, 14, 15, 16, 18, 19, 21, 22, 24, 25, 26}
           c6 == {2, 3, 5, 8, 13, 14, 17, 18, 19, 25, 26, 27, 29, 30, 31}
           c7 == {1, 2, 4, 7, 12, 13, 16, 17, 18, 24, 25, 26, 28, 29, 30}
<1>1. BitStep({3}) = {2} /\ BitStep({2}) = {1} /\ BitStep({1}) = {0} /\ BitStep({}) = {}
  BY DEF BitStep, Down
<1>2. BitStep({0}) = c0
  <2>1. Down({0}) = {}
    BY DEF Down
  <2>2. BitStep({0}) = Xor({}, Poly)
    BY <2>1 DEF BitStep
  <2>3. Xor({}, Poly) = Poly
    BY DEF Xor
  <2>4. Poly = c0
    BY SMTT(30) DEF Poly
  <2> QED BY <2>2, <2>3, <2>4
<1>3. BitStep(c0) = c1
  BY DEF BitStep, Down
<1>4. BitStep(c1) = c2
  BY DEF BitStep, Down
<1>5. BitStep(c2) = c3
  BY DEF BitStep, Down
<1>6. BitStep(c3) = c4
  BY DEF BitStep, Down
<1>7. BitStep(c4) = c5
  BY DEF BitStep, Down
<1>8. BitStep(c5) = c6
  <2>1. Down(c5) = {2, 3, 9, 13, 14, 15, 17, 18, 20, 21, 23, 24, 25}
    BY DEF Down
  <2>2. BitStep(c5) = Xor(Down(c5), Poly)
    BY DEF BitStep
  <2>3. Down(c5) \ Poly = {2, 3, 13, 14, 17, 18, 25}
    BY <2>1, SMTT(30) DEF Poly
  <2>4. Poly \ Down(c5) = {5, 8, 19, 26, 27, 29, 30, 31}
    BY <2>1, SMTT(30) DEF Poly
  <2> QED BY <2>2, <2>3, <2>4, SMTT(30) DEF Xor
<1>9. BitStep(c6) = c7
  BY DEF BitStep, Down
<1> HIDE DEF c0, c1, c2, c3, c4, c5, c6, c7
<1>10. ByteStep({}) = {}
  BY <1>1, ByteStepIs
<1>11. ByteStep({0}) = c7
  BY <1>1, <1>2, <1>3, <1>4, <1>5, <1>6, <1>7, <1>8, <1>9, ByteStepIs
<1>12. ByteStep({1}) = c6
  BY <1>1, <1>2, <1>3, <1>4, <1>5, <1>6, <1>7, <1>8, ByteStepIs
<1>13. ByteStep({2}) = c5
  BY <1>1, <1>2, <1>3, <1>4, <1>5, <1>6, <1>7, ByteStepIs
<1>14. ByteStep({3}) = c4
  BY <1>1, <1>2, <1>3, <1>4, <1>5, <1>6, ByteStepIs
<1> QED BY <1>10, <1>11, <1>12, <1>13, <1>14 DEF c4, c5, c6, c7

LEMMA PowersOfTwo ==
  /\ PowerOf(2, 0) = 1 /\ PowerOf(2, 1) = 2 /\ PowerOf(2, 2) = 4 /\ PowerOf(2, 3) = 8
  /\ PowerOf(2, 4) = 16 /\ PowerOf(2, 5) = 32 /\ PowerOf(2, 6) = 64 /\ PowerOf(2, 7) = 128
  /\ PowerOf(2, 8) = 256 /\ PowerOf(2, 9) = 512 /\ PowerOf(2, 10) = 1024
  /\ PowerOf(2, 11) = 2048 /\ PowerOf(2, 12) = 4096 /\ PowerOf(2, 13) = 8192
  /\ PowerOf(2, 14) = 16384 /\ PowerOf(2, 15) = 32768
<1>1. PowerOf(2, 0) = 1
  BY PowerOfNone
<1>2. ASSUME NEW n \in Nat
      PROVE  PowerOf(2, n + 1) = 2 * PowerOf(2, n)
  BY PowerOfOneMore
<1>3. /\ 0 + 1 = 1 /\ 1 + 1 = 2 /\ 2 + 1 = 3 /\ 3 + 1 = 4 /\ 4 + 1 = 5 /\ 5 + 1 = 6
      /\ 6 + 1 = 7 /\ 7 + 1 = 8 /\ 8 + 1 = 9 /\ 9 + 1 = 10 /\ 10 + 1 = 11
      /\ 11 + 1 = 12 /\ 12 + 1 = 13 /\ 13 + 1 = 14 /\ 14 + 1 = 15
  OBVIOUS
<1>4. /\ PowerOf(2, 1) = 2 /\ PowerOf(2, 2) = 4 /\ PowerOf(2, 3) = 8
      /\ PowerOf(2, 4) = 16 /\ PowerOf(2, 5) = 32
  BY <1>1, <1>2, <1>3
<1>5. /\ PowerOf(2, 6) = 64 /\ PowerOf(2, 7) = 128 /\ PowerOf(2, 8) = 256
      /\ PowerOf(2, 9) = 512 /\ PowerOf(2, 10) = 1024
  BY <1>2, <1>3, <1>4
<1>6. /\ PowerOf(2, 11) = 2048 /\ PowerOf(2, 12) = 4096 /\ PowerOf(2, 13) = 8192
      /\ PowerOf(2, 14) = 16384 /\ PowerOf(2, 15) = 32768
  BY <1>2, <1>3, <1>5
<1> QED BY <1>1, <1>4, <1>5, <1>6

(* A value of the table, as the bits of a word. *)
Row(i) == BitsOf(ProbeTable[i + 1][2]) \cup Up(BitsOf(ProbeTable[i + 1][1]), 16)

LEMMA RowBits ==
  /\ Row(0) = {}
  /\ Row(1) = {1, 2, 4, 7, 12, 13, 16, 17, 18, 24, 25, 26, 28, 29, 30}
  /\ Row(2) = {2, 3, 5, 8, 13, 14, 17, 18, 19, 25, 26, 27, 29, 30, 31}
  /\ Row(3) = {1, 3, 4, 5, 7, 8, 12, 14, 16, 19, 24, 27, 28, 31}
  /\ Row(4) = {0, 3, 4, 10, 14, 15, 16, 18, 19, 21, 22, 24, 25, 26}
  /\ Row(5) = {0, 1, 2, 3, 7, 10, 12, 13, 14, 15, 17, 19, 21, 22, 28, 29, 30}
  /\ Row(6) = {0, 2, 4, 5, 8, 10, 13, 15, 16, 17, 21, 22, 24, 27, 29, 30, 31}
  /\ Row(7) = {0, 1, 5, 7, 8, 10, 12, 15, 18, 21, 22, 25, 26, 27, 28, 31}
  /\ Row(8) = {1, 4, 5, 11, 15, 16, 17, 19, 20, 22, 23, 25, 26, 27}
  /\ Row(9) = {2, 5, 7, 11, 12, 13, 15, 18, 19, 20, 22, 23, 24, 27, 28, 29, 30}
  /\ Row(10) = {1, 2, 3, 4, 8, 11, 13, 14, 15, 16, 18, 20, 22, 23, 29, 30, 31}
  /\ Row(11) = {3, 7, 8, 11, 12, 14, 15, 17, 20, 22, 23, 24, 25, 26, 28, 31}
  /\ Row(12) = {0, 1, 3, 5, 10, 11, 14, 17, 18, 20, 21, 23, 24, 27}
  /\ Row(13) = {0, 2, 3, 4, 5, 7, 10, 11, 12, 13, 14, 16, 20, 21, 23, 25, 26, 27,
                28, 29, 30}
  /\ Row(14) = {0, 1, 2, 8, 10, 11, 13, 19, 20, 21, 23, 24, 25, 26, 29, 30, 31}
  /\ Row(15) = {0, 4, 7, 8, 10, 11, 12, 16, 17, 18, 19, 20, 21, 23, 28, 31}
<1>1. Row(0) = {}
  <2>1. ProbeTable[1] = <<\h0000, \h0000>>
    BY DEF ProbeTable
  <2>2. BitsOf(\h0000) = {}
    BY PowersOfTwo, SMTT(60) DEF BitsOf
  <2>3. BitsOf(\h0000) = {}
    BY PowersOfTwo, SMTT(60) DEF BitsOf
  <2>4. Up({}, 16) = {}
    BY SMTT(60) DEF Up
  <2> QED BY <2>1, <2>2, <2>3, <2>4, SMTT(60) DEF Row
<1>2. Row(1) = {1, 2, 4, 7, 12, 13, 16, 17, 18, 24, 25, 26, 28, 29, 30}
  <2>1. ProbeTable[2] = <<\h7707, \h3096>>
    BY DEF ProbeTable
  <2>2. BitsOf(\h7707) = {0, 1, 2, 8, 9, 10, 12, 13, 14}
    BY PowersOfTwo, SMTT(60) DEF BitsOf
  <2>3. BitsOf(\h3096) = {1, 2, 4, 7, 12, 13}
    BY PowersOfTwo, SMTT(60) DEF BitsOf
  <2>4. Up({0, 1, 2, 8, 9, 10, 12, 13, 14}, 16) = {16, 17, 18, 24, 25, 26, 28, 29, 30}
    BY SMTT(60) DEF Up
  <2> QED BY <2>1, <2>2, <2>3, <2>4, SMTT(60) DEF Row
<1>3. Row(2) = {2, 3, 5, 8, 13, 14, 17, 18, 19, 25, 26, 27, 29, 30, 31}
  <2>1. ProbeTable[3] = <<\hee0e, \h612c>>
    BY DEF ProbeTable
  <2>2. BitsOf(\hee0e) = {1, 2, 3, 9, 10, 11, 13, 14, 15}
    BY PowersOfTwo, SMTT(60) DEF BitsOf
  <2>3. BitsOf(\h612c) = {2, 3, 5, 8, 13, 14}
    BY PowersOfTwo, SMTT(60) DEF BitsOf
  <2>4. Up({1, 2, 3, 9, 10, 11, 13, 14, 15}, 16) = {17, 18, 19, 25, 26, 27, 29, 30, 31}
    BY SMTT(60) DEF Up
  <2> QED BY <2>1, <2>2, <2>3, <2>4, SMTT(60) DEF Row
<1>4. Row(3) = {1, 3, 4, 5, 7, 8, 12, 14, 16, 19, 24, 27, 28, 31}
  <2>1. ProbeTable[4] = <<\h9909, \h51ba>>
    BY DEF ProbeTable
  <2>2. BitsOf(\h9909) = {0, 3, 8, 11, 12, 15}
    BY PowersOfTwo, SMTT(60) DEF BitsOf
  <2>3. BitsOf(\h51ba) = {1, 3, 4, 5, 7, 8, 12, 14}
    BY PowersOfTwo, SMTT(60) DEF BitsOf
  <2>4. Up({0, 3, 8, 11, 12, 15}, 16) = {16, 19, 24, 27, 28, 31}
    BY SMTT(60) DEF Up
  <2> QED BY <2>1, <2>2, <2>3, <2>4, SMTT(60) DEF Row
<1>5. Row(4) = {0, 3, 4, 10, 14, 15, 16, 18, 19, 21, 22, 24, 25, 26}
  <2>1. ProbeTable[5] = <<\h076d, \hc419>>
    BY DEF ProbeTable
  <2>2. BitsOf(\h076d) = {0, 2, 3, 5, 6, 8, 9, 10}
    BY PowersOfTwo, SMTT(60) DEF BitsOf
  <2>3. BitsOf(\hc419) = {0, 3, 4, 10, 14, 15}
    BY PowersOfTwo, SMTT(60) DEF BitsOf
  <2>4. Up({0, 2, 3, 5, 6, 8, 9, 10}, 16) = {16, 18, 19, 21, 22, 24, 25, 26}
    BY SMTT(60) DEF Up
  <2> QED BY <2>1, <2>2, <2>3, <2>4, SMTT(60) DEF Row
<1>6. Row(5) = {0, 1, 2, 3, 7, 10, 12, 13, 14, 15, 17, 19, 21, 22, 28, 29, 30}
  <2>1. ProbeTable[6] = <<\h706a, \hf48f>>
    BY DEF ProbeTable
  <2>2. BitsOf(\h706a) = {1, 3, 5, 6, 12, 13, 14}
    BY PowersOfTwo, SMTT(60) DEF BitsOf
  <2>3. BitsOf(\hf48f) = {0, 1, 2, 3, 7, 10, 12, 13, 14, 15}
    BY PowersOfTwo, SMTT(60) DEF BitsOf
  <2>4. Up({1, 3, 5, 6, 12, 13, 14}, 16) = {17, 19, 21, 22, 28, 29, 30}
    BY SMTT(60) DEF Up
  <2> QED BY <2>1, <2>2, <2>3, <2>4, SMTT(60) DEF Row
<1>7. Row(6) = {0, 2, 4, 5, 8, 10, 13, 15, 16, 17, 21, 22, 24, 27, 29, 30, 31}
  <2>1. ProbeTable[7] = <<\he963, \ha535>>
    BY DEF ProbeTable
  <2>2. BitsOf(\he963) = {0, 1, 5, 6, 8, 11, 13, 14, 15}
    BY PowersOfTwo, SMTT(60) DEF BitsOf
  <2>3. BitsOf(\ha535) = {0, 2, 4, 5, 8, 10, 13, 15}
    BY PowersOfTwo, SMTT(60) DEF BitsOf
  <2>4. Up({0, 1, 5, 6, 8, 11, 13, 14, 15}, 16) = {16, 17, 21, 22, 24, 27, 29, 30, 31}
    BY SMTT(60) DEF Up
  <2> QED BY <2>1, <2>2, <2>3, <2>4, SMTT(60) DEF Row
<1>8. Row(7) = {0, 1, 5, 7, 8, 10, 12, 15, 18, 21, 22, 25, 26, 27, 28, 31}
  <2>1. ProbeTable[8] = <<\h9e64, \h95a3>>
    BY DEF ProbeTable
  <2>2. BitsOf(\h9e64) = {2, 5, 6, 9, 10, 11, 12, 15}
    BY PowersOfTwo, SMTT(60) DEF BitsOf
  <2>3. BitsOf(\h95a3) = {0, 1, 5, 7, 8, 10, 12, 15}
    BY PowersOfTwo, SMTT(60) DEF BitsOf
  <2>4. Up({2, 5, 6, 9, 10, 11, 12, 15}, 16) = {18, 21, 22, 25, 26, 27, 28, 31}
    BY SMTT(60) DEF Up
  <2> QED BY <2>1, <2>2, <2>3, <2>4, SMTT(60) DEF Row
<1>9. Row(8) = {1, 4, 5, 11, 15, 16, 17, 19, 20, 22, 23, 25, 26, 27}
  <2>1. ProbeTable[9] = <<\h0edb, \h8832>>
    BY DEF ProbeTable
  <2>2. BitsOf(\h0edb) = {0, 1, 3, 4, 6, 7, 9, 10, 11}
    BY PowersOfTwo, SMTT(60) DEF BitsOf
  <2>3. BitsOf(\h8832) = {1, 4, 5, 11, 15}
    BY PowersOfTwo, SMTT(60) DEF BitsOf
  <2>4. Up({0, 1, 3, 4, 6, 7, 9, 10, 11}, 16) = {16, 17, 19, 20, 22, 23, 25, 26, 27}
    BY SMTT(60) DEF Up
  <2> QED BY <2>1, <2>2, <2>3, <2>4, SMTT(60) DEF Row
<1>10. Row(9) = {2, 5, 7, 11, 12, 13, 15, 18, 19, 20, 22, 23, 24, 27, 28, 29, 30}
  <2>1. ProbeTable[10] = <<\h79dc, \hb8a4>>
    BY DEF ProbeTable
  <2>2. BitsOf(\h79dc) = {2, 3, 4, 6, 7, 8, 11, 12, 13, 14}
    BY PowersOfTwo, SMTT(60) DEF BitsOf
  <2>3. BitsOf(\hb8a4) = {2, 5, 7, 11, 12, 13, 15}
    BY PowersOfTwo, SMTT(60) DEF BitsOf
  <2>4. Up({2, 3, 4, 6, 7, 8, 11, 12, 13, 14}, 16) = {18, 19, 20, 22, 23, 24, 27, 28, 29, 30}
    BY SMTT(60) DEF Up
  <2> QED BY <2>1, <2>2, <2>3, <2>4, SMTT(60) DEF Row
<1>11. Row(10) = {1, 2, 3, 4, 8, 11, 13, 14, 15, 16, 18, 20, 22, 23, 29, 30, 31}
  <2>1. ProbeTable[11] = <<\he0d5, \he91e>>
    BY DEF ProbeTable
  <2>2. BitsOf(\he0d5) = {0, 2, 4, 6, 7, 13, 14, 15}
    BY PowersOfTwo, SMTT(60) DEF BitsOf
  <2>3. BitsOf(\he91e) = {1, 2, 3, 4, 8, 11, 13, 14, 15}
    BY PowersOfTwo, SMTT(60) DEF BitsOf
  <2>4. Up({0, 2, 4, 6, 7, 13, 14, 15}, 16) = {16, 18, 20, 22, 23, 29, 30, 31}
    BY SMTT(60) DEF Up
  <2> QED BY <2>1, <2>2, <2>3, <2>4, SMTT(60) DEF Row
<1>12. Row(11) = {3, 7, 8, 11, 12, 14, 15, 17, 20, 22, 23, 24, 25, 26, 28, 31}
  <2>1. ProbeTable[12] = <<\h97d2, \hd988>>
    BY DEF ProbeTable
  <2>2. BitsOf(\h97d2) = {1, 4, 6, 7, 8, 9, 10, 12, 15}
    BY PowersOfTwo, SMTT(60) DEF BitsOf
  <2>3. BitsOf(\hd988) = {3, 7, 8, 11, 12, 14, 15}
    BY PowersOfTwo, SMTT(60) DEF BitsOf
  <2>4. Up({1, 4, 6, 7, 8, 9, 10, 12, 15}, 16) = {17, 20, 22, 23, 24, 25, 26, 28, 31}
    BY SMTT(60) DEF Up
  <2> QED BY <2>1, <2>2, <2>3, <2>4, SMTT(60) DEF Row
<1>13. Row(12) = {0, 1, 3, 5, 10, 11, 14, 17, 18, 20, 21, 23, 24, 27}
  <2>1. ProbeTable[13] = <<\h09b6, \h4c2b>>
    BY DEF ProbeTable
  <2>2. BitsOf(\h09b6) = {1, 2, 4, 5, 7, 8, 11}
    BY PowersOfTwo, SMTT(60) DEF BitsOf
  <2>3. BitsOf(\h4c2b) = {0, 1, 3, 5, 10, 11, 14}
    BY PowersOfTwo, SMTT(60) DEF BitsOf
  <2>4. Up({1, 2, 4, 5, 7, 8, 11}, 16) = {17, 18, 20, 21, 23, 24, 27}
    BY SMTT(60) DEF Up
  <2> QED BY <2>1, <2>2, <2>3, <2>4, SMTT(60) DEF Row
<1>14. Row(13) = {0, 2, 3, 4, 5, 7, 10, 11, 12, 13, 14, 16, 20, 21, 23, 25, 26, 27,
                  28, 29, 30}
  <2>1. ProbeTable[14] = <<\h7eb1, \h7cbd>>
    BY DEF ProbeTable
  <2>2. BitsOf(\h7eb1) = {0, 4, 5, 7, 9, 10, 11, 12, 13, 14}
    BY PowersOfTwo, SMTT(60) DEF BitsOf
  <2>3. BitsOf(\h7cbd) = {0, 2, 3, 4, 5, 7, 10, 11, 12, 13, 14}
    BY PowersOfTwo, SMTT(60) DEF BitsOf
  <2>4. Up({0, 4, 5, 7, 9, 10, 11, 12, 13, 14}, 16) = {16, 20, 21, 23, 25, 26, 27, 28, 29, 30}
    BY SMTT(60) DEF Up
  <2> QED BY <2>1, <2>2, <2>3, <2>4, SMTT(60) DEF Row
<1>15. Row(14) = {0, 1, 2, 8, 10, 11, 13, 19, 20, 21, 23, 24, 25, 26, 29, 30, 31}
  <2>1. ProbeTable[15] = <<\he7b8, \h2d07>>
    BY DEF ProbeTable
  <2>2. BitsOf(\he7b8) = {3, 4, 5, 7, 8, 9, 10, 13, 14, 15}
    BY PowersOfTwo, SMTT(60) DEF BitsOf
  <2>3. BitsOf(\h2d07) = {0, 1, 2, 8, 10, 11, 13}
    BY PowersOfTwo, SMTT(60) DEF BitsOf
  <2>4. Up({3, 4, 5, 7, 8, 9, 10, 13, 14, 15}, 16) = {19, 20, 21, 23, 24, 25, 26, 29, 30, 31}
    BY SMTT(60) DEF Up
  <2> QED BY <2>1, <2>2, <2>3, <2>4, SMTT(60) DEF Row
<1>16. Row(15) = {0, 4, 7, 8, 10, 11, 12, 16, 17, 18, 19, 20, 21, 23, 28, 31}
  <2>1. ProbeTable[16] = <<\h90bf, \h1d91>>
    BY DEF ProbeTable
  <2>2. BitsOf(\h90bf) = {0, 1, 2, 3, 4, 5, 7, 12, 15}
    BY PowersOfTwo, SMTT(60) DEF BitsOf
  <2>3. BitsOf(\h1d91) = {0, 4, 7, 8, 10, 11, 12}
    BY PowersOfTwo, SMTT(60) DEF BitsOf
  <2>4. Up({0, 1, 2, 3, 4, 5, 7, 12, 15}, 16) = {16, 17, 18, 19, 20, 21, 23, 28, 31}
    BY SMTT(60) DEF Up
  <2> QED BY <2>1, <2>2, <2>3, <2>4, SMTT(60) DEF Row
<1> QED BY <1>1, <1>2, <1>3, <1>4, <1>5, <1>6, <1>7, <1>8, <1>9,
          <1>10, <1>11, <1>12, <1>13, <1>14, <1>15, <1>16

(* Each is the sum over the byte of the bits of its index: that of one bit *)
(* less, and of the highest.                                               *)
LEMMA RowIsTurned ==
  ASSUME NEW i \in 0 .. 15
  PROVE  ByteStep(BitsOf(i)) = Row(i)
<1>1. ByteStep({}) = Row(0)
  BY OneBitTurned, RowBits
<1>2. ByteStep({0}) = Row(1)
  BY OneBitTurned, RowBits
<1>3. ByteStep({1}) = Row(2)
  BY OneBitTurned, RowBits
<1>4. ByteStep({0, 1}) = Row(3)
  <2>1. {0, 1} = Xor({0}, {1})
    BY DEF Xor
  <2>2. ByteStep(Xor({0}, {1})) = Xor(ByteStep({0}), ByteStep({1}))
    BY ByteStepLinear
  <2>3. Row(3) = Xor(Row(1), Row(2))
    BY RowBits DEF Xor
  <2> QED BY <1>2, <1>3, <2>1, <2>2, <2>3
<1>5. ByteStep({2}) = Row(4)
  BY OneBitTurned, RowBits
<1>6. ByteStep({0, 2}) = Row(5)
  <2>1. {0, 2} = Xor({0}, {2})
    BY DEF Xor
  <2>2. ByteStep(Xor({0}, {2})) = Xor(ByteStep({0}), ByteStep({2}))
    BY ByteStepLinear
  <2>3. Row(5) = Xor(Row(1), Row(4))
    BY RowBits DEF Xor
  <2> QED BY <1>2, <1>5, <2>1, <2>2, <2>3
<1>7. ByteStep({1, 2}) = Row(6)
  <2>1. {1, 2} = Xor({1}, {2})
    BY DEF Xor
  <2>2. ByteStep(Xor({1}, {2})) = Xor(ByteStep({1}), ByteStep({2}))
    BY ByteStepLinear
  <2>3. Row(6) = Xor(Row(2), Row(4))
    BY RowBits DEF Xor
  <2> QED BY <1>3, <1>5, <2>1, <2>2, <2>3
<1>8. ByteStep({0, 1, 2}) = Row(7)
  <2>1. {0, 1, 2} = Xor({0, 1}, {2})
    BY DEF Xor
  <2>2. ByteStep(Xor({0, 1}, {2})) = Xor(ByteStep({0, 1}), ByteStep({2}))
    BY ByteStepLinear
  <2>3. Row(7) = Xor(Row(3), Row(4))
    BY RowBits DEF Xor
  <2> QED BY <1>4, <1>5, <2>1, <2>2, <2>3
<1>9. ByteStep({3}) = Row(8)
  BY OneBitTurned, RowBits
<1>10. ByteStep({0, 3}) = Row(9)
  <2>1. {0, 3} = Xor({0}, {3})
    BY DEF Xor
  <2>2. ByteStep(Xor({0}, {3})) = Xor(ByteStep({0}), ByteStep({3}))
    BY ByteStepLinear
  <2>3. Row(9) = Xor(Row(1), Row(8))
    BY RowBits DEF Xor
  <2> QED BY <1>2, <1>9, <2>1, <2>2, <2>3
<1>11. ByteStep({1, 3}) = Row(10)
  <2>1. {1, 3} = Xor({1}, {3})
    BY DEF Xor
  <2>2. ByteStep(Xor({1}, {3})) = Xor(ByteStep({1}), ByteStep({3}))
    BY ByteStepLinear
  <2>3. Row(10) = Xor(Row(2), Row(8))
    BY RowBits DEF Xor
  <2> QED BY <1>3, <1>9, <2>1, <2>2, <2>3
<1>12. ByteStep({0, 1, 3}) = Row(11)
  <2>1. {0, 1, 3} = Xor({0, 1}, {3})
    BY DEF Xor
  <2>2. ByteStep(Xor({0, 1}, {3})) = Xor(ByteStep({0, 1}), ByteStep({3}))
    BY ByteStepLinear
  <2>3. Row(11) = Xor(Row(3), Row(8))
    BY RowBits DEF Xor
  <2> QED BY <1>4, <1>9, <2>1, <2>2, <2>3
<1>13. ByteStep({2, 3}) = Row(12)
  <2>1. {2, 3} = Xor({2}, {3})
    BY DEF Xor
  <2>2. ByteStep(Xor({2}, {3})) = Xor(ByteStep({2}), ByteStep({3}))
    BY ByteStepLinear
  <2>3. Row(12) = Xor(Row(4), Row(8))
    BY RowBits DEF Xor
  <2> QED BY <1>5, <1>9, <2>1, <2>2, <2>3
<1>14. ByteStep({0, 2, 3}) = Row(13)
  <2>1. {0, 2, 3} = Xor({0, 2}, {3})
    BY DEF Xor
  <2>2. ByteStep(Xor({0, 2}, {3})) = Xor(ByteStep({0, 2}), ByteStep({3}))
    BY ByteStepLinear
  <2>3. Row(13) = Xor(Row(5), Row(8))
    BY RowBits DEF Xor
  <2> QED BY <1>6, <1>9, <2>1, <2>2, <2>3
<1>15. ByteStep({1, 2, 3}) = Row(14)
  <2>1. {1, 2, 3} = Xor({1, 2}, {3})
    BY DEF Xor
  <2>2. ByteStep(Xor({1, 2}, {3})) = Xor(ByteStep({1, 2}), ByteStep({3}))
    BY ByteStepLinear
  <2>3. Row(14) = Xor(Row(6), Row(8))
    BY RowBits DEF Xor
  <2> QED BY <1>7, <1>9, <2>1, <2>2, <2>3
<1>16. ByteStep({0, 1, 2, 3}) = Row(15)
  <2>1. {0, 1, 2, 3} = Xor({0, 1, 2}, {3})
    BY DEF Xor
  <2>2. ByteStep(Xor({0, 1, 2}, {3})) = Xor(ByteStep({0, 1, 2}), ByteStep({3}))
    BY ByteStepLinear
  <2>3. Row(15) = Xor(Row(7), Row(8))
    BY RowBits DEF Xor
  <2> QED BY <1>8, <1>9, <2>1, <2>2, <2>3
<1>17. /\ BitsOf(0) = {} /\ BitsOf(1) = {0} /\ BitsOf(2) = {1} /\ BitsOf(3) = {0, 1}
       /\ BitsOf(4) = {2} /\ BitsOf(5) = {0, 2} /\ BitsOf(6) = {1, 2} /\ BitsOf(7) = {0, 1, 2}
       /\ BitsOf(8) = {3} /\ BitsOf(9) = {0, 3} /\ BitsOf(10) = {1, 3} /\ BitsOf(11) = {0, 1, 3}
       /\ BitsOf(12) = {2, 3} /\ BitsOf(13) = {0, 2, 3} /\ BitsOf(14) = {1, 2, 3}
       /\ BitsOf(15) = {0, 1, 2, 3}
  BY PowersOfTwo DEF BitsOf
<1>18. i = 0 \/ i = 1 \/ i = 2 \/ i = 3 \/ i = 4 \/ i = 5 \/ i = 6 \/ i = 7
       \/ i = 8 \/ i = 9 \/ i = 10 \/ i = 11 \/ i = 12 \/ i = 13 \/ i = 14 \/ i = 15
  OBVIOUS
<1> QED BY <1>1, <1>2, <1>3, <1>4, <1>5, <1>6, <1>7, <1>8, <1>9,
          <1>10, <1>11, <1>12, <1>13, <1>14, <1>15, <1>16, <1>17, <1>18

(* Every set of the four low bits is that of a number. *)
LEMMA LowBitsOf ==
  ASSUME NEW v \in SUBSET (0 .. 3)
  PROVE  \E i \in 0 .. 15 : BitsOf(i) = v
<1> DEFINE bit0 == IF 0 \in v THEN 1 ELSE 0
           bit1 == IF 1 \in v THEN 2 ELSE 0
           bit2 == IF 2 \in v THEN 4 ELSE 0
           bit3 == IF 3 \in v THEN 8 ELSE 0
           i == bit0 + bit1 + bit2 + bit3
<1>1. bit0 \in {0, 1} /\ bit1 \in {0, 2} /\ bit2 \in {0, 4} /\ bit3 \in {0, 8}
  OBVIOUS
<1>2. /\ 0 \in v <=> bit0 = 1
      /\ 1 \in v <=> bit1 = 2
      /\ 2 \in v <=> bit2 = 4
      /\ 3 \in v <=> bit3 = 8
  OBVIOUS
<1> HIDE DEF bit0, bit1, bit2, bit3
<1>3. i \in 0 .. 15
  BY <1>1
<1>4. /\ (i \div 1) % 2 = 1 <=> bit0 = 1
      /\ (i \div 2) % 2 = 1 <=> bit1 = 2
      /\ (i \div 4) % 2 = 1 <=> bit2 = 4
      /\ (i \div 8) % 2 = 1 <=> bit3 = 8
  BY <1>1
<1>5. ASSUME NEW b \in 4 .. 15
      PROVE  b \notin BitsOf(i)
  <2>1. /\ i \div 16 = 0 /\ i \div 32 = 0 /\ i \div 64 = 0 /\ i \div 128 = 0
        /\ i \div 256 = 0 /\ i \div 512 = 0 /\ i \div 1024 = 0 /\ i \div 2048 = 0
        /\ i \div 4096 = 0 /\ i \div 8192 = 0 /\ i \div 16384 = 0 /\ i \div 32768 = 0
    BY <1>3
  <2>2. i \div PowerOf(2, b) = 0
    <3>1. \/ b = 4 \/ b = 5 \/ b = 6 \/ b = 7 \/ b = 8 \/ b = 9 \/ b = 10 \/ b = 11
          \/ b = 12 \/ b = 13 \/ b = 14 \/ b = 15
      OBVIOUS
    <3> HIDE DEF i
    <3> QED BY <2>1, <3>1, PowersOfTwo
  <2> HIDE DEF i
  <2> QED BY <2>2 DEF BitsOf
<1> HIDE DEF i
<1>6. /\ 0 \in BitsOf(i) <=> 0 \in v
      /\ 1 \in BitsOf(i) <=> 1 \in v
      /\ 2 \in BitsOf(i) <=> 2 \in v
      /\ 3 \in BitsOf(i) <=> 3 \in v
  BY <1>2, <1>4, PowersOfTwo DEF BitsOf
<1>7. BitsOf(i) = v
  <2>1. BitsOf(i) \subseteq 0 .. 15
    BY DEF BitsOf
  <2>2. \A b \in 0 .. 15 : b \in 4 .. 15 \/ b = 0 \/ b = 1 \/ b = 2 \/ b = 3
    OBVIOUS
  <2>3. ASSUME NEW b \in 0 .. 15
        PROVE  b \in BitsOf(i) <=> b \in v
    <3>1. CASE b \in 4 .. 15
      <4>1. b \notin v
        BY <3>1
      <4> QED BY <1>5, <3>1, <4>1
    <3>2. CASE b = 0 \/ b = 1 \/ b = 2 \/ b = 3
      BY <1>6, <3>2
    <3> QED BY <2>2, <3>1, <3>2
  <2>4. v \subseteq 0 .. 15
    OBVIOUS
  <2> QED BY <2>1, <2>3, <2>4
<1> QED BY <1>3, <1>7

LEMMA ProbeIsTurned ==
  ASSUME NEW w
  PROVE  ProbeValue(w \cap (0 .. 7)) = ByteStep(w \cap (0 .. 3))
<1> DEFINE v == w \cap (0 .. 3)
           i == CHOOSE i \in 0 .. 15 : BitsOf(i) = v
<1>1. (w \cap (0 .. 7)) \cap (0 .. 3) = v
  <2>1. 0 .. 3 \subseteq 0 .. 7
    OBVIOUS
  <2> QED BY <2>1
<1>2. ProbeValue(w \cap (0 .. 7)) = Row(i)
  BY <1>1 DEF ProbeValue, Row
<1>3. i \in 0 .. 15 /\ BitsOf(i) = v
  <2>1. \E j \in 0 .. 15 : BitsOf(j) = v
    BY LowBitsOf
  <2> QED BY <2>1
<1> HIDE DEF i
<1> QED BY <1>2, <1>3, RowIsTurned

LEMMA TableTells ==
  ASSUME NEW w
  PROVE  ByteStep(w) = Xor(ByteStep(w \ (0 .. 3)), ProbeValue(w \cap (0 .. 7)))
<1>1. w = Xor(w \ (0 .. 3), w \cap (0 .. 3))
  BY DEF Xor
<1>2. ByteStep(w) = Xor(ByteStep(w \ (0 .. 3)), ByteStep(w \cap (0 .. 3)))
  <2>1. ByteStep(Xor(w \ (0 .. 3), w \cap (0 .. 3))) =
          Xor(ByteStep(w \ (0 .. 3)), ByteStep(w \cap (0 .. 3)))
    BY ByteStepLinear
  <2> QED BY <1>1, <2>1
<1> QED BY <1>2, ProbeIsTurned

(* The sum over a block, in however many pieces, is the CRC-32 of it: what *)
(* the loop has after a bit is what the division has left, from there on;  *)
(* and what the older table has for an index is the sum over that.         *)
THEOREM CrcIsRemainderAlways == CrcSpec => []CrcIsRemainder
<1>1. CrcInv => CrcIsRemainder
  BY SumIsRemainder, TableTells DEF CrcIsRemainder
<1> QED BY <1>1, CrcInitInv, CrcNextInv, PTL DEF CrcSpec

=============================================================================
