-------------------------------- MODULE Codecs --------------------------------
(***************************************************************************)
(* The three codecs (src/codec), which share nothing: the run-length       *)
(* codec, the delta codec and the bit reader.                              *)
(***************************************************************************)
EXTENDS Integers, Sequences, SequencesExt, Endian

(***************************************************************************)
(* The run-length codec (src/codec/rle_codec.c): pairs of a run and a      *)
(* value behind a magic number.  The encoder is a function; the decoder is *)
(* a loop over pairs that fills a buffer it doubles, and that ends without *)
(* an error when half a pair is left.                                      *)
(***************************************************************************)

CONSTANTS
  MaxRun,          \* the longest run, and the largest byte (255 in the code)
  FirstCap,        \* the first capacity of the decoder's buffer (64)
  RleData,         \* sequences of bytes that are encoded
  RleWire,         \* sequences of bytes that are decoded unseen
  RleMayFail       \* whether malloc and realloc may return NULL

ASSUME RleAssumption ==
  /\ MaxRun \in Nat \ {0}
  /\ FirstCap \in Nat \ {0}
  /\ RleData \subseteq Seq(0 .. MaxRun)
  /\ RleWire \subseteq Seq(0 .. MaxRun)
  /\ RleMayFail \in BOOLEAN

VARIABLES
  rleData,     \* {what was encoded}, or {} if nobody knows
  rleWire,     \* data + 4: what is decoded
  rlePos,      \* pos, counted from the magic number
  rleOut,      \* buf[0 .. used - 1]
  rleCap,      \* cap
  rleStatus    \* "idle", "decoding", or what the decoder returned

rleVars == <<rleData, rleWire, rlePos, rleOut, rleCap, rleStatus>>

RleInit ==
  /\ rleData = {}
  /\ rleWire = <<>>
  /\ rlePos = 0
  /\ rleOut = <<>>
  /\ rleCap = 0
  /\ rleStatus = "idle"

(* Mutant: a run may be one longer than a byte can say. *)
RunAtLong(data, i) ==
  Max({n \in 1 .. MaxRun + 1 : i + n - 1 <= Len(data)
                                 /\ \A k \in 0 .. n - 1 : data[i + k] = data[i]})

(* The run that starts at place i. *)
RunAt(data, i) ==
  Max({n \in 1 .. MaxRun : i + n - 1 <= Len(data)
                             /\ \A k \in 0 .. n - 1 : data[i + k] = data[i]})

(* The loop of the encoder, from place start on. *)
EncodedFrom(data, start) ==
  LET from[i \in 1 .. Len(data) + 1] ==
        IF i > Len(data) THEN <<>>
        ELSE LET run == RunAt(data, i)
             IN <<run % (MaxRun + 1), data[i]>> \o from[i + run]
  IN from[start]

(* ipmb_rle_encode *)
RleEncoded(data) == EncodedFrom(data, 1)

(* ipmb_rle_decode is given what was encoded, or as much of it as arrived, *)
(* or anything else.                                                       *)
RleStart ==
  /\ rleStatus = "idle"
  /\ \/ \E data \in RleData :
          /\ rleData' = {data}
          /\ \E n \in 0 .. Len(RleEncoded(data)) :
               rleWire' = SubSeq(RleEncoded(data), 1, n)
     \/ rleData' = {} /\ rleWire' \in RleWire
  /\ \/ rleStatus' = "decoding"
     \/ rleStatus' = "IPMB_ERR_BAD_MAGIC"
     \/ RleMayFail /\ rleStatus' = "IPMB_ERR_ALLOC"
  /\ rlePos' = 0
  /\ rleOut' = <<>>
  /\ rleCap' = FirstCap

RleGrown(need) ==
  LET grow[cap \in Nat] == IF cap < need THEN grow[2 * cap] ELSE cap
  IN grow[rleCap]

RlePair ==
  /\ rleStatus = "decoding"
  /\ rlePos + 1 < Len(rleWire)
  /\ LET run == rleWire[rlePos + 1]
         value == rleWire[rlePos + 2]
         need == Len(rleOut) + run
     IN \/ /\ rleOut' = rleOut \o [k \in 1 .. run |-> value]
           /\ rleCap' = RleGrown(need)
           /\ rlePos' = rlePos + 2
           /\ UNCHANGED rleStatus
        \/ /\ RleMayFail
           /\ need > rleCap
           /\ rleStatus' = "IPMB_ERR_ALLOC"
           /\ UNCHANGED <<rleOut, rleCap, rlePos>>
  /\ UNCHANGED <<rleData, rleWire>>

RleDone ==
  /\ rleStatus = "decoding"
  /\ rlePos + 1 >= Len(rleWire)
  /\ rleStatus' = "IPMB_OK"
  /\ UNCHANGED <<rleData, rleWire, rlePos, rleOut, rleCap>>

RleNext == RleStart \/ RlePair \/ RleDone

RleSpec == RleInit /\ [][RleNext]_rleVars

-----------------------------------------------------------------------------

(* The decoder gives back what was encoded, and of an encoding that was    *)
(* cut anywhere a beginning of it, all whole pairs, without an error; its  *)
(* output never leaves its buffer, nor the encoder's its own, which holds  *)
(* two bytes for every one.                                                *)
RleRoundTrip ==
  /\ rleStatus = "decoding" => Len(rleOut) <= rleCap
  /\ rleStatus = "IPMB_OK" =>
       \A data \in rleData :
         LET whole == RleEncoded(data)
         IN /\ IsPrefix(rleOut, data)
            /\ Len(whole) <= 2 * Len(data)
            /\ Len(rleWire) = Len(whole) => rleOut = data
            /\ RleEncoded(rleOut) = SubSeq(rleWire, 1, Len(rleWire) - (Len(rleWire) % 2))

-----------------------------------------------------------------------------

(***************************************************************************)
(* The delta codec (src/codec/delta_codec.c): tokens that set, change,     *)
(* repeat or reset a running value, until a count of values is reached.    *)
(*                                                                         *)
(* A token is its tag with its operand; the bytes may end within the last  *)
(* operand.  A sum that does not fit an int is undefined: it wraps around, *)
(* as it does in a plain build, or the decoder ends as "undefined".        *)
(***************************************************************************)

CONSTANTS
  Half,            \* half the values of an int (2^31 in the code)
  DeltaWire,       \* sequences of tokens that are decoded
  DeltaCount,      \* counts that headers claim
  MaxCount,        \* 100000 in the code
  DeltaMayFail     \* whether calloc may return NULL

Int32 == -Half .. Half - 1
Tag == {"set", "change", "repeat", "reset", "unknown"}
DeltaToken == {t \in [tag : Tag, arg : Int32] : t.tag = "repeat" => t.arg \in Nat}

ASSUME DeltaAssumption ==
  /\ Half \in Nat \ {0}
  /\ DeltaWire \subseteq Seq(DeltaToken)
  /\ DeltaCount \subseteq Nat
  /\ MaxCount \in Nat
  /\ DeltaMayFail \in BOOLEAN

VARIABLES
  wire,          \* data + 12
  cut,           \* whether the operand of its last token is incomplete
  wanted,        \* count
  pos,           \* the token the loop is at
  acc,           \* acc
  vals,          \* vals[0 .. n - 1]
  deltaStatus    \* "idle", "decoding", "undefined", or what is returned

deltaVars == <<wire, cut, wanted, pos, acc, vals, deltaStatus>>

DeltaInit ==
  /\ wire = <<>>
  /\ cut = FALSE
  /\ wanted = 0
  /\ pos = 1
  /\ acc = 0
  /\ vals = <<>>
  /\ deltaStatus = "idle"

(* ipmb_delta_encode uses one of the tokens only. *)
DeltaEncoded(values) ==
  [i \in DOMAIN values |-> [tag |-> "set", arg |-> values[i]]]

DeltaStart ==
  /\ deltaStatus = "idle"
  /\ wire' \in DeltaWire
  /\ wanted' \in DeltaCount
  /\ cut' \in BOOLEAN
  /\ \/ deltaStatus' = "IPMB_ERR_BAD_MAGIC"
     \/ wanted' > MaxCount /\ deltaStatus' = "IPMB_ERR_LIMIT"
     \/ wanted' <= MaxCount /\ DeltaMayFail /\ deltaStatus' = "IPMB_ERR_ALLOC"
     \/ wanted' <= MaxCount /\ deltaStatus' = "decoding"
  /\ pos' = 1
  /\ acc' = 0
  /\ vals' = <<>>

More == Len(vals) < wanted /\ pos <= Len(wire)

Operand == {"set", "change", "repeat"}

(* The decoder breaks out of its loop at this token. *)
Breaks ==
  \/ wire[pos].tag = "unknown"
  \/ wire[pos].tag \in Operand /\ cut /\ pos = Len(wire)

Wrapped(n) == ((n + Half) % (2 * Half)) - Half

(* Mutant: a run is not cut off at the count. *)
RepeatedAll(n) == [k \in 1 .. n |-> acc]

Repeated(n) == [k \in 1 .. Min({n, wanted - Len(vals)}) |-> acc]

(* One token. *)
Token ==
  /\ deltaStatus = "decoding" /\ More /\ ~Breaks
  /\ LET t == wire[pos]
     IN \/ /\ t.tag = "set"
           /\ acc' = t.arg
           /\ vals' = Append(vals, acc')
           /\ UNCHANGED deltaStatus
        \/ /\ t.tag = "change"
           /\ acc' = Wrapped(acc + t.arg)
           /\ vals' = Append(vals, acc')
           /\ deltaStatus' \in {"decoding"} \cup
                               (IF acc' # acc + t.arg THEN {"undefined"} ELSE {})
        \/ /\ t.tag = "repeat"
           /\ vals' = vals \o Repeated(t.arg)
           /\ UNCHANGED <<acc, deltaStatus>>
        \/ /\ t.tag = "reset"
           /\ acc' = 0
           /\ UNCHANGED <<vals, deltaStatus>>
  /\ pos' = pos + 1
  /\ UNCHANGED <<wire, cut, wanted>>

DeltaDone ==
  /\ deltaStatus = "decoding"
  /\ ~(More /\ ~Breaks)
  /\ deltaStatus' = "IPMB_OK"
  /\ UNCHANGED <<wire, cut, wanted, pos, acc, vals>>

DeltaNext == DeltaStart \/ Token \/ DeltaDone

DeltaSpec == DeltaInit /\ [][DeltaNext]_deltaVars

-----------------------------------------------------------------------------

(* What a sequence of tokens means, without a loop: the value after token  *)
(* p is the last one set before it plus what was changed since, and each   *)
(* token contributes a number of copies.                                   *)
Arg == [i \in DOMAIN wire |-> wire[i].arg]

ValueAfter(p) ==
  LET starts == {0} \cup {i \in 1 .. p : wire[i].tag \in {"set", "reset"}}
      start == Max(starts)
      base == IF start > 0 /\ wire[start].tag = "set" THEN wire[start].arg ELSE 0
  IN base + SumFunctionOnSet(Arg, {i \in start + 1 .. p : wire[i].tag = "change"})

Copies ==
  [i \in DOMAIN wire |->
     CASE wire[i].tag \in {"set", "change"} -> 1
       [] wire[i].tag = "repeat" -> wire[i].arg
       [] OTHER -> 0]

CopiesUpTo(p) == SumFunctionOnSet(Copies, 1 .. p)

(* The tokens that can be read: those before the first that is unknown or  *)
(* incomplete.                                                             *)
CanBeRead(i) ==
  /\ wire[i].tag # "unknown"
  /\ ~(cut /\ i = Len(wire) /\ wire[i].tag \in Operand)

Readable == Max({p \in 0 .. Len(wire) : \A i \in 1 .. p : CanBeRead(i)})

(* A decoder that returns IPMB_OK returns what the readable tokens mean,   *)
(* up to the count and modulo the width of an int, however many of them    *)
(* there are and wherever a run or the bytes end; fewer values than the    *)
(* header claims are no error.  Values are never written past the count,   *)
(* and an encoder's tokens decode to its values, or the first of them.      *)
DeltaMeaning ==
  /\ Len(vals) <= wanted
  /\ deltaStatus = "IPMB_OK" =>
       /\ Len(vals) = Min({wanted, CopiesUpTo(Readable)})
       /\ \A k \in DOMAIN vals :
            \E p \in 1 .. Readable :
              /\ CopiesUpTo(p - 1) < k /\ k <= CopiesUpTo(p)
              /\ vals[k] = Wrapped(ValueAfter(p))
       /\ (wire = DeltaEncoded(Arg) => IsPrefix(vals, Arg))

-----------------------------------------------------------------------------

(***************************************************************************)
(* The bit reader (src/codec/bitstream.c): groups of bits of any size are  *)
(* read from bytes, the lowest bit of the first byte first.                *)
(***************************************************************************)

CONSTANTS
  ByteBits,    \* bits of a byte (8)
  MaxBits,     \* bits of one read at most (24)
  BitData      \* sequences of bytes that are read

ASSUME BitAssumption ==
  /\ ByteBits \in Nat \ {0}
  /\ MaxBits \in Nat
  /\ BitData \subseteq Seq(0 .. PowerOf(2, ByteBits) - 1)

VARIABLES
  bitData,      \* br->data and br->len
  bit_pos,      \* br->bit_pos
  bitOut,       \* *out of the last read that succeeded
  bitStatus,    \* "idle", or what the last read returned
  seen          \* auxiliary: what was read so far, as one number

bitVars == <<bitData, bit_pos, bitOut, bitStatus, seen>>

BitInit ==
  /\ bitData = <<>>
  /\ bit_pos = 0
  /\ bitOut = 0
  /\ bitStatus = "idle"
  /\ seen = 0

(* ipmb_bitreader_init *)
BitStart ==
  /\ bitStatus = "idle"
  /\ bitData' \in BitData
  /\ bitStatus' = "IPMB_OK"
  /\ UNCHANGED <<bit_pos, bitOut, seen>>

(* Mutant: the highest bit of a byte comes first. *)
BitHighFirst(b) ==
  (bitData[b \div ByteBits + 1] \div PowerOf(2, ByteBits - 1 - (b % ByteBits))) % 2

Bit(b) == (bitData[b \div ByteBits + 1] \div PowerOf(2, b % ByteBits)) % 2

(* ipmb_bitreader_read: a read that is refused leaves the position alone. *)
BitRead(bits) ==
  /\ bitStatus # "idle"
  /\ \/ /\ bits > MaxBits
        /\ bitStatus' = "IPMB_ERR_LIMIT"
        /\ UNCHANGED <<bit_pos, bitOut, seen>>
     \/ /\ bits <= MaxBits
        /\ bit_pos + bits > ByteBits * Len(bitData)
        /\ bitStatus' = "IPMB_ERR_SHORT_READ"
        /\ UNCHANGED <<bit_pos, bitOut, seen>>
     \/ /\ bits <= MaxBits
        /\ bit_pos + bits <= ByteBits * Len(bitData)
        /\ bitStatus' = "IPMB_OK"
        /\ bitOut' = SumFunction([i \in 0 .. bits - 1 |-> Bit(bit_pos + i) * PowerOf(2, i)])
        /\ bit_pos' = bit_pos + bits
        /\ seen' = seen + bitOut' * PowerOf(2, bit_pos)
  /\ UNCHANGED bitData

BitNext == BitStart \/ \E bits \in 0 .. MaxBits + 1 : BitRead(bits)

BitSpec == BitInit /\ [][BitNext]_bitVars

(* The bytes as one number, lowest first. *)
Number(data) ==
  SumFunction([k \in DOMAIN data |-> data[k] * PowerOf(2, ByteBits * (k - 1))])

(* However the bits are divided into reads, on byte boundaries or across   *)
(* them and with refused reads in between, the reads put together are the  *)
(* bytes taken as one number, lowest first, up to the position.            *)
BitsInOrder ==
  bitStatus # "idle" =>
    /\ seen = Number(bitData) % PowerOf(2, bit_pos)
    /\ bit_pos <= ByteBits * Len(bitData)

=============================================================================
