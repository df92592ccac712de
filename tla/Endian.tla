-------------------------------- MODULE Endian --------------------------------
(***************************************************************************)
(* Little-endian loads and stores (src/util/endian.c), bit by bit: a word  *)
(* is the set of the places whose bit is 1, place 0 the lowest, and bytes  *)
(* are a sequence of words of eight bits.  Where a word is a number, to    *)
(* shift it is to multiply with a power.                                   *)
(***************************************************************************)
EXTENDS Naturals, Sequences

Octet == SUBSET (0 .. 7)
Word16 == SUBSET (0 .. 15)
Word32 == SUBSET (0 .. 31)
Word64 == SUBSET (0 .. 63)

PowerOf(b, n) ==
  LET power[k \in 0 .. n] == IF k = 0 THEN 1 ELSE b * power[k - 1]
  IN power[n]

(* w << n *)
Up(w, n) == {b + n : b \in w}

(* (w >> n) & 0xff *)
OctetAt(w, n) == {b \in 0 .. 7 : b + n \in w}

LoadLe16(p) == p[1] \cup Up(p[2], 8)

LoadLe32(p) == p[1] \cup Up(p[2], 8) \cup Up(p[3], 16) \cup Up(p[4], 24)

LoadLe64(p) ==
  LET lo == LoadLe32(p)
      hi == LoadLe32(<<p[5], p[6], p[7], p[8]>>)
  IN lo \cup Up(hi, 32)

StoreLe16(w) == <<OctetAt(w, 0), OctetAt(w, 8)>>

StoreLe32(w) == <<OctetAt(w, 0), OctetAt(w, 8), OctetAt(w, 16), OctetAt(w, 24)>>

=============================================================================
