----------------------------- MODULE MCUtilities -----------------------------
(* Codecs: runs of at most three, so that longer ones are split; ints of   *)
(* three bits, so that sums wrap; groups of two bits for integers of five, *)
(* so that the third group loses one; bytes of three bits, so that reads   *)
(* of up to four cross a boundary.                                         *)
(* Stores: at most five values in arrays that first have one place or two, *)
(* so that they grow up to three times and a push may need two doublings;  *)
(* histograms of two and three bins that hold one bit, with offsets that   *)
(* stay inside, reach behind the bins and wrap around.                     *)
(* Lexer: texts of up to seven characters, room for two tokens of two.     *)
(* Checksum: its real width and polynomial, blocks of up to three bytes,   *)
(* two neighbours of which may be changed.                                 *)
(* Tables: their real sizes, and ids on both sides of every limit.         *)
EXTENDS Utilities, TLC

CONSTANTS u, v

MCData == BoundedSeq({0, 3}, 5)
MCRleWire == BoundedSeq(0 .. 3, 4)
Tokens ==
  [tag : {"set"}, arg : {-4, 1, 3}] \cup [tag : {"change"}, arg : {-1, 2}]
  \cup [tag : {"repeat"}, arg : {0, 1, 2}] \cup [tag : {"reset", "unknown"}, arg : {0}]
MCDeltaWire == BoundedSeq(Tokens, 3)
MCVarintWire == BoundedSeq(0 .. 7, 4)
MCBitData == BoundedSeq(0 .. 7, 3)
MCText == BoundedSeq({"x", "y", " "}, 7)
MCSent == {{}, {0, 4, 5}, 4 .. 7, 0 .. 7}
MCChange == {{0}, {7}, {3, 4}, 0 .. 7}
MCWanted == {-1, 0, 1, 768, 4499, 4500}
=============================================================================
