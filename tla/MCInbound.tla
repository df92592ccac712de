------------------------------ MODULE MCInbound ------------------------------
(* Messages of up to two frames with payloads that hold at most two points, *)
(* fields or fragments, in buffers that end on, before and after a frame;   *)
(* 2^32 is 64 here.                                                         *)
EXTENDS Inbound, TLC

MCMessageLengths == {27, 28, 28 + 24 + 29, 28 + 24 + 30, 28 + 2 * (24 + 30)}
MCPayloads == {8, 22, 30, 31}
MCOffsets == {0, 1, 2, 63}
=============================================================================
