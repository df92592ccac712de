---------------------------- MODULE MessageReader ----------------------------
(***************************************************************************)
(* The message parser (src/protocol/frame_reader.c): a header with a count *)
(* of frames, an array of that many frames, and a payload buffer of each.  *)
(*                                                                         *)
(* The bytes are revealed as they are read: a header and every frame carry *)
(* whether their checksum is right and what they claim.  Block 0 of the    *)
(* heap is the array of frames, block i the payload of frame i.            *)
(***************************************************************************)
EXTENDS Reader, Sequences, FiniteSets

CONSTANTS
  MessageLength,   \* lengths of the buffers that are parsed
  FrameCount,      \* counts that headers claim
  FrameType,       \* types of frames
  PayloadLength,   \* payload lengths that frames claim
  MaxFrames,       \* IPMB_MAX_FRAMES
  MaxPayload       \* IPMB_MAX_PAYLOAD

Frame == [frame_type : FrameType \cup {NULL}, payload_len : PayloadLength \cup {0},
          payload : BOOLEAN]

ASSUME MessageAssumption ==
  /\ MessageLength \subseteq Nat
  /\ FrameCount \subseteq Nat
  /\ PayloadLength \subseteq Nat
  /\ MaxFrames \in Nat
  /\ MaxPayload \in Nat
  /\ \A n \in FrameCount : NULL \notin [1 .. n -> Frame]

MessageHeaderLen == ReaderStart + 24
FrameHeaderLen == 20
CrcLen == 4

VARIABLES
  msg,         \* *out: frame_count, and frames, an array or NULL
  msgLen,      \* len
  msgPos,      \* r.pos
  msgNext,     \* the frame the loop is at
  msgStatus,   \* "idle", "parsing", or what the parser returned
  msgHeap      \* the blocks that are allocated

msgVars == <<msg, msgLen, msgPos, msgNext, msgStatus, msgHeap>>

Cleared == [frame_type |-> NULL, payload_len |-> 0, payload |-> FALSE]

EmptyMessage == [frame_count |-> 0, frames |-> NULL]

MessageInit ==
  /\ msg = EmptyMessage
  /\ msgLen = 0
  /\ msgPos = 0
  /\ msgNext = 1
  /\ msgStatus = "idle"
  /\ msgHeap = {}

-----------------------------------------------------------------------------

(* What a message points to, and ipmb_message_free releases. *)
Payloads(m) == {i \in 1 .. m.frame_count : m.frames[i].payload}

MessageBlocks(m) == IF m.frames = NULL THEN {} ELSE {0} \cup Payloads(m)

MessageFreed ==
  /\ msg' = EmptyMessage
  /\ msgHeap' = msgHeap \ MessageBlocks(msg)

(* The checks of the header, in their order. *)
HeaderStatus(len, magic, n, crc) ==
  CASE len < MessageHeaderLen -> "IPMB_ERR_SHORT_READ"
    [] ~magic -> "IPMB_ERR_BAD_MAGIC"
    [] n > MaxFrames -> "IPMB_ERR_LIMIT"
    [] ~crc -> "IPMB_ERR_BAD_CRC"
    [] OTHER -> "parsing"

(* A header that is refused after its count was read leaves the count in   *)
(* *out, without an array.                                                 *)
HeaderRefused(n, status) ==
  /\ msgStatus' = status
  /\ msg' = [frame_count |-> IF status \in {"IPMB_ERR_SHORT_READ", "IPMB_ERR_BAD_MAGIC"}
                               THEN 0 ELSE n,
             frames |-> NULL]
  /\ UNCHANGED msgHeap

HeaderTaken(n) ==
  /\ msgStatus' = "parsing"
  /\ msg' = [frame_count |-> n, frames |-> [i \in 1 .. n |-> Cleared]]
  /\ msgHeap' = {0}

ReadHeader ==
  /\ msgStatus = "idle"
  /\ \E len \in MessageLength, n \in FrameCount, magic, crc \in BOOLEAN :
       /\ msgLen' = len
       /\ LET status == HeaderStatus(len, magic, n, crc)
          IN \/ status # "parsing" /\ HeaderRefused(n, status)
             \/ status = "parsing" /\ HeaderTaken(n)
             \/ status = "parsing" /\ AllocMayFail /\ HeaderRefused(n, "IPMB_ERR_ALLOC")
  /\ msgPos' = MessageHeaderLen
  /\ msgNext' = 1

(* Mutant: there need not be a checksum behind the payload. *)
FrameStatusNoCrc(payload_len, crc) ==
  CASE ~Fits(FrameHeaderLen + payload_len, msgPos, msgLen) -> "IPMB_ERR_SHORT_READ"
    [] payload_len > MaxPayload -> "IPMB_ERR_LIMIT"
    [] ~crc -> "IPMB_ERR_BAD_CRC"
    [] OTHER -> "parsing"

(* The checks of a frame, in their order. *)
FrameStatus(payload_len, crc) ==
  CASE ~Fits(FrameHeaderLen, msgPos, msgLen) -> "IPMB_ERR_SHORT_READ"
    [] payload_len > MaxPayload -> "IPMB_ERR_LIMIT"
    [] ~Fits(FrameHeaderLen + payload_len + CrcLen, msgPos, msgLen) -> "IPMB_ERR_SHORT_READ"
    [] ~crc -> "IPMB_ERR_BAD_CRC"
    [] OTHER -> "parsing"

FrameRefused(status) ==
  /\ msgStatus' = status
  /\ MessageFreed
  /\ UNCHANGED <<msgPos, msgNext>>

FrameTaken(type, payload_len) ==
  /\ msg' = [msg EXCEPT !.frames[msgNext] =
               [frame_type |-> type, payload_len |-> payload_len, payload |-> TRUE]]
  /\ msgHeap' = msgHeap \cup {msgNext}
  /\ msgPos' = msgPos + FrameHeaderLen + payload_len + CrcLen
  /\ msgNext' = msgNext + 1
  /\ UNCHANGED msgStatus

(* One turn of the loop. *)
ReadFrame ==
  /\ msgStatus = "parsing"
  /\ msgNext <= msg.frame_count
  /\ \E type \in FrameType, payload_len \in PayloadLength, crc \in BOOLEAN :
       LET status == FrameStatus(payload_len, crc)
       IN \/ status # "parsing" /\ FrameRefused(status)
          \/ status = "parsing" /\ FrameTaken(type, payload_len)
          \/ status = "parsing" /\ AllocMayFail /\ FrameRefused("IPMB_ERR_ALLOC")
  /\ UNCHANGED msgLen

MessageParsed ==
  /\ msgStatus = "parsing"
  /\ msgNext > msg.frame_count
  /\ msgStatus' = "IPMB_OK"
  /\ UNCHANGED <<msg, msgLen, msgPos, msgNext, msgHeap>>

ParseMessage == ReadHeader \/ ReadFrame \/ MessageParsed

(* ipmb_message_first_frame looks at as many frames as there are said to   *)
(* be, whether there is an array or not.                                   *)
HasNoArray == msg.frame_count > 0 /\ msg.frames = NULL

=============================================================================
