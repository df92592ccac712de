----------------------------- MODULE InboundProofs -----------------------------
(***************************************************************************)
(* Proofs about what makes something of bytes from outside: the five       *)
(* parsers and their callers, and the run-length and delta decoders.       *)
(*                                                                         *)
(* A parser's invariant is that of its loop: what is behind the loop's     *)
(* place is whole and owns its blocks, the rest owns none.                 *)
(*                                                                         *)
(* The codecs: run-length decoding gives back what was encoded, whatever   *)
(* the data and however the output's capacity grows; delta decoding gives  *)
(* what the tokens mean, with sums for what a loop adds up.                *)
(***************************************************************************)
EXTENDS Inbound, Codecs, Recursion, SequenceTheorems

(***************************************************************************)
(* The message reader.                                                     *)
(***************************************************************************)

(* The frames read so far fill the buffer up to the position. *)
FramesFill ==
  \E e \in [Nat -> Nat] :
    /\ e[0] = MessageHeaderLen
    /\ \A i \in 1 .. msgNext - 1 :
         e[i] = e[i - 1] + FrameHeaderLen + msg.frames[i].payload_len + CrcLen
    /\ e[msgNext - 1] = msgPos

MsgArray ==
  /\ msg = [frame_count |-> msg.frame_count, frames |-> msg.frames]
  /\ msg.frame_count \in FrameCount
  /\ msg.frame_count <= MaxFrames
  /\ msg.frames \in [1 .. msg.frame_count -> Frame]
  /\ msgNext \in 1 .. msg.frame_count + 1
  /\ \A i \in 1 .. msg.frame_count : msg.frames[i].payload <=> i < msgNext
  /\ msgHeap = 0 .. msgNext - 1

MsgPlace ==
  /\ msgPos \in Nat
  /\ msgLen \in Nat
  /\ Within(msgPos, msgLen)
  /\ FramesFill

MsgInv ==
  /\ msgStatus \in {"idle", "parsing", "IPMB_OK"} \cup Failure
  /\ msgStatus \in {"parsing", "IPMB_OK"} => MsgArray /\ MsgPlace
  /\ msgStatus = "IPMB_OK" => msgNext = msg.frame_count + 1
  /\ msgStatus \notin {"parsing", "IPMB_OK"} => msgHeap = {}
  /\ HasNoArray =>
       /\ msgStatus \in {"IPMB_ERR_LIMIT", "IPMB_ERR_BAD_CRC", "IPMB_ERR_ALLOC"}
       /\ msgNext = 1

MsgStep ==
  [MessageContract!Next]_
    <<PhaseOf(msgStatus), ClaimOf(msgStatus, msg.frame_count), msgHeap>>

LEMMA MsgBlocks ==
  ASSUME MsgArray
  PROVE  MessageBlocks(msg) = msgHeap
<1> USE MessageAssumption DEF MsgArray
<1>1. msg.frames # NULL
  OBVIOUS
<1>2. Payloads(msg) = 1 .. msgNext - 1
  BY DEF Payloads
<1> QED BY <1>1, <1>2 DEF MessageBlocks

LEMMA HeaderRefusedInv ==
  ASSUME MsgInv, msgStatus = "idle", NEW n \in FrameCount,
         NEW status \in Failure, HeaderRefused(n, status), msgNext' = 1,
         status \in {"IPMB_ERR_SHORT_READ", "IPMB_ERR_BAD_MAGIC", "IPMB_ERR_LIMIT",
                     "IPMB_ERR_BAD_CRC", "IPMB_ERR_ALLOC"}
  PROVE  MsgInv' /\ MsgStep
BY DEF MsgInv, HeaderRefused, HasNoArray, Failure, MsgStep, PhaseOf, ClaimOf,
   MessageContract!Next, MessageContract!Start, MessageContract!Nothing, MessageContract!Fail

LEMMA HeaderTakenInv ==
  ASSUME MsgInv, msgStatus = "idle", NEW n \in FrameCount, NEW len \in MessageLength,
         n <= MaxFrames, HeaderTaken(n), msgNext' = 1, msgPos' = MessageHeaderLen,
         msgLen' = len, MessageHeaderLen <= len
  PROVE  MsgInv' /\ MsgStep
<1> USE MessageAssumption DEF HeaderTaken
<1> DEFINE array == [i \in 1 .. n |-> Cleared]
<1>1. /\ array \in [1 .. n -> Frame]
      /\ \A i \in 1 .. n : ~array[i].payload
  <2>1. Cleared \in Frame /\ ~Cleared.payload
    BY DEF Cleared, Frame
  <2> QED BY <2>1
<1>2. msg'.frame_count = n /\ msg'.frames = array
  OBVIOUS
<1>3. msg' = [frame_count |-> msg'.frame_count, frames |-> msg'.frames]
  <2> HIDE DEF array
  <2> QED BY <1>2
<1>4. MsgArray'
  <2>1. msgHeap' = 0 .. msgNext' - 1
    OBVIOUS
  <2> HIDE DEF array, HeaderTaken
  <2> QED BY <1>1, <1>2, <1>3, <2>1 DEF MsgArray
<1>5. MessageHeaderLen \in Nat
  BY DEF MessageHeaderLen, ReaderStart
<1>6. FramesFill'
  <2> DEFINE e == [i \in Nat |-> MessageHeaderLen]
  <2>1. e \in [Nat -> Nat] /\ e[0] = MessageHeaderLen
    BY <1>5
  <2>2. msgNext' - 1 = 0 /\ ~\E i \in 1 .. msgNext' - 1 : TRUE
    OBVIOUS
  <2> HIDE DEF e
  <2> QED BY <2>1, <2>2 DEF FramesFill
<1>7. MsgPlace'
  BY <1>5, <1>6 DEF MsgPlace, Within
<1>8. ~HasNoArray'
  BY <1>1, <1>2 DEF HasNoArray
<1>9. MsgInv'
  BY <1>4, <1>7, <1>8 DEF MsgInv
<1>10. MsgStep
  <2>1. n \in 0 .. MaxFrames
    OBVIOUS
  <2> HIDE DEF array
  <2> QED BY <1>2, <2>1 DEF MsgStep, PhaseOf, ClaimOf, MessageContract!Next,
             MessageContract!Start, MsgInv
<1> QED BY <1>9, <1>10

LEMMA ReadHeaderInv ==
  ASSUME MsgInv, ReadHeader
  PROVE  MsgInv' /\ MsgStep
<1>1. PICK len \in MessageLength, n \in FrameCount, magic \in BOOLEAN, crc \in BOOLEAN :
        /\ msgLen' = len
        /\ \/ /\ HeaderStatus(len, magic, n, crc) # "parsing"
              /\ HeaderRefused(n, HeaderStatus(len, magic, n, crc))
           \/ HeaderStatus(len, magic, n, crc) = "parsing" /\ HeaderTaken(n)
           \/ HeaderStatus(len, magic, n, crc) = "parsing" /\ HeaderRefused(n, "IPMB_ERR_ALLOC")
  BY DEF ReadHeader
<1> DEFINE status == HeaderStatus(len, magic, n, crc)
<1>2. msgStatus = "idle" /\ msgPos' = MessageHeaderLen /\ msgNext' = 1
  BY DEF ReadHeader
<1>3. /\ status \in {"IPMB_ERR_SHORT_READ", "IPMB_ERR_BAD_MAGIC", "IPMB_ERR_LIMIT",
                     "IPMB_ERR_BAD_CRC", "parsing"}
      /\ status = "parsing" => ~(len < MessageHeaderLen) /\ ~(n > MaxFrames)
  BY DEF HeaderStatus
<1> HIDE DEF status
<1>4. CASE status # "parsing" /\ HeaderRefused(n, status)
  <2>1. status \in Failure
    BY <1>3, <1>4 DEF Failure
  <2> QED BY <1>2, <1>3, <1>4, <2>1, HeaderRefusedInv
<1>5. CASE status = "parsing" /\ HeaderTaken(n)
  <2>1. MessageHeaderLen <= len /\ n <= MaxFrames
    BY <1>3, <1>5, MessageAssumption DEF MessageHeaderLen, ReaderStart
  <2> QED BY <1>1, <1>2, <1>5, <2>1, HeaderTakenInv
<1>6. CASE HeaderRefused(n, "IPMB_ERR_ALLOC")
  <2>1. "IPMB_ERR_ALLOC" \in Failure
    BY DEF Failure
  <2> QED BY <1>2, <1>6, <2>1, HeaderRefusedInv
<1> QED BY <1>1, <1>4, <1>5, <1>6 DEF status

LEMMA FrameRefusedInv ==
  ASSUME MsgInv, msgStatus = "parsing", NEW status \in Failure, FrameRefused(status)
  PROVE  MsgInv' /\ MsgStep
<1>1. msgHeap' = {}
  BY MsgBlocks DEF MsgInv, FrameRefused, MessageFreed
<1>2. MsgInv'
  BY <1>1 DEF MsgInv, FrameRefused, MessageFreed, EmptyMessage, HasNoArray, Failure
<1>3. MsgStep
  BY <1>1 DEF MsgStep, PhaseOf, ClaimOf, MessageContract!Next, MessageContract!Item,
     MessageContract!Nothing, MessageContract!Fail, FrameRefused, Failure
<1> QED BY <1>2, <1>3

LEMMA FrameTakenInv ==
  ASSUME MsgInv, msgStatus = "parsing", msgNext <= msg.frame_count,
         NEW type \in FrameType, NEW payload_len \in PayloadLength,
         Fits(FrameHeaderLen + payload_len + CrcLen, msgPos, msgLen),
         FrameTaken(type, payload_len), msgLen' = msgLen
  PROVE  MsgInv' /\ MsgStep
<1> DEFINE new == [frame_type |-> type, payload_len |-> payload_len, payload |-> TRUE]
           n == msg.frame_count
           frames == [msg.frames EXCEPT ![msgNext] = new]
<1>0. MsgArray /\ MsgPlace
  BY DEF MsgInv
<1> USE MessageAssumption DEF MsgArray
<1>1. new \in Frame
  BY DEF Frame
<1>2. n \in Nat /\ msgNext \in 1 .. n
  BY <1>0
<1>3. msg' = [frame_count |-> n, frames |-> frames]
  BY <1>0 DEF FrameTaken
<1>4. /\ msg'.frame_count = n
      /\ msg'.frames = frames
      /\ msg' = [frame_count |-> msg'.frame_count, frames |-> msg'.frames]
  <2> HIDE DEF frames, n
  <2> QED BY <1>3
<1>5. frames \in [1 .. n -> Frame]
  <2> HIDE DEF new
  <2> QED BY <1>0, <1>1
<1>6. /\ frames[msgNext] = new
      /\ \A i \in 1 .. n : i # msgNext => frames[i] = msg.frames[i]
  BY <1>0, <1>2
<1>7. /\ msgNext' = msgNext + 1
      /\ msgHeap' = msgHeap \cup {msgNext}
      /\ msgPos' = msgPos + FrameHeaderLen + payload_len + CrcLen
      /\ msgStatus' = msgStatus
  BY DEF FrameTaken
<1>8. MsgArray'
  <2>1. \A i \in 1 .. n : frames[i].payload <=> i < msgNext + 1
    <3> SUFFICES ASSUME NEW i \in 1 .. n
                 PROVE  frames[i].payload <=> i < msgNext + 1
      OBVIOUS
    <3>1. CASE i = msgNext
      BY <1>2, <1>6, <3>1
    <3>2. CASE i # msgNext
      <4>1. frames[i].payload <=> i < msgNext
        BY <1>0, <1>6, <3>2
      <4> QED BY <1>2, <3>2, <4>1
    <3> QED BY <3>1, <3>2
  <2>2. msgHeap' = 0 .. (msgNext + 1) - 1
    BY <1>0, <1>2, <1>7
  <2>3. msgNext + 1 \in 1 .. n + 1
    BY <1>2
  <2> HIDE DEF frames, n, new
  <2>4. n \in FrameCount /\ n <= MaxFrames
    BY <1>0 DEF n
  <2> QED BY <1>4, <1>5, <1>7, <2>1, <2>2, <2>3, <2>4
<1>9. MsgPlace'
  <2>1. msgPos' \in Nat /\ Within(msgPos', msgLen')
    <3>1. msgPos \in Nat /\ msgLen \in Nat
      BY <1>0 DEF MsgPlace
    <3> QED BY <1>0, <1>7, <3>1, SMTT(60) DEF Within, Fits, Remaining, FrameHeaderLen, CrcLen
  <2>2. PICK e \in [Nat -> Nat] :
          /\ e[0] = MessageHeaderLen
          /\ \A i \in 1 .. msgNext - 1 :
               e[i] = e[i - 1] + FrameHeaderLen + msg.frames[i].payload_len + CrcLen
          /\ e[msgNext - 1] = msgPos
    BY <1>0 DEF MsgPlace, FramesFill
  <2> DEFINE g == [e EXCEPT ![msgNext] = msgPos']
  <2>3. g \in [Nat -> Nat]
    BY <2>1
  <2>4. g[0] = MessageHeaderLen /\ g[msgNext] = msgPos'
    BY <1>2, <2>2
  <2>5. ASSUME NEW i \in 1 .. msgNext
        PROVE  g[i] = g[i - 1] + FrameHeaderLen + frames[i].payload_len + CrcLen
    <3>1. CASE i = msgNext
      <4>1. g[i - 1] = msgPos
        BY <1>2, <2>2, <3>1
      <4>2. frames[i].payload_len = payload_len
        BY <1>6, <3>1
      <4> HIDE DEF g, frames
      <4> QED BY <1>7, <2>4, <3>1, <4>1, <4>2
    <3>2. CASE i # msgNext
      <4>1. i \in 1 .. msgNext - 1 /\ i \in 1 .. n
        BY <1>2, <3>2
      <4>2. g[i] = e[i] /\ g[i - 1] = e[i - 1]
        BY <1>2, <4>1, <3>2
      <4>3. frames[i] = msg.frames[i]
        BY <1>6, <3>2, <4>1
      <4> HIDE DEF g, frames
      <4> QED BY <2>2, <4>1, <4>2, <4>3
    <3> QED BY <3>1, <3>2
  <2>6. FramesFill'
    <3>1. msgNext' - 1 = msgNext
      BY <1>2, <1>7
    <3> HIDE DEF g, frames
    <3> QED BY <1>4, <2>3, <2>4, <2>5, <3>1 DEF FramesFill
  <2>7. msgLen' \in Nat
    BY <1>0 DEF MsgPlace
  <2> QED BY <2>1, <2>6, <2>7 DEF MsgPlace
<1>10. ~HasNoArray'
  BY <1>0, <1>4, <1>5 DEF HasNoArray
<1>11. MsgInv'
  BY <1>7, <1>8, <1>9, <1>10 DEF MsgInv
<1>12. MsgStep
  <2>1. msgNext \in 1 .. n /\ msgNext \notin msgHeap
    BY <1>0, <1>2
  <2>2. MessageContract!Buffers(msgNext) = {msgNext}
    BY <1>2 DEF MessageContract!Buffers
  <2> HIDE DEF frames
  <2> QED BY <1>4, <1>7, <2>1, <2>2 DEF MsgStep, PhaseOf, ClaimOf,
             MessageContract!Next, MessageContract!Item
<1> QED BY <1>11, <1>12

LEMMA ReadFrameInv ==
  ASSUME MsgInv, ReadFrame
  PROVE  MsgInv' /\ MsgStep
<1>1. PICK type \in FrameType, payload_len \in PayloadLength, crc \in BOOLEAN :
        \/ /\ FrameStatus(payload_len, crc) # "parsing"
           /\ FrameRefused(FrameStatus(payload_len, crc))
        \/ FrameStatus(payload_len, crc) = "parsing" /\ FrameTaken(type, payload_len)
        \/ FrameStatus(payload_len, crc) = "parsing" /\ FrameRefused("IPMB_ERR_ALLOC")
  BY DEF ReadFrame
<1>2. msgStatus = "parsing" /\ msgNext <= msg.frame_count /\ msgLen' = msgLen
  BY DEF ReadFrame
<1> DEFINE status == FrameStatus(payload_len, crc)
<1>3. /\ status \in Failure \cup {"parsing"}
      /\ status = "parsing" => Fits(FrameHeaderLen + payload_len + CrcLen, msgPos, msgLen)
  BY DEF FrameStatus, Failure
<1> HIDE DEF status
<1>4. CASE status # "parsing" /\ FrameRefused(status)
  BY <1>2, <1>3, <1>4, FrameRefusedInv
<1>5. CASE status = "parsing" /\ FrameTaken(type, payload_len)
  BY <1>2, <1>3, <1>5, FrameTakenInv
<1>6. CASE FrameRefused("IPMB_ERR_ALLOC")
  <2>1. "IPMB_ERR_ALLOC" \in Failure
    BY DEF Failure
  <2> QED BY <1>2, <1>6, <2>1, FrameRefusedInv
<1> QED BY <1>1, <1>4, <1>5, <1>6 DEF status

LEMMA MessageParsedInv ==
  ASSUME MsgInv, MessageParsed
  PROVE  MsgInv' /\ MsgStep
<1> USE DEF MessageParsed
<1>1. MsgArray /\ MsgPlace /\ msgNext = msg.frame_count + 1
  BY MessageAssumption DEF MsgInv, MsgArray
<1>2. MsgArray' /\ MsgPlace'
  BY <1>1 DEF MsgArray, MsgPlace, FramesFill
<1>3. ~HasNoArray'
  BY DEF MsgInv, HasNoArray
<1>4. MsgInv'
  BY <1>1, <1>2, <1>3 DEF MsgInv
<1>5. MsgStep
  <2>1. msgHeap = MessageContract!Whole(msg.frame_count)
    BY <1>1, MessageAssumption DEF MsgArray, MessageContract!Whole
  <2> QED BY <2>1 DEF MsgStep, PhaseOf, ClaimOf, MessageContract!Next,
             MessageContract!Finish
<1> QED BY <1>4, <1>5

LEMMA MessageReleasedInv ==
  ASSUME MsgInv, msgStatus = "IPMB_OK", MessageFreed, msgStatus' = "idle"
  PROVE  MsgInv' /\ MsgStep
<1>1. msgHeap' = {}
  BY MsgBlocks DEF MsgInv, MessageFreed
<1>2. MsgInv'
  BY <1>1 DEF MsgInv, MessageFreed, EmptyMessage, HasNoArray
<1>3. MsgStep
  BY <1>1 DEF MsgStep, PhaseOf, ClaimOf, MessageContract!Next,
     MessageContract!Release, MessageContract!Nothing
<1> QED BY <1>2, <1>3

LEMMA MessageSameInv ==
  ASSUME MsgInv, UNCHANGED msgVars
  PROVE  MsgInv' /\ MsgStep
<1> USE DEF msgVars
<1>1. MsgInv'
  BY DEF MsgInv, MsgArray, MsgPlace, FramesFill, HasNoArray
<1>2. MsgStep
  BY DEF MsgStep, PhaseOf, ClaimOf
<1> QED BY <1>1, <1>2

-----------------------------------------------------------------------------
(***************************************************************************)
(* The telemetry extractor.                                                *)
(***************************************************************************)

PointBlocks(n) ==
  {0} \cup {NameBlock(i) : i \in 1 .. n} \cup {ValueBlock(i) : i \in 1 .. n}

BatchArray ==
  /\ batch = [point_count |-> batch.point_count, points |-> batch.points]
  /\ batch.point_count \in PointCount
  /\ batch.point_count <= MaxPoints
  /\ batch.points \in [1 .. batch.point_count -> Point]
  /\ batchNext \in 1 .. batch.point_count + 1
  /\ \A i \in 1 .. batch.point_count :
       /\ batch.points[i].name <=> i < batchNext
       /\ batch.points[i].value <=> i < batchNext
  /\ batchHeap = PointBlocks(batchNext - 1)

BatchInv ==
  /\ batchStatus \in {"idle", "parsing", "IPMB_OK"} \cup Failure
  /\ batchStatus \in {"parsing", "IPMB_OK"} => BatchArray
  /\ batchStatus \notin {"parsing", "IPMB_OK"} => batchHeap = {}

BatchStep ==
  [BatchContract!Next]_
    <<PhaseOf(batchStatus), ClaimOf(batchStatus, batch.point_count), batchHeap>>

(* The names and values of the first n points are the first 2n buffers. *)
LEMMA PointBlocksAre ==
  ASSUME NEW n \in Nat
  PROVE  PointBlocks(n) = 0 .. 2 * n
<1>1. ASSUME NEW k \in 1 .. 2 * n
      PROVE  \E i \in 1 .. n : k = 2 * i - 1 \/ k = 2 * i
  <2> DEFINE i == (k + 1) \div 2
  <2>1. i \in 1 .. n /\ (k = 2 * i - 1 \/ k = 2 * i)
    OBVIOUS
  <2> HIDE DEF i
  <2> QED BY <2>1
<1>2. ASSUME NEW i \in 1 .. n
      PROVE  2 * i - 1 \in 1 .. 2 * n /\ 2 * i \in 1 .. 2 * n
  OBVIOUS
<1>3. PointBlocks(n) = {0} \cup 1 .. 2 * n
  <2>1. PointBlocks(n) \subseteq {0} \cup 1 .. 2 * n
    BY <1>2 DEF PointBlocks, NameBlock, ValueBlock
  <2>2. 1 .. 2 * n \subseteq PointBlocks(n)
    BY <1>1 DEF PointBlocks, NameBlock, ValueBlock
  <2> QED BY <2>1, <2>2 DEF PointBlocks
<1> QED BY <1>3

LEMMA BatchFreesAll ==
  ASSUME BatchArray, NEW points \in [1 .. batch.point_count -> Point],
         \A i \in 1 .. batch.point_count :
           i < batchNext => points[i].name /\ points[i].value
  PROVE  batchHeap \subseteq
           BatchBlocks([point_count |-> batch.point_count, points |-> points])
<1> USE TelemetryAssumption DEF BatchArray
<1>1. points # NULL
  OBVIOUS
<1>2. 1 .. batchNext - 1 \subseteq
        {j \in 1 .. batch.point_count : points[j].name /\ points[j].value}
  OBVIOUS
<1> QED BY <1>1, <1>2 DEF BatchBlocks, PointBlocks

LEMMA BatchFreedAfterAll ==
  ASSUME BatchArray, BatchFreed(batch)
  PROVE  batchHeap' = {}
<1>1. batchHeap \subseteq BatchBlocks(batch)
  BY BatchFreesAll DEF BatchArray
<1> QED BY <1>1 DEF BatchFreed

LEMMA ReadBatchHeaderInv ==
  ASSUME NEW lengths, BatchInv, ReadBatchHeader(lengths)
  PROVE  BatchInv' /\ BatchStep
<1>1. PICK n \in PointCount :
        \/ \E status \in {"IPMB_ERR_BAD_MAGIC", "IPMB_ERR_LIMIT", "IPMB_ERR_ALLOC"} :
             BatchRefused(0, status) \/ BatchRefused(n, status)
        \/ n <= MaxPoints /\ BatchTaken(n)
  BY DEF ReadBatchHeader
<1>2. batchStatus = "idle" /\ batchNext' = 1 /\ batchHeap = {}
  BY DEF ReadBatchHeader, BatchInv
<1>3. ASSUME NEW status \in {"IPMB_ERR_BAD_MAGIC", "IPMB_ERR_LIMIT", "IPMB_ERR_ALLOC"},
             NEW m, BatchRefused(m, status)
      PROVE  BatchInv' /\ BatchStep
  BY <1>2, <1>3 DEF BatchRefused, BatchInv, Failure, BatchStep, PhaseOf, ClaimOf,
     BatchContract!Next, BatchContract!Start, BatchContract!Nothing,
     BatchContract!Fail
<1>4. ASSUME n <= MaxPoints, BatchTaken(n)
      PROVE  BatchInv' /\ BatchStep
  <2> DEFINE array == [i \in 1 .. n |-> NoPoint]
  <2>1. /\ array \in [1 .. n -> Point]
        /\ \A i \in 1 .. n : ~array[i].name /\ ~array[i].value
    <3>1. NoPoint \in Point /\ ~NoPoint.name /\ ~NoPoint.value
      BY DEF NoPoint, Point
    <3> QED BY <3>1
  <2>2. batch'.point_count = n /\ batch'.points = array
    BY <1>4 DEF BatchTaken
  <2>3. batch' = [point_count |-> n, points |-> array]
    BY <1>4 DEF BatchTaken
  <2>4. batchHeap' = PointBlocks(batchNext' - 1)
    BY <1>2, <1>4 DEF BatchTaken, PointBlocks
  <2>5. BatchArray'
    <3> HIDE DEF array
    <3> QED BY <1>2, <1>4, <2>1, <2>2, <2>3, <2>4, TelemetryAssumption DEF BatchArray
  <2>6. BatchStep
    <3>1. n \in 0 .. MaxPoints
      BY <1>4, TelemetryAssumption
    <3> HIDE DEF array
    <3> QED BY <1>2, <1>4, <2>2, <3>1 DEF BatchTaken, BatchStep, PhaseOf, ClaimOf,
               BatchContract!Next, BatchContract!Start
  <2> QED BY <1>4, <2>5, <2>6 DEF BatchInv, BatchTaken
<1> QED BY <1>1, <1>3, <1>4

LEMMA PointRefusedInv ==
  ASSUME BatchInv, batchStatus = "parsing", batchNext <= batch.point_count,
         \/ PointShort
         \/ \E name, value \in BOOLEAN : PointRefused(name, value)
  PROVE  BatchInv' /\ BatchStep
<1>0. BatchArray
  BY DEF BatchInv
<1>1. batchHeap' = {}
  <2>1. CASE PointShort
    BY <1>0, <2>1, BatchFreedAfterAll DEF PointShort
  <2>2. ASSUME NEW name \in BOOLEAN, NEW value \in BOOLEAN, PointRefused(name, value)
        PROVE  batchHeap' = {}
    <3> DEFINE b == [batch EXCEPT !.points[batchNext].name = name,
                                  !.points[batchNext].value = value]
               old == batch.points[batchNext]
               new == [name |-> name, value |-> value, value_len |-> old.value_len]
               points == [batch.points EXCEPT ![batchNext] = new]
    <3>1. batchNext \in 1 .. batch.point_count /\ old \in Point
      BY <1>0, TelemetryAssumption DEF BatchArray
    <3>2. new \in Point
      BY <3>1 DEF Point
    <3>3. b = [point_count |-> batch.point_count, points |-> points]
      <4> DEFINE named == [name |-> name, value |-> old.value, value_len |-> old.value_len]
                 b1 == [batch EXCEPT !.points[batchNext].name = name]
                 points1 == [batch.points EXCEPT ![batchNext] = named]
      <4>1. b1 = [point_count |-> batch.point_count, points |-> points1]
        <5>1. [old EXCEPT !.name = name] = named
          BY <3>1 DEF Point
        <5>2. b1 = [batch EXCEPT !.points =
                      [batch.points EXCEPT ![batchNext] = [old EXCEPT !.name = name]]]
          OBVIOUS
        <5> HIDE DEF old, named
        <5> QED BY <1>0, <5>1, <5>2 DEF BatchArray
      <4>2. points1[batchNext] = named
        <5> HIDE DEF named
        <5> QED BY <1>0, <3>1 DEF BatchArray
      <4>3. [named EXCEPT !.value = value] = new
        OBVIOUS
      <4>4. b = [b1 EXCEPT !.points[batchNext].value = value]
        OBVIOUS
      <4> HIDE DEF named, b, b1
      <4>5. b = [point_count |-> batch.point_count,
                 points |-> [points1 EXCEPT ![batchNext] = [points1[batchNext] EXCEPT !.value = value]]]
        <5> HIDE DEF points1
        <5> QED BY <4>1, <4>4
      <4>6. [points1 EXCEPT ![batchNext] = new] = points
        <5> HIDE DEF new
        <5> QED BY <1>0, <3>1 DEF BatchArray
      <4> HIDE DEF points1, points
      <4> QED BY <4>2, <4>3, <4>5, <4>6
    <3>4. points \in [1 .. batch.point_count -> Point]
      <4> HIDE DEF new
      <4> QED BY <1>0, <3>2 DEF BatchArray
    <3>5. \A i \in 1 .. batch.point_count :
            i < batchNext => points[i].name /\ points[i].value
      <4> HIDE DEF new
      <4> QED BY <1>0, <3>1 DEF BatchArray
    <3>6. batchHeap \subseteq BatchBlocks(b)
      <4> HIDE DEF points, b
      <4> QED BY <1>0, <3>3, <3>4, <3>5, BatchFreesAll
    <3> QED BY <2>2, <3>6 DEF PointRefused, BatchFreed
  <2> QED BY <2>1, <2>2
<1>2. batchStatus' \in Failure
  BY DEF PointShort, PointRefused, Failure
<1>3. BatchInv'
  BY <1>1, <1>2 DEF BatchInv, Failure
<1>4. BatchStep
  BY <1>1, <1>2 DEF BatchStep, PhaseOf, ClaimOf, BatchContract!Next,
     BatchContract!Item, BatchContract!Nothing, BatchContract!Fail, Failure
<1> QED BY <1>3, <1>4

LEMMA PointTakenInv ==
  ASSUME BatchInv, batchStatus = "parsing", batchNext <= batch.point_count,
         NEW name_len \in NameLength, NEW value_len \in ValueLength,
         PointTaken(name_len, value_len)
  PROVE  BatchInv' /\ BatchStep
<1> DEFINE new == [name |-> TRUE, value |-> TRUE, value_len |-> value_len]
           n == batch.point_count
           points == [batch.points EXCEPT ![batchNext] = new]
<1>0. BatchArray
  BY DEF BatchInv
<1> USE TelemetryAssumption DEF BatchArray
<1>1. new \in Point
  BY DEF Point
<1>2. n \in Nat /\ batchNext \in 1 .. n
  BY <1>0
<1>3. batch' = [point_count |-> n, points |-> points]
  BY <1>0 DEF PointTaken
<1>4. /\ batch'.point_count = n
      /\ batch'.points = points
      /\ batch' = [point_count |-> batch'.point_count, points |-> batch'.points]
  <2> HIDE DEF points, n
  <2> QED BY <1>3
<1>5. points \in [1 .. n -> Point]
  <2> HIDE DEF new
  <2> QED BY <1>0, <1>1
<1>6. /\ points[batchNext] = new
      /\ \A i \in 1 .. n : i # batchNext => points[i] = batch.points[i]
  BY <1>0, <1>2
<1>7. /\ batchNext' = batchNext + 1
      /\ batchHeap' = batchHeap \cup {NameBlock(batchNext), ValueBlock(batchNext)}
      /\ batchStatus' = batchStatus
  BY DEF PointTaken
<1>8. batchHeap' = PointBlocks(batchNext' - 1)
  <2>1. 1 .. batchNext = (1 .. batchNext - 1) \cup {batchNext}
    BY <1>2
  <2>2. batchHeap' = PointBlocks(batchNext)
    BY <1>0, <1>7, <2>1 DEF PointBlocks
  <2>3. batchNext' - 1 = batchNext
    BY <1>2, <1>7
  <2> QED BY <2>2, <2>3
<1>9. BatchArray'
  <2>1. \A i \in 1 .. n : (points[i].name <=> i < batchNext + 1)
                          /\ (points[i].value <=> i < batchNext + 1)
    <3> SUFFICES ASSUME NEW i \in 1 .. n
                 PROVE  /\ points[i].name <=> i < batchNext + 1
                        /\ points[i].value <=> i < batchNext + 1
      OBVIOUS
    <3>1. CASE i = batchNext
      BY <1>2, <1>6, <3>1
    <3>2. CASE i # batchNext
      <4>1. /\ points[i].name <=> i < batchNext
            /\ points[i].value <=> i < batchNext
        BY <1>0, <1>6, <3>2
      <4> QED BY <1>2, <3>2, <4>1
    <3> QED BY <3>1, <3>2
  <2>2. batchNext + 1 \in 1 .. n + 1
    BY <1>2
  <2>3. n \in PointCount /\ n <= MaxPoints
    BY <1>0
  <2> HIDE DEF points, n, new
  <2> QED BY <1>4, <1>5, <1>7, <1>8, <2>1, <2>2, <2>3
<1>10. BatchInv'
  BY <1>7, <1>9 DEF BatchInv
<1>11. BatchStep
  <2> DEFINE pair == {NameBlock(batchNext), ValueBlock(batchNext)}
  <2>1. batchNext \in 1 .. n /\ pair \cap batchHeap = {}
    <3>1. batchNext - 1 \in Nat
      BY <1>2
    <3>2. batchHeap = 0 .. 2 * (batchNext - 1)
      BY <1>0, <3>1, PointBlocksAre
    <3> QED BY <1>2, <3>2 DEF NameBlock, ValueBlock
  <2>2. BatchContract!Buffers(batchNext) = pair
    BY <1>2 DEF BatchContract!Buffers, NameBlock, ValueBlock
  <2> HIDE DEF points
  <2> QED BY <1>4, <1>7, <2>1, <2>2 DEF BatchStep, PhaseOf, ClaimOf,
             BatchContract!Next, BatchContract!Item
<1> QED BY <1>10, <1>11

LEMMA ExtractTelemetryInv ==
  ASSUME NEW lengths, BatchInv, ExtractTelemetry(lengths)
  PROVE  BatchInv' /\ BatchStep
<1>1. CASE ReadBatchHeader(lengths)
  BY <1>1, ReadBatchHeaderInv
<1>2. CASE ReadPoint
  BY <1>2, PointRefusedInv, PointTakenInv DEF ReadPoint
<1>3. CASE BatchParsed
  <2>1. BatchArray /\ batchNext = batch.point_count + 1 /\ batchStatus = "parsing"
    BY <1>3, TelemetryAssumption DEF BatchParsed, BatchInv, BatchArray
  <2>2. batchHeap = BatchContract!Whole(batch.point_count)
    BY <2>1, TelemetryAssumption, PointBlocksAre DEF BatchArray, BatchContract!Whole
  <2>3. BatchInv'
    BY <1>3 DEF BatchParsed, BatchInv, BatchArray
  <2>4. BatchStep
    BY <1>3, <2>2 DEF BatchParsed, BatchStep, PhaseOf, ClaimOf, BatchContract!Next,
       BatchContract!Finish
  <2> QED BY <2>3, <2>4
<1> QED BY <1>1, <1>2, <1>3 DEF ExtractTelemetry

LEMMA DropBatchInv ==
  ASSUME BatchInv, DropBatch
  PROVE  BatchInv' /\ BatchStep
<1>1. batchHeap' = {}
  BY BatchFreedAfterAll DEF BatchInv, DropBatch, Failure
<1> QED BY <1>1 DEF DropBatch, BatchInv, Failure, BatchStep, PhaseOf, ClaimOf,
           BatchContract!Next, BatchContract!Release, BatchContract!Nothing

LEMMA BatchSameInv ==
  ASSUME BatchInv, UNCHANGED batchVars
  PROVE  BatchInv' /\ BatchStep
BY DEF batchVars, BatchInv, BatchArray, BatchStep, PhaseOf, ClaimOf

-----------------------------------------------------------------------------
(***************************************************************************)
(* The register map decoder.                                               *)
(***************************************************************************)

MapArray ==
  /\ map = [field_count |-> map.field_count, fields |-> map.fields]
  /\ map.field_count \in FieldCount
  /\ map.field_count <= MaxFields
  /\ map.fields \in [1 .. map.field_count -> Field]
  /\ mapNext \in 1 .. map.field_count + 1
  /\ \A i \in 1 .. map.field_count : map.fields[i].bytes <=> i < mapNext
  /\ mapHeap = 0 .. mapNext - 1

MapReads ==
  /\ mapLen \in Nat /\ mapCursor \in Nat /\ mapReach \in Nat
  /\ OverreadBounded

MapInv ==
  /\ mapStatus \in {"idle", "parsing", "undefined", "IPMB_OK"} \cup Failure
  /\ mapStatus \in {"parsing", "undefined", "IPMB_OK"} => MapArray
  /\ mapStatus \notin {"parsing", "undefined", "IPMB_OK"} => mapHeap = {}
  /\ MapReads

MapStep ==
  [MapContract!Next]_
    <<PhaseOf(mapStatus), ClaimOf(mapStatus, map.field_count), mapHeap>>

LEMMA MapFreedAfterAll ==
  ASSUME MapArray, MapFreed
  PROVE  mapHeap' = {}
<1> USE RegisterAssumption DEF MapArray
<1>1. map.fields # NULL
  OBVIOUS
<1>2. 1 .. mapNext - 1 \subseteq {i \in 1 .. map.field_count : map.fields[i].bytes}
  OBVIOUS
<1>3. mapHeap \subseteq MapBlocks(map)
  BY <1>1, <1>2 DEF MapBlocks
<1> QED BY <1>3 DEF MapFreed

LEMMA NothingFits == \A x, y \in Nat : 0 <= x + y
OBVIOUS

LEMMA ReadMapHeaderInv ==
  ASSUME NEW lengths \in SUBSET Nat, MapInv, ReadMapHeader(lengths)
  PROVE  MapInv' /\ MapStep
<1>1. PICK len \in lengths, header_len \in ExtraHeader, n \in FieldCount,
           magic \in BOOLEAN :
        LET status == MapHeaderStatus(len, magic, header_len, n)
        IN /\ mapLen' = len
           /\ mapCursor' = MapHeaderLen + header_len + n * TableRowLen
           /\ \/ status # "parsing" /\ MapRefused(n, status)
              \/ status = "parsing" /\ MapTaken(n)
              \/ status = "parsing" /\ MapRefused(n, "IPMB_ERR_ALLOC")
  BY DEF ReadMapHeader
<1> DEFINE status == MapHeaderStatus(len, magic, header_len, n)
<1>2. mapStatus = "idle" /\ mapNext' = 1 /\ mapReach' = 0 /\ mapHeap = {}
  BY DEF ReadMapHeader, MapInv
<1>3. /\ status \in Failure \cup {"parsing"}
      /\ status = "parsing" => n <= MaxFields
  BY RegisterAssumption DEF MapHeaderStatus, Failure
<1>4. \/ \E e \in Failure : MapRefused(n, e)
      \/ MapTaken(n) /\ n <= MaxFields
  <2>1. "IPMB_ERR_ALLOC" \in Failure
    BY DEF Failure
  <2> HIDE DEF status
  <2> QED BY <1>1, <1>3, <2>1 DEF status
<1>5. mapLen' \in Nat /\ mapCursor' \in Nat
  BY <1>1, RegisterAssumption DEF MapHeaderLen, TableRowLen
<1> HIDE DEF status
<1>6. ASSUME NEW e \in Failure, MapRefused(n, e)
      PROVE  MapInv' /\ MapStep
  <2>1. mapStatus' \in Failure /\ mapHeap' = {}
    BY <1>2, <1>6 DEF MapRefused
  <2>2. MapReads'
    <3>1. mapStatus' # "undefined" /\ mapReach' = 0
      BY <1>2, <2>1 DEF Failure
    <3> QED BY <1>5, <3>1, NothingFits DEF MapReads, OverreadBounded
  <2>3. MapInv'
    BY <2>1, <2>2 DEF MapInv, Failure
  <2> QED BY <1>2, <2>1, <2>3 DEF MapStep, PhaseOf, ClaimOf, MapContract!Next,
             MapContract!Start, MapContract!Nothing, MapContract!Fail, Failure
<1>7. ASSUME MapTaken(n), n <= MaxFields
      PROVE  MapInv' /\ MapStep
  <2> DEFINE array == [i \in 1 .. n |-> NoField]
  <2>1. /\ array \in [1 .. n -> Field]
        /\ \A i \in 1 .. n : ~array[i].bytes
    <3>1. NoField \in Field /\ ~NoField.bytes
      BY DEF NoField, Field
    <3> QED BY <3>1
  <2>2. /\ map'.field_count = n /\ map'.fields = array
        /\ map' = [field_count |-> n, fields |-> array]
    BY <1>7 DEF MapTaken
  <2>3. mapHeap' = 0 .. mapNext' - 1 /\ mapStatus' = "parsing"
    BY <1>2, <1>7 DEF MapTaken
  <2>4. MapArray'
    <3> HIDE DEF array
    <3>1. n \in Nat /\ n <= MaxFields /\ mapNext' = 1
      BY <1>2, <1>7, RegisterAssumption
    <3> QED BY <2>1, <2>2, <2>3, <3>1 DEF MapArray
  <2>5. MapReads'
    BY <1>2, <1>5, <2>3, NothingFits DEF MapReads, OverreadBounded
  <2>6. MapStep
    <3>1. n \in 0 .. MaxFields
      BY <1>7, RegisterAssumption
    <3> HIDE DEF array
    <3> QED BY <1>2, <1>7, <2>2, <2>3, <3>1 DEF MapTaken, MapStep, PhaseOf, ClaimOf,
               MapContract!Next, MapContract!Start
  <2> QED BY <2>3, <2>4, <2>5, <2>6 DEF MapInv
<1> QED BY <1>4, <1>6, <1>7

LEMMA FieldRefusedInv ==
  ASSUME MapInv, mapStatus = "parsing", NEW status \in Failure, FieldRefused(status),
         UNCHANGED <<mapLen, mapCursor>>
  PROVE  MapInv' /\ MapStep
<1>1. mapStatus' \in Failure /\ mapHeap' = {}
  BY MapFreedAfterAll DEF MapInv, FieldRefused
<1>2. MapReads'
  BY <1>1 DEF MapInv, MapReads, OverreadBounded, FieldRefused, Failure
<1>3. MapInv'
  BY <1>1, <1>2 DEF MapInv, Failure
<1> QED BY <1>1, <1>3 DEF MapStep, PhaseOf, ClaimOf, MapContract!Next,
           MapContract!Item, MapContract!Nothing, MapContract!Fail, Failure

(* The field ends within the payload's length of the table's end, so it    *)
(* cannot end further behind the payload than the table does from the      *)
(* start.                                                                  *)
LEMMA FieldTakenInv ==
  ASSUME MapInv, mapStatus = "parsing", mapNext <= map.field_count,
         NEW off \in FieldOffset, NEW len \in FieldLength,
         FieldInside(off, len), FieldTaken(off, len), UNCHANGED <<mapLen, mapCursor>>
  PROVE  MapInv' /\ MapStep
<1> DEFINE new == [offset |-> off, length |-> len, bytes |-> TRUE]
           n == map.field_count
           fields == [map.fields EXCEPT ![mapNext] = new]
<1>0. MapArray /\ MapReads
  BY DEF MapInv
<1> USE RegisterAssumption DEF MapArray
<1>1. new \in Field
  BY DEF Field
<1>2. n \in Nat /\ mapNext \in 1 .. n
  BY <1>0
<1>3. map' = [field_count |-> n, fields |-> fields]
  BY <1>0 DEF FieldTaken
<1>4. /\ map'.field_count = n
      /\ map'.fields = fields
      /\ map' = [field_count |-> map'.field_count, fields |-> map'.fields]
  <2> HIDE DEF fields, n
  <2> QED BY <1>3
<1>5. fields \in [1 .. n -> Field]
  <2> HIDE DEF new
  <2> QED BY <1>0, <1>1
<1>6. /\ fields[mapNext] = new
      /\ \A i \in 1 .. n : i # mapNext => fields[i] = map.fields[i]
  BY <1>0, <1>2
<1>7. /\ mapNext' = mapNext + 1
      /\ mapHeap' = mapHeap \cup {mapNext}
      /\ \/ mapStatus' = "parsing"
         \/ mapStatus' = "undefined" /\ mapReach' > mapLen
  BY DEF FieldTaken
<1>8. mapHeap' = 0 .. mapNext' - 1
  BY <1>0, <1>2, <1>7
<1>9. MapArray'
  <2>1. \A i \in 1 .. n : fields[i].bytes <=> i < mapNext + 1
    <3> SUFFICES ASSUME NEW i \in 1 .. n
                 PROVE  fields[i].bytes <=> i < mapNext + 1
      OBVIOUS
    <3>1. CASE i = mapNext
      BY <1>2, <1>6, <3>1
    <3>2. CASE i # mapNext
      <4>1. fields[i].bytes <=> i < mapNext
        BY <1>0, <1>6, <3>2
      <4> QED BY <1>2, <3>2, <4>1
    <3> QED BY <3>1, <3>2
  <2>2. mapNext + 1 \in 1 .. n + 1
    BY <1>2
  <2>3. n \in FieldCount /\ n <= MaxFields
    BY <1>0
  <2> HIDE DEF fields, n, new
  <2> QED BY <1>4, <1>5, <1>7, <1>8, <2>1, <2>2, <2>3
<1>10. MapReads'
  <2>1. off \in Nat /\ len \in Nat
    OBVIOUS
  <2>2. mapReach' \in Nat /\ mapReach' <= mapLen + mapCursor
    BY <1>0, <2>1, SMTT(60) DEF MapReads, OverreadBounded, FieldInside, FieldTaken
  <2> QED BY <1>0, <1>7, <2>2 DEF MapReads, OverreadBounded
<1>11. MapInv'
  BY <1>7, <1>9, <1>10 DEF MapInv
<1>12. MapStep
  <2>1. mapNext \in 1 .. n /\ mapNext \notin mapHeap
    BY <1>0, <1>2
  <2>2. MapContract!Buffers(mapNext) = {mapNext}
    BY <1>2 DEF MapContract!Buffers
  <2> HIDE DEF fields
  <2> QED BY <1>4, <1>7, <2>1, <2>2 DEF MapStep, PhaseOf, ClaimOf, MapContract!Next,
             MapContract!Item
<1> QED BY <1>11, <1>12

LEMMA DecodeRegisterMapInv ==
  ASSUME NEW lengths \in SUBSET Nat, MapInv, DecodeRegisterMap(lengths)
  PROVE  MapInv' /\ MapStep
<1>1. CASE ReadMapHeader(lengths)
  BY <1>1, ReadMapHeaderInv
<1>2. CASE ReadField
  <2>1. {"IPMB_ERR_INVALID", "IPMB_ERR_ALLOC"} \subseteq Failure
    BY DEF Failure
  <2> QED BY <1>2, <2>1, FieldRefusedInv, FieldTakenInv DEF ReadField
<1>3. CASE MapDecoded
  <2>1. MapArray /\ mapNext = map.field_count + 1 /\ mapStatus = "parsing"
    BY <1>3, RegisterAssumption DEF MapDecoded, MapInv, MapArray
  <2>2. mapHeap = MapContract!Whole(map.field_count)
    BY <2>1, RegisterAssumption DEF MapArray, MapContract!Whole
  <2>3. MapInv'
    BY <1>3 DEF MapDecoded, MapInv, MapArray, MapReads, OverreadBounded
  <2>4. MapStep
    BY <1>3, <2>2 DEF MapDecoded, MapStep, PhaseOf, ClaimOf, MapContract!Next,
       MapContract!Finish
  <2> QED BY <2>3, <2>4
<1> QED BY <1>1, <1>2, <1>3 DEF DecodeRegisterMap

LEMMA DropMapInv ==
  ASSUME MapInv, DropMap
  PROVE  MapInv' /\ MapStep
<1>1. mapHeap' = {}
  BY MapFreedAfterAll DEF MapInv, DropMap, Failure
<1>2. mapStatus \in Failure \cup {"IPMB_OK"} /\ mapStatus' = "idle"
  BY DEF DropMap
<1>3. MapReads'
  BY <1>2 DEF DropMap, MapReads, OverreadBounded
<1> QED BY <1>1, <1>2, <1>3 DEF MapInv, Failure, MapStep, PhaseOf, ClaimOf,
           MapContract!Next, MapContract!Release, MapContract!Nothing

LEMMA MapSameInv ==
  ASSUME MapInv, UNCHANGED mapVars
  PROVE  MapInv' /\ MapStep
BY DEF mapVars, MapInv, MapArray, MapReads, OverreadBounded, MapStep, PhaseOf, ClaimOf

-----------------------------------------------------------------------------
(***************************************************************************)
(* The journal parser.                                                     *)
(***************************************************************************)

JournalArray ==
  /\ jrn = [record_count |-> jrn.record_count, records |-> jrn.records]
  /\ jrn.record_count \in RecordCount
  /\ jrn.record_count <= MaxJournal
  /\ jrn.records \in [1 .. jrn.record_count -> JournalRecord]
  /\ jrnNext \in 1 .. jrn.record_count + 1
  /\ \A i \in 1 .. jrn.record_count : jrn.records[i].payload <=> i < jrnNext
  /\ jrnHeap = 0 .. jrnNext - 1

JournalInv ==
  /\ jrnStatus \in {"idle", "parsing", "IPMB_OK"} \cup Failure
  /\ jrnStatus \in {"parsing", "IPMB_OK"} => JournalArray
  /\ jrnStatus \notin {"parsing", "IPMB_OK"} => jrnHeap = {}

JournalStep ==
  [JournalContract!Next]_
    <<PhaseOf(jrnStatus), ClaimOf(jrnStatus, jrn.record_count), jrnHeap>>

LEMMA JournalFreedAfterAll ==
  ASSUME JournalArray, JournalFreed
  PROVE  jrnHeap' = {}
<1> USE JournalAssumption DEF JournalArray
<1>1. jrn.records # NULL
  OBVIOUS
<1>2. 1 .. jrnNext - 1 \subseteq {i \in 1 .. jrn.record_count : jrn.records[i].payload}
  OBVIOUS
<1>3. jrnHeap \subseteq JournalBlocks(jrn)
  BY <1>1, <1>2 DEF JournalBlocks
<1> QED BY <1>3 DEF JournalFreed

LEMMA ReadJournalHeaderInv ==
  ASSUME JournalInv, ReadJournalHeader
  PROVE  JournalInv' /\ JournalStep
<1>1. PICK n \in RecordCount :
        \/ \E status \in {"IPMB_ERR_BAD_MAGIC", "IPMB_ERR_LIMIT", "IPMB_ERR_ALLOC"} :
             JournalRefused(0, status) \/ JournalRefused(n, status)
        \/ n <= MaxJournal /\ JournalTaken(n)
  BY DEF ReadJournalHeader
<1>2. jrnStatus = "idle" /\ jrnNext' = 1 /\ jrnHeap = {}
  BY DEF ReadJournalHeader, JournalInv
<1>3. ASSUME NEW status \in {"IPMB_ERR_BAD_MAGIC", "IPMB_ERR_LIMIT", "IPMB_ERR_ALLOC"},
             NEW m, JournalRefused(m, status)
      PROVE  JournalInv' /\ JournalStep
  BY <1>2, <1>3 DEF JournalRefused, JournalInv, Failure, JournalStep, PhaseOf, ClaimOf,
     JournalContract!Next, JournalContract!Start, JournalContract!Nothing,
     JournalContract!Fail
<1>4. ASSUME n <= MaxJournal, JournalTaken(n)
      PROVE  JournalInv' /\ JournalStep
  <2> DEFINE array == [i \in 1 .. n |-> NoRecord]
  <2>1. /\ array \in [1 .. n -> JournalRecord]
        /\ \A i \in 1 .. n : ~array[i].payload
    <3>1. NoRecord \in JournalRecord /\ ~NoRecord.payload
      BY DEF NoRecord, JournalRecord
    <3> QED BY <3>1
  <2>2. /\ jrn'.record_count = n /\ jrn'.records = array
        /\ jrn' = [record_count |-> n, records |-> array]
    BY <1>4 DEF JournalTaken
  <2>3. jrnHeap' = 0 .. jrnNext' - 1 /\ jrnStatus' = "parsing"
    BY <1>2, <1>4 DEF JournalTaken
  <2>4. JournalArray'
    <3> HIDE DEF array
    <3> QED BY <1>2, <1>4, <2>1, <2>2, <2>3, JournalAssumption DEF JournalArray
  <2>5. JournalStep
    <3>1. n \in 0 .. MaxJournal
      BY <1>4, JournalAssumption
    <3> HIDE DEF array
    <3> QED BY <1>2, <1>4, <2>2, <2>3, <3>1 DEF JournalTaken, JournalStep, PhaseOf,
               ClaimOf, JournalContract!Next, JournalContract!Start
  <2> QED BY <2>3, <2>4, <2>5 DEF JournalInv
<1> QED BY <1>1, <1>3, <1>4

LEMMA RecordFailedInv ==
  ASSUME JournalInv, jrnStatus = "parsing", NEW status \in Failure, RecordFailed(status)
  PROVE  JournalInv' /\ JournalStep
<1>1. jrnStatus' \in Failure /\ jrnHeap' = {}
  BY JournalFreedAfterAll DEF JournalInv, RecordFailed
<1> QED BY <1>1 DEF JournalInv, JournalStep, PhaseOf, ClaimOf, JournalContract!Next,
           JournalContract!Item, JournalContract!Nothing, JournalContract!Fail,
           Failure

LEMMA RecordTakenInv ==
  ASSUME JournalInv, jrnStatus = "parsing", jrnNext <= jrn.record_count,
         NEW plen \in RecordLength, RecordTaken(plen)
  PROVE  JournalInv' /\ JournalStep
<1> DEFINE new == [payload |-> TRUE, payload_len |-> plen]
           n == jrn.record_count
           records == [jrn.records EXCEPT ![jrnNext] = new]
<1>0. JournalArray
  BY DEF JournalInv
<1> USE JournalAssumption DEF JournalArray
<1>1. new \in JournalRecord
  BY DEF JournalRecord
<1>2. n \in Nat /\ jrnNext \in 1 .. n
  BY <1>0
<1>3. jrn' = [record_count |-> n, records |-> records]
  BY <1>0 DEF RecordTaken
<1>4. /\ jrn'.record_count = n
      /\ jrn'.records = records
      /\ jrn' = [record_count |-> jrn'.record_count, records |-> jrn'.records]
  <2> HIDE DEF records, n
  <2> QED BY <1>3
<1>5. records \in [1 .. n -> JournalRecord]
  <2> HIDE DEF new
  <2> QED BY <1>0, <1>1
<1>6. /\ records[jrnNext] = new
      /\ \A i \in 1 .. n : i # jrnNext => records[i] = jrn.records[i]
  BY <1>0, <1>2
<1>7. /\ jrnNext' = jrnNext + 1
      /\ jrnHeap' = jrnHeap \cup {jrnNext}
      /\ jrnStatus' = jrnStatus
  BY DEF RecordTaken
<1>8. jrnHeap' = 0 .. jrnNext' - 1
  BY <1>0, <1>2, <1>7
<1>9. JournalArray'
  <2>1. \A i \in 1 .. n : records[i].payload <=> i < jrnNext + 1
    <3> SUFFICES ASSUME NEW i \in 1 .. n
                 PROVE  records[i].payload <=> i < jrnNext + 1
      OBVIOUS
    <3>1. CASE i = jrnNext
      BY <1>2, <1>6, <3>1
    <3>2. CASE i # jrnNext
      <4>1. records[i].payload <=> i < jrnNext
        BY <1>0, <1>6, <3>2
      <4> QED BY <1>2, <3>2, <4>1
    <3> QED BY <3>1, <3>2
  <2>2. jrnNext + 1 \in 1 .. n + 1
    BY <1>2
  <2>3. n \in RecordCount /\ n <= MaxJournal
    BY <1>0
  <2> HIDE DEF records, n, new
  <2> QED BY <1>4, <1>5, <1>7, <1>8, <2>1, <2>2, <2>3
<1>10. JournalInv'
  BY <1>7, <1>9 DEF JournalInv
<1>11. JournalStep
  <2>1. jrnNext \in 1 .. n /\ jrnNext \notin jrnHeap
    BY <1>0, <1>2
  <2>2. JournalContract!Buffers(jrnNext) = {jrnNext}
    BY <1>2 DEF JournalContract!Buffers
  <2> HIDE DEF records
  <2> QED BY <1>4, <1>7, <2>1, <2>2 DEF JournalStep, PhaseOf, ClaimOf,
             JournalContract!Next, JournalContract!Item
<1> QED BY <1>10, <1>11

LEMMA ParseJournalInv ==
  ASSUME JournalInv, ParseJournal
  PROVE  JournalInv' /\ JournalStep
<1>1. CASE ReadJournalHeader
  BY <1>1, ReadJournalHeaderInv
<1>2. CASE ReadRecord
  <2>1. {"IPMB_ERR_SHORT_READ", "IPMB_ERR_ALLOC"} \subseteq Failure
    BY DEF Failure
  <2> QED BY <1>2, <2>1, RecordFailedInv, RecordTakenInv DEF ReadRecord
<1>3. CASE JournalParsed
  <2>1. JournalArray /\ jrnNext = jrn.record_count + 1 /\ jrnStatus = "parsing"
    BY <1>3, JournalAssumption DEF JournalParsed, JournalInv, JournalArray
  <2>2. jrnHeap = JournalContract!Whole(jrn.record_count)
    BY <2>1, JournalAssumption DEF JournalArray, JournalContract!Whole
  <2>3. JournalInv'
    BY <1>3 DEF JournalParsed, JournalInv, JournalArray
  <2>4. JournalStep
    BY <1>3, <2>2 DEF JournalParsed, JournalStep, PhaseOf, ClaimOf,
       JournalContract!Next, JournalContract!Finish
  <2> QED BY <2>3, <2>4
<1> QED BY <1>1, <1>2, <1>3 DEF ParseJournal

LEMMA JournalReleasedInv ==
  ASSUME JournalInv, jrnStatus = "IPMB_OK", JournalFreed, jrnStatus' = "idle"
  PROVE  JournalInv' /\ JournalStep
<1>1. jrnHeap' = {}
  BY JournalFreedAfterAll DEF JournalInv
<1> QED BY <1>1 DEF JournalInv, JournalStep, PhaseOf, ClaimOf, JournalContract!Next,
           JournalContract!Release, JournalContract!Nothing

LEMMA JournalSameInv ==
  ASSUME JournalInv, UNCHANGED jrnVars
  PROVE  JournalInv' /\ JournalStep
BY DEF jrnVars, JournalInv, JournalArray, JournalStep, PhaseOf, ClaimOf

-----------------------------------------------------------------------------
(***************************************************************************)
(* The fragment layer.                                                     *)
(***************************************************************************)

Fragment == [offset : FragOffset, length : FragLength]

FragList ==
  /\ frags \in Seq(Fragment)
  /\ fragCount \in Nat
  /\ Len(frags) <= fragCount
  /\ fragTotal \in TotalSize

(* Each byte is from the last of the first n fragments that covers it. *)
PlacedUpTo(n) ==
  /\ fragBuf \in [0 .. fragTotal - 1 -> Nat]
  /\ \A p \in 0 .. fragTotal - 1 :
       \/ /\ fragBuf[p] = 0
          /\ \A i \in 1 .. n : p \notin Span(frags[i])
       \/ /\ fragBuf[p] \in 1 .. n
          /\ p \in Span(frags[fragBuf[p]])
          /\ \A i \in 1 .. n : p \in Span(frags[i]) => i <= fragBuf[p]

FragInv ==
  /\ fragStatus \in {"idle", "listing", "copying", "undefined", "IPMB_OK"} \cup Failure
  /\ fragStatus \in {"listing", "copying", "undefined", "IPMB_OK"} => FragList
  /\ fragStatus \in {"copying", "undefined", "IPMB_OK"} => Len(frags) = fragCount
  /\ fragStatus = "listing" => fragHeap = {0} /\ fragNext = 1
  /\ fragStatus = "copying" =>
       /\ fragHeap = {0, 1}
       /\ fragNext \in 1 .. fragCount + 1
       /\ PlacedUpTo(fragNext - 1)
  /\ fragStatus = "undefined" => OverflowExplained
  /\ fragStatus = "IPMB_OK" => fragHeap = {1} /\ PlacedUpTo(fragCount)
  /\ fragStatus \in {"idle"} \cup Failure => fragHeap = {}

LEMMA SmallIsItself ==
  \A x, w \in Nat : x < w => x % w = x
OBVIOUS

LEMMA ReadFragHeaderInv ==
  ASSUME NEW lengths, FragInv, ReadFragHeader(lengths)
  PROVE  FragInv'
<1>1. PICK total \in TotalSize, n \in FragmentCount :
        /\ fragTotal' = total
        /\ fragCount' = n
        /\ \/ FragReturns("IPMB_ERR_BAD_MAGIC", {})
           \/ fragStatus' = "listing" /\ fragHeap' = {0}
           \/ FragReturns("IPMB_ERR_ALLOC", {})
  BY DEF ReadFragHeader
<1>2. frags' = <<>> /\ fragNext' = 1
  BY DEF ReadFragHeader
<1>3. CASE fragStatus' = "listing" /\ fragHeap' = {0}
  <2>1. FragList'
    BY <1>1, <1>2, FragmentAssumption DEF FragList
  <2> QED BY <1>2, <1>3, <2>1 DEF FragInv, Failure
<1>4. CASE FragReturns("IPMB_ERR_BAD_MAGIC", {}) \/ FragReturns("IPMB_ERR_ALLOC", {})
  <2>1. fragStatus' \in Failure /\ fragHeap' = {}
    BY <1>4 DEF FragReturns, Failure
  <2> QED BY <2>1 DEF FragInv, Failure
<1> QED BY <1>1, <1>3, <1>4

LEMMA ListFragmentInv ==
  ASSUME FragInv, ListFragment
  PROVE  FragInv'
<1>1. PICK off \in FragOffset, len \in FragLength :
        \/ FragReturns("IPMB_ERR_SHORT_READ", fragHeap)
        \/ /\ frags' = Append(frags, [offset |-> off, length |-> len])
           /\ UNCHANGED <<fragStatus, fragHeap>>
  BY DEF ListFragment
<1>2. /\ fragStatus = "listing" /\ Len(frags) < fragCount
      /\ UNCHANGED <<fragCount, fragTotal, fragNext>>
  BY DEF ListFragment
<1>3. CASE FragReturns("IPMB_ERR_SHORT_READ", fragHeap)
  <2>1. fragStatus' \in Failure /\ fragHeap' = {}
    BY <1>2, <1>3 DEF FragReturns, FragInv, Failure
  <2> QED BY <2>1 DEF FragInv, Failure
<1>4. CASE /\ frags' = Append(frags, [offset |-> off, length |-> len])
           /\ UNCHANGED <<fragStatus, fragHeap>>
  <2> DEFINE new == [offset |-> off, length |-> len]
  <2>1. new \in Fragment
    BY DEF Fragment
  <2>2. FragList
    BY <1>2 DEF FragInv
  <2>3. frags' \in Seq(Fragment) /\ Len(frags') = Len(frags) + 1
    <3> HIDE DEF new
    <3> QED BY <1>4, <2>1, <2>2 DEF FragList, new
  <2>4. FragList'
    <3>1. Len(frags) \in Nat
      BY <2>2 DEF FragList
    <3> QED BY <1>2, <2>2, <2>3, <3>1 DEF FragList
  <2> QED BY <1>2, <1>4, <2>4 DEF FragInv, Failure
<1> QED BY <1>1, <1>3, <1>4

LEMMA ReassembleInv ==
  ASSUME FragInv, Reassemble
  PROVE  FragInv'
<1>1. /\ fragStatus = "listing" /\ Len(frags) = fragCount
      /\ UNCHANGED <<frags, fragCount, fragTotal, fragNext>>
  BY DEF Reassemble
<1>2. CASE \E e \in {"IPMB_ERR_LIMIT", "IPMB_ERR_ALLOC"} : FragReturns(e, fragHeap)
  <2>1. fragStatus' \in Failure /\ fragHeap' = {}
    BY <1>1, <1>2 DEF FragReturns, FragInv, Failure
  <2> QED BY <2>1 DEF FragInv, Failure
<1>3. CASE /\ fragStatus' = "copying"
           /\ fragHeap' = fragHeap \cup {1}
           /\ fragBuf' = [p \in 0 .. fragTotal - 1 |-> 0]
  <2>1. FragList /\ fragHeap = {0} /\ fragNext = 1
    BY <1>1 DEF FragInv
  <2>2. FragList'
    BY <1>1, <2>1 DEF FragList
  <2>3. PlacedUpTo(fragNext - 1)'
    <3>1. fragNext' - 1 = 0
      BY <1>1, <2>1
    <3>2. fragBuf' \in [0 .. fragTotal' - 1 -> Nat]
      BY <1>1, <1>3
    <3>3. \A p \in 0 .. fragTotal' - 1 : fragBuf'[p] = 0
      BY <1>1, <1>3
    <3> QED BY <3>1, <3>2, <3>3 DEF PlacedUpTo
  <2>4. fragNext' \in 1 .. fragCount' + 1
    BY <1>1, <2>1 DEF FragList
  <2> QED BY <1>1, <1>3, <2>1, <2>2, <2>3, <2>4 DEF FragInv, Failure
<1> QED BY <1>2, <1>3 DEF Reassemble

(* A copy that leaves the buffer has passed the check of its end all the   *)
(* same: the end is not the sum of offset and length.                      *)
LEMMA CopyFragmentInv ==
  ASSUME FragInv, CopyFragment
  PROVE  FragInv'
<1> DEFINE f == frags[fragNext]
<1>1. /\ fragStatus = "copying" /\ fragNext <= fragCount /\ fragNext' = fragNext + 1
      /\ UNCHANGED <<frags, fragCount, fragTotal>>
  BY DEF CopyFragment
<1>2. /\ FragList /\ Len(frags) = fragCount /\ fragHeap = {0, 1}
      /\ fragNext \in 1 .. fragCount /\ PlacedUpTo(fragNext - 1)
  BY <1>1 DEF FragInv, FragList
<1>3. f \in Fragment
  BY <1>2 DEF FragList
<1>4. /\ f.offset \in Nat /\ f.length \in Nat /\ fragTotal \in Nat /\ Word \in Nat
      /\ fragTotal < Word
  <2>1. fragTotal \in 0 .. Word - 1 /\ Word \in Nat
    BY <1>2, FragmentAssumption DEF FragList
  <2> HIDE DEF f
  <2>2. f.offset \in 0 .. Word - 1 /\ f.length \in 0 .. Word - 1
    BY <1>3, FragmentAssumption DEF Fragment
  <2> QED BY <2>1, <2>2
<1>5. FragList'
  BY <1>1, <1>2 DEF FragList
<1> HIDE DEF f
<1>6. CASE FragReturns("IPMB_ERR_INVALID", fragHeap \ {1})
  <2>1. fragStatus' \in Failure /\ fragHeap' = {}
    BY <1>2, <1>6 DEF FragReturns, Failure
  <2> QED BY <2>1 DEF FragInv, Failure
<1>7. CASE fragBuf' = Copied(fragNext) /\ UNCHANGED <<fragStatus, fragHeap>>
  <2>1. DOMAIN fragBuf = 0 .. fragTotal - 1
    BY <1>2 DEF PlacedUpTo
  <2>2. \A p \in 0 .. fragTotal - 1 :
          fragBuf'[p] = IF p \in Span(frags[fragNext]) THEN fragNext ELSE fragBuf[p]
    BY <1>7, <2>1 DEF Copied
  <2>3. fragBuf' \in [0 .. fragTotal - 1 -> Nat]
    BY <1>2, <1>7, <2>1 DEF Copied, PlacedUpTo
  <2>4. ASSUME NEW p \in 0 .. fragTotal - 1
        PROVE  \/ /\ fragBuf'[p] = 0
                  /\ \A i \in 1 .. fragNext : p \notin Span(frags[i])
               \/ /\ fragBuf'[p] \in 1 .. fragNext
                  /\ p \in Span(frags[fragBuf'[p]])
                  /\ \A i \in 1 .. fragNext : p \in Span(frags[i]) => i <= fragBuf'[p]
    <3>1. CASE p \in Span(frags[fragNext])
      <4>1. fragBuf'[p] = fragNext
        BY <2>2, <3>1
      <4> QED BY <1>2, <3>1, <4>1
    <3>2. CASE p \notin Span(frags[fragNext])
      <4>1. fragBuf'[p] = fragBuf[p]
        BY <2>2, <3>2
      <4>2. \A i \in 1 .. fragNext : p \in Span(frags[i]) => i \in 1 .. fragNext - 1
        BY <1>2, <3>2
      <4>3. 1 .. fragNext - 1 \subseteq 1 .. fragNext
        BY <1>2
      <4> QED BY <1>2, <4>1, <4>2, <4>3 DEF PlacedUpTo
    <3> QED BY <3>1, <3>2
  <2>5. PlacedUpTo(fragNext - 1)'
    <3>1. fragNext' - 1 = fragNext
      BY <1>1, <1>2
    <3> QED BY <1>1, <2>3, <2>4, <3>1 DEF PlacedUpTo, Span
  <2>6. fragNext' \in 1 .. fragCount' + 1
    BY <1>1, <1>2, <1>5 DEF FragList
  <2> QED BY <1>1, <1>2, <1>5, <1>7, <2>5, <2>6 DEF FragInv, Failure
<1>8. CASE /\ End(f) <= fragTotal /\ ~(Span(f) \subseteq DOMAIN fragBuf)
           /\ fragStatus' = "undefined" /\ UNCHANGED fragHeap
  <2>1. f.offset + f.length >= Word
    <3> SUFFICES ASSUME f.offset + f.length < Word
                 PROVE  FALSE
      BY <1>4
    <3>1. End(f) = f.offset + f.length
      BY <1>4, SmallIsItself DEF End
    <3>2. Span(f) \subseteq 0 .. fragTotal - 1
      BY <1>4, <1>8, <3>1 DEF Span
    <3> QED BY <1>2, <1>8, <3>2 DEF PlacedUpTo
  <2>2. OverflowExplained'
    BY <1>1, <1>2, <2>1 DEF OverflowExplained, f
  <2> QED BY <1>1, <1>2, <1>5, <1>8, <2>2 DEF FragInv, Failure
<1> QED BY <1>6, <1>7, <1>8 DEF CopyFragment, f

LEMMA ReassembledInv ==
  ASSUME FragInv, Reassembled
  PROVE  FragInv'
<1>1. /\ fragStatus = "copying" /\ fragNext > fragCount
      /\ fragStatus' = "IPMB_OK" /\ fragHeap' = fragHeap \ {0}
      /\ UNCHANGED <<frags, fragCount, fragTotal, fragNext, fragBuf>>
  BY DEF Reassembled, FragReturns
<1>2. /\ FragList /\ Len(frags) = fragCount /\ fragHeap' = {1}
      /\ PlacedUpTo(fragNext - 1) /\ fragNext - 1 = fragCount
  BY <1>1 DEF FragInv, FragList
<1>3. FragList' /\ PlacedUpTo(fragCount)'
  BY <1>1, <1>2 DEF FragList, PlacedUpTo, Span
<1> QED BY <1>1, <1>2, <1>3 DEF FragInv, Failure

LEMMA ParseFragmentsInv ==
  ASSUME NEW lengths, FragInv, ParseFragments(lengths)
  PROVE  FragInv'
BY ReadFragHeaderInv, ListFragmentInv, ReassembleInv, CopyFragmentInv, ReassembledInv
   DEF ParseFragments

LEMMA DropFragmentsInv ==
  ASSUME FragInv, DropFragments
  PROVE  FragInv'
BY DEF FragInv, DropFragments, Failure

LEMMA FragSameInv ==
  ASSUME FragInv, UNCHANGED fragVars
  PROVE  FragInv'
<1> USE DEF fragVars
<1>1. FragList => FragList'
  BY DEF FragList
<1>2. ASSUME NEW n, NEW m, n = m, PlacedUpTo(n)
      PROVE  PlacedUpTo(m)'
  BY <1>2 DEF PlacedUpTo, Span
<1>3. OverflowExplained => OverflowExplained'
  BY DEF OverflowExplained
<1> QED BY <1>1, <1>2, <1>3 DEF FragInv

-----------------------------------------------------------------------------
(***************************************************************************)
(* The callers.                                                            *)
(***************************************************************************)

(* Which decoder may be at work, and what is left of each when a stage is  *)
(* over.                                                                   *)
StageInv ==
  /\ stage \in {"idle", "message", "frames", "journal", "done", "gave up"}
  /\ layer \in Layer \cup {"none"}
  /\ frame \in Nat
  /\ layer # "none" => stage = "frames" /\ frame \in 1 .. msg.frame_count
  /\ layer # "telemetry" => batchStatus = "idle"
  /\ layer # "registers" => mapStatus = "idle"
  /\ layer # "fragments" => fragStatus = "idle"
  /\ stage \in {"idle", "journal"} => msgStatus = "idle"
  /\ stage = "frames" => msgStatus = "IPMB_OK" /\ frame > 0
  /\ stage = "done" => msgStatus \in {"idle"} \cup Failure
  /\ stage = "gave up" => msgStatus = "IPMB_OK" /\ msg.frame_count = 0
  /\ stage \notin {"journal", "done"} => jrnStatus = "idle"
  /\ stage = "done" => jrnStatus \in {"idle"} \cup Failure

InboundInv == MsgInv /\ BatchInv /\ MapInv /\ JournalInv /\ FragInv /\ StageInv

LEMMA InboundInitInv == Init => InboundInv
<1> SUFFICES ASSUME Init
             PROVE  InboundInv
  OBVIOUS
<1> USE DEF Init, Failure
<1>1. MsgInv
  BY DEF MsgInv, MessageInit, HasNoArray, EmptyMessage
<1>2. BatchInv
  BY DEF BatchInv, BatchInit
<1>3. MapInv
  BY DEF MapInv, MapInit, MapReads, OverreadBounded
<1>4. JournalInv
  BY DEF JournalInv, JournalInit
<1>5. FragInv
  BY DEF FragInv, FragInit
<1>6. StageInv
  BY DEF StageInv, MessageInit, BatchInit, MapInit, JournalInit, FragInit, Layer
<1> QED BY <1>1, <1>2, <1>3, <1>4, <1>5, <1>6 DEF InboundInv

(* The frame that is decoded is one of the message. *)
LEMMA PayloadIsNat ==
  ASSUME InboundInv, layer # "none"
  PROVE  Payload \in SUBSET Nat
<1>1. stage = "frames" /\ frame \in 1 .. msg.frame_count /\ MsgArray
  BY DEF InboundInv, StageInv, MsgInv
<1>2. msg.frames[frame] \in Frame
  BY <1>1 DEF MsgArray
<1>3. msg.frames[frame].payload_len \in PayloadLength \cup {0}
  BY <1>2 DEF Frame
<1>4. PayloadLength \cup {0} \subseteq Nat
  BY MessageAssumption
<1> QED BY <1>3, <1>4 DEF Payload

Steps == MsgStep /\ BatchStep /\ MapStep /\ JournalStep

(* A parser's own steps, and what frees what it returned, preserve its     *)
(* part of the invariant; every other step leaves all of it alone.         *)
LEMMA InboundNextInv ==
  ASSUME InboundInv, [Next]_inboundVars
  PROVE  InboundInv' /\ Steps
<1> USE DEF InboundInv
<1> DEFINE Quiet == UNCHANGED <<msgVars, batchVars, mapVars, fragVars, jrnVars>>
<1>0. ASSUME Quiet
      PROVE  MsgInv' /\ BatchInv' /\ MapInv' /\ JournalInv' /\ FragInv' /\ Steps
  BY <1>0, MessageSameInv, BatchSameInv, MapSameInv, JournalSameInv, FragSameInv DEF Steps
<1>1. CASE Begin
  <2>1. Quiet /\ StageInv'
    BY <1>1 DEF Begin, StageInv, msgVars, batchVars, mapVars, fragVars, jrnVars, Layer
  <2> QED BY <1>0, <2>1
<1>2. CASE Receive
  <2>1. MsgInv' /\ MsgStep
    BY <1>2, ReadHeaderInv, ReadFrameInv, MessageParsedInv DEF Receive, ParseMessage
  <2>2. StageInv'
    BY <1>2 DEF Receive, StageInv, batchVars, mapVars, fragVars, jrnVars, Layer
  <2> QED BY <1>2, <2>1, <2>2, BatchSameInv, MapSameInv, JournalSameInv, FragSameInv
          DEF Receive, Steps
<1>3. CASE Reject \/ Accept \/ GiveUp
  <2>1. Quiet /\ stage = "message" /\ layer' = layer
    BY <1>3 DEF Reject, Accept, GiveUp
  <2>2. \/ stage' = "done" /\ msgStatus \in Failure /\ frame' = frame
        \/ stage' = "frames" /\ msgStatus = "IPMB_OK" /\ frame' = 1
        \/ /\ stage' = "gave up" /\ msgStatus = "IPMB_OK" /\ msg.frame_count = 0
           /\ frame' = frame
    BY <1>3 DEF Reject, Accept, GiveUp
  <2>3. layer' = "none" /\ frame' \in Nat /\ (stage' = "frames" => frame' > 0)
    <3>1. layer = "none" /\ frame \in Nat
      BY <2>1 DEF StageInv
    <3>2. frame' = frame \/ frame' = 1
      BY <2>2
    <3>3. stage' = "frames" => frame' = 1
      BY <2>2
    <3> QED BY <2>1, <3>1, <3>2, <3>3
  <2>4. StageInv'
    BY <2>1, <2>2, <2>3 DEF StageInv, msgVars, batchVars, mapVars, fragVars, jrnVars
  <2> QED BY <1>0, <2>1, <2>4
<1>4. CASE Pick
  <2>1. /\ Quiet /\ stage = "frames" /\ UNCHANGED <<stage, frame>>
        /\ layer = "none" /\ layer' \in Layer /\ frame <= msg.frame_count
    BY <1>4 DEF Pick
  <2>2. frame \in 1 .. msg.frame_count
    BY <2>1, MessageAssumption DEF StageInv, MsgInv, MsgArray
  <2>3. StageInv'
    BY <2>1, <2>2 DEF StageInv, msgVars, batchVars, mapVars, fragVars, jrnVars
  <2> QED BY <1>0, <2>1, <2>3
<1>5. CASE Decode
  <2>1. layer # "none" /\ UNCHANGED <<msgVars, jrnVars, stage, frame, layer>>
    BY <1>5 DEF Decode
  <2>2. Payload \in SUBSET Nat
    BY <2>1, PayloadIsNat
  <2>3. MsgInv' /\ MsgStep /\ JournalInv' /\ JournalStep
    BY <2>1, MessageSameInv, JournalSameInv
  <2>4. CASE layer = "telemetry" /\ ExtractTelemetry(Payload) /\ UNCHANGED <<mapVars, fragVars>>
    <3>1. BatchInv' /\ BatchStep
      BY <2>4, ExtractTelemetryInv
    <3>2. StageInv'
      BY <2>1, <2>4 DEF StageInv, msgVars, mapVars, fragVars, jrnVars
    <3> QED BY <2>3, <2>4, <3>1, <3>2, MapSameInv, FragSameInv DEF Steps
  <2>5. CASE layer = "registers" /\ DecodeRegisterMap(Payload) /\ UNCHANGED <<batchVars, fragVars>>
    <3>1. MapInv' /\ MapStep
      BY <2>2, <2>5, DecodeRegisterMapInv
    <3>2. StageInv'
      BY <2>1, <2>5 DEF StageInv, msgVars, batchVars, fragVars, jrnVars
    <3> QED BY <2>3, <2>5, <3>1, <3>2, BatchSameInv, FragSameInv DEF Steps
  <2>6. CASE layer = "fragments" /\ ParseFragments(Payload) /\ UNCHANGED <<batchVars, mapVars>>
    <3>1. FragInv'
      BY <2>6, ParseFragmentsInv
    <3>2. StageInv'
      BY <2>1, <2>6 DEF StageInv, msgVars, batchVars, mapVars, jrnVars
    <3> QED BY <2>3, <2>6, <3>1, <3>2, BatchSameInv, MapSameInv DEF Steps
  <2> QED BY <1>5, <2>4, <2>5, <2>6 DEF Decode
<1>6. CASE Drop
  <2>1. /\ stage = "frames" /\ layer' = "none" /\ frame' = frame + 1
        /\ UNCHANGED <<msgVars, jrnVars, stage>>
        /\ DropBatch \/ DropMap \/ DropFragments
    BY <1>6 DEF Drop
  <2>2. MsgInv' /\ MsgStep /\ JournalInv' /\ JournalStep
    BY <2>1, MessageSameInv, JournalSameInv
  <2>3. CASE DropBatch
    <3>1. BatchInv' /\ BatchStep
      BY <2>3, DropBatchInv
    <3>2. StageInv'
      BY <2>1, <2>3 DEF DropBatch, StageInv, msgVars, mapVars, fragVars, jrnVars
    <3> QED BY <2>2, <2>3, <3>1, <3>2, MapSameInv, FragSameInv DEF DropBatch, Steps
  <2>4. CASE DropMap
    <3>1. MapInv' /\ MapStep
      BY <2>4, DropMapInv
    <3>2. StageInv'
      BY <2>1, <2>4 DEF DropMap, StageInv, msgVars, batchVars, fragVars, jrnVars
    <3> QED BY <2>2, <2>4, <3>1, <3>2, BatchSameInv, FragSameInv DEF DropMap, Steps
  <2>5. CASE DropFragments
    <3>1. FragInv'
      BY <2>5, DropFragmentsInv
    <3>2. StageInv'
      BY <2>1, <2>5 DEF DropFragments, StageInv, msgVars, batchVars, mapVars, jrnVars
    <3> QED BY <2>2, <2>5, <3>1, <3>2, BatchSameInv, MapSameInv DEF DropFragments, Steps
  <2> QED BY <2>1, <2>3, <2>4, <2>5
<1>7. CASE Close
  <2>1. MsgInv' /\ MsgStep
    BY <1>7, MessageReleasedInv DEF Close, StageInv
  <2>2. StageInv'
    BY <1>7 DEF Close, StageInv, batchVars, mapVars, fragVars, jrnVars
  <2> QED BY <1>7, <2>1, <2>2, BatchSameInv, MapSameInv, JournalSameInv, FragSameInv
          DEF Close, Steps
<1>8. CASE ReplayBytes
  <2>1. JournalInv' /\ JournalStep
    BY <1>8, ParseJournalInv, JournalReleasedInv, JournalSameInv DEF ReplayBytes
  <2>2. StageInv'
    BY <1>8 DEF ReplayBytes, StageInv, msgVars, batchVars, mapVars, fragVars, jrnVars
  <2> QED BY <1>8, <2>1, <2>2, MessageSameInv, BatchSameInv, MapSameInv, FragSameInv
          DEF ReplayBytes, Steps
<1>9. CASE Ended \/ UNCHANGED inboundVars
  <2>1. Quiet /\ UNCHANGED <<stage, frame, layer>>
    BY <1>9 DEF Ended, inboundVars
  <2>2. StageInv'
    BY <2>1 DEF StageInv, msgVars, batchVars, mapVars, fragVars, jrnVars
  <2> QED BY <1>0, <2>1, <2>2
<1> QED BY <1>1, <1>2, <1>3, <1>4, <1>5, <1>6, <1>7, <1>8, <1>9 DEF Next

LEMMA InboundInvariant == Spec => []InboundInv
BY InboundInitInv, InboundNextInv, PTL DEF Spec

LEMMA MaxIsLargest ==
  ASSUME NEW S \in SUBSET Nat, NEW m \in S, \A k \in S : k <= m
  PROVE  Max(S) = m
<1>1. \A y \in S : m >= y
  OBVIOUS
<1>2. \A x \in S : (\A y \in S : x >= y) => x = m
  OBVIOUS
<1> QED BY <1>1, <1>2 DEF Max

(* The function of the property is the one that FramesFill speaks of: it   *)
(* starts as that one does and goes on as that one does.                   *)
LEMMA FramesFillWhole ==
  ASSUME MsgArray, MsgPlace, msgNext = msg.frame_count + 1
  PROVE  LET end[i \in 0 .. msg.frame_count] ==
               IF i = 0 THEN MessageHeaderLen
               ELSE end[i - 1] + FrameHeaderLen + msg.frames[i].payload_len + CrcLen
         IN  msgPos = end[msg.frame_count]
<1> DEFINE n == msg.frame_count
           Step(f) == [i \in 0 .. n |->
             IF i = 0 THEN MessageHeaderLen
             ELSE f[i - 1] + FrameHeaderLen + msg.frames[i].payload_len + CrcLen]
           end == CHOOSE f : f = Step(f)
<1>1. n \in Nat /\ msgNext - 1 = n
  BY MessageAssumption DEF MsgArray
<1>2. PICK e \in [Nat -> Nat] :
        /\ e[0] = MessageHeaderLen
        /\ \A i \in 1 .. n :
             e[i] = e[i - 1] + FrameHeaderLen + msg.frames[i].payload_len + CrcLen
        /\ e[n] = msgPos
  BY <1>1 DEF MsgPlace, FramesFill
<1>3. \E f : f = Step(f)
  <2> DEFINE f == [i \in 0 .. n |-> e[i]]
  <2>1. ASSUME NEW i \in 0 .. n
        PROVE  f[i] = Step(f)[i]
    <3>1. CASE i = 0
      BY <1>2, <3>1
    <3>2. CASE i # 0
      <4>1. i \in 1 .. n /\ i - 1 \in 0 .. n
        BY <1>1, <3>2
      <4> QED BY <1>2, <3>2, <4>1
    <3> QED BY <3>1, <3>2
  <2>2. f = Step(f)
    BY <2>1
  <2> HIDE DEF f
  <2> QED BY <2>2
<1>4. end = Step(end)
  <2> HIDE DEF Step
  <2> QED BY <1>3
<1> HIDE DEF end
<1> DEFINE S == {i \in Nat : i <= n => end[i] = e[i]}
<1>5. Nat \subseteq S
  <2>1. 0 \in S
    BY <1>1, <1>2, <1>4
  <2>2. ASSUME NEW i \in Nat, i \in S
        PROVE  i + 1 \in S
    <3> SUFFICES ASSUME i + 1 <= n
                 PROVE  end[i + 1] = e[i + 1]
      OBVIOUS
    <3>1. i + 1 \in 1 .. n /\ i + 1 \in 0 .. n /\ (i + 1) - 1 = i /\ i + 1 # 0
      BY <1>1
    <3>2. end[i] = e[i]
      BY <1>1, <2>2
    <3>3. end[i + 1] = end[i] + FrameHeaderLen + msg.frames[i + 1].payload_len + CrcLen
      BY <1>4, <3>1
    <3> QED BY <1>2, <3>1, <3>2, <3>3
  <2> HIDE DEF S
  <2> QED BY <2>1, <2>2, Induction
<1>6. msgPos = end[n]
  BY <1>1, <1>2, <1>5
<1> QED BY <1>6 DEF end

-----------------------------------------------------------------------------

(* Every message that parses is whole, and one with a count and no array   *)
(* has one of the three errors found between the two.                      *)
THEOREM MessageWholeAlways == Spec => []MessageWhole
<1>1. InboundInv => MessageWhole
  <2> SUFFICES ASSUME InboundInv
               PROVE  MessageWhole
    OBVIOUS
  <2>1. MsgInv
    BY DEF InboundInv
  <2>2. HasNoArray => /\ msgStatus \in {"IPMB_ERR_LIMIT", "IPMB_ERR_BAD_CRC", "IPMB_ERR_ALLOC"}
                      /\ msgNext = 1 /\ msgHeap = {}
    BY <2>1 DEF MsgInv
  <2>3. ASSUME msgStatus = "IPMB_OK"
        PROVE  MsgArray /\ MsgPlace /\ msgNext = msg.frame_count + 1
    BY <2>1, <2>3 DEF MsgInv
  <2>4. ASSUME msgStatus = "IPMB_OK"
        PROVE  /\ \A i \in 1 .. msg.frame_count : msg.frames[i].payload
               /\ Within(msgPos, msgLen)
    BY <2>3, <2>4, MessageAssumption DEF MsgArray, MsgPlace
  <2> QED BY <2>2, <2>3, <2>4, FramesFillWhole DEF MessageWhole
<1> QED BY <1>1, InboundInvariant, PTL

(* A field of a register map is copied from behind the payload by no more  *)
(* than the length of the header and the table.                            *)
THEOREM OverreadBoundedAlways == Spec => []OverreadBounded
<1>1. InboundInv => OverreadBounded
  BY DEF InboundInv, MapInv, MapReads
<1> QED BY <1>1, InboundInvariant, PTL

(* A reassembled payload holds at each byte what the last fragment that    *)
(* covers it had there, and 0 where there is none.                         *)
THEOREM FragmentsPlacedAlways == Spec => []FragmentsPlaced
<1>1. InboundInv => FragmentsPlaced
  <2> SUFFICES ASSUME InboundInv, fragStatus = "IPMB_OK", NEW p \in 0 .. fragTotal - 1
               PROVE  LET covering == {i \in 1 .. fragCount : p \in Span(frags[i])}
                      IN  fragBuf[p] = IF covering = {} THEN 0 ELSE Max(covering)
    BY DEF FragmentsPlaced
  <2> DEFINE covering == {i \in 1 .. fragCount : p \in Span(frags[i])}
  <2>1. PlacedUpTo(fragCount)
    BY DEF InboundInv, FragInv
  <2>2. CASE fragBuf[p] = 0 /\ \A i \in 1 .. fragCount : p \notin Span(frags[i])
    BY <2>2
  <2>3. CASE /\ fragBuf[p] \in 1 .. fragCount
             /\ p \in Span(frags[fragBuf[p]])
             /\ \A i \in 1 .. fragCount : p \in Span(frags[i]) => i <= fragBuf[p]
    <3>1. fragBuf[p] \in covering /\ \A i \in covering : i <= fragBuf[p]
      BY <2>3
    <3>2. covering \in SUBSET Nat
      OBVIOUS
    <3> HIDE DEF covering
    <3>3. Max(covering) = fragBuf[p]
      BY <3>1, <3>2, MaxIsLargest
    <3> QED BY <3>1, <3>3 DEF covering
  <2> QED BY <2>1, <2>2, <2>3 DEF PlacedUpTo
<1> QED BY <1>1, InboundInvariant, PTL

(* A fragment is copied to outside of the buffer only if its end does not  *)
(* fit into the word it is computed in.                                    *)
THEOREM OverflowExplainedAlways == Spec => []OverflowExplained
<1>1. InboundInv => OverflowExplained
  BY DEF InboundInv, FragInv, OverflowExplained
<1> QED BY <1>1, InboundInvariant, PTL

(* On every path of the callers, whatever fails, everything is freed, but  *)
(* for the array of a message without frames when ipmb-route gives up.     *)
THEOREM NothingLeftAlways == Spec => []NothingLeft
<1>1. InboundInv => NothingLeft
  <2> SUFFICES ASSUME InboundInv
               PROVE  NothingLeft
    OBVIOUS
  <2> USE DEF InboundInv, Failure
  <2>1. ASSUME stage \in {"done", "gave up"}
        PROVE  batchHeap = {} /\ mapHeap = {} /\ fragHeap = {} /\ jrnHeap = {}
    <3>1. /\ batchStatus = "idle" /\ mapStatus = "idle" /\ fragStatus = "idle"
          /\ jrnStatus \in {"idle"} \cup Failure
      BY <2>1 DEF StageInv
    <3> QED BY <3>1 DEF BatchInv, MapInv, FragInv, JournalInv
  <2>2. ASSUME stage = "done"
        PROVE  msgHeap = {}
    BY <2>2 DEF StageInv, MsgInv
  <2>3. ASSUME stage = "gave up"
        PROVE  msgHeap = {0}
    <3>1. MsgArray /\ msgNext = 0 + 1
      BY <2>3 DEF StageInv, MsgInv
    <3> QED BY <3>1 DEF MsgArray
  <2> QED BY <2>1, <2>2, <2>3 DEF NothingLeft
<1> QED BY <1>1, InboundInvariant, PTL

LEMMA ContractsInit ==
  ASSUME Init
  PROVE  /\ MessageContract!Init /\ BatchContract!Init
         /\ MapContract!Init /\ JournalContract!Init
BY DEF Init, MessageInit, BatchInit, MapInit, JournalInit, PhaseOf, ClaimOf,
   MessageContract!Init, BatchContract!Init, MapContract!Init, JournalContract!Init

(* Each of the four parsers of counted arrays implements AllOrNothing.     *)
THEOREM ParsersAreAllOrNothing == Spec => AllOrNothingParsed
<1>1. Spec => []InboundInv /\ Init /\ [][Next]_inboundVars
  BY InboundInvariant, PTL DEF Spec
<1>2. InboundInv /\ [Next]_inboundVars => MsgStep /\ BatchStep /\ MapStep /\ JournalStep
  BY InboundNextInv DEF Steps
<1>3. Spec => MessageContract!Spec
  BY <1>1, <1>2, ContractsInit, PTL DEF MessageContract!Spec, MsgStep
<1>4. Spec => BatchContract!Spec
  BY <1>1, <1>2, ContractsInit, PTL DEF BatchContract!Spec, BatchStep
<1>5. Spec => MapContract!Spec
  BY <1>1, <1>2, ContractsInit, PTL DEF MapContract!Spec, MapStep
<1>6. Spec => JournalContract!Spec
  BY <1>1, <1>2, ContractsInit, PTL DEF JournalContract!Spec, JournalStep
<1> QED BY <1>3, <1>4, <1>5, <1>6 DEF AllOrNothingParsed

------------------------------------------------------------------------------
(***************************************************************************)
(* The run-length codec.                                                   *)
(***************************************************************************)

Byte == 0 .. MaxRun

LEMMA LargestIs ==
  ASSUME NEW m \in Nat, NEW S \in SUBSET (0 .. m), S # {}
  PROVE  Max(S) \in S /\ \A k \in S : k <= Max(S)
<1> DEFINE T == {n \in Nat : \E k \in S : n = m - k}
<1>0. PICK y \in S : TRUE
  OBVIOUS
<1>1. T \in SUBSET Nat /\ T # {}
  <2>1. m - y \in T
    BY <1>0
  <2> QED BY <2>1
<1>2. PICK n \in T : \A k \in T : n <= k
  <2> HIDE DEF T
  <2> QED BY <1>1, LeastNumber
<1>3. PICK x \in S : n = m - x
  BY <1>2
<1>4. \A k \in S : x >= k
  <2> SUFFICES ASSUME NEW k \in S
               PROVE  x >= k
    OBVIOUS
  <2>1. k \in 0 .. m /\ x \in 0 .. m
    OBVIOUS
  <2>2. m - k \in T
    BY <2>1
  <2>3. n <= m - k
    BY <1>2, <2>2
  <2> HIDE DEF T
  <2> QED BY <1>3, <2>1, <2>3
<1> HIDE DEF T
<1>5. Max(S) \in S /\ \A k \in S : Max(S) >= k
  BY <1>4 DEF Max
<1> QED BY <1>5

Runs(raw, i) ==
  {n \in 1 .. MaxRun : i + n - 1 <= Len(raw) /\ \A k \in 0 .. n - 1 : raw[i + k] = raw[i]}

LEMMA RunIs ==
  ASSUME NEW raw \in Seq(Byte), NEW i \in 1 .. Len(raw)
  PROVE  RunAt(raw, i) \in Runs(raw, i) /\ \A n \in Runs(raw, i) : n <= RunAt(raw, i)
<1>1. Runs(raw, i) \in SUBSET (0 .. MaxRun) /\ MaxRun \in Nat
  BY RleAssumption DEF Runs
<1>2. 1 \in Runs(raw, i)
  BY RleAssumption DEF Runs
<1>3. Max(Runs(raw, i)) \in Runs(raw, i) /\ \A n \in Runs(raw, i) : n <= Max(Runs(raw, i))
  BY <1>1, <1>2, LargestIs
<1> QED BY <1>3 DEF RunAt, Runs

LEMMA RunTypes ==
  ASSUME NEW raw \in Seq(Byte), NEW i \in 1 .. Len(raw)
  PROVE  /\ RunAt(raw, i) \in 1 .. MaxRun
         /\ RunAt(raw, i) % (MaxRun + 1) = RunAt(raw, i)
         /\ i + RunAt(raw, i) \in i + 1 .. Len(raw) + 1
         /\ \A k \in 0 .. RunAt(raw, i) - 1 : raw[i + k] = raw[i]
<1> DEFINE n == RunAt(raw, i)
<1>1. /\ n \in 1 .. MaxRun /\ i + n - 1 <= Len(raw)
      /\ \A k \in 0 .. n - 1 : raw[i + k] = raw[i]
  BY RunIs DEF Runs
<1>2. MaxRun \in Nat
  BY RleAssumption
<1> HIDE DEF n
<1>3. n % (MaxRun + 1) = n
  BY <1>1, <1>2
<1>4. i + n \in i + 1 .. Len(raw) + 1
  BY <1>1, <1>2
<1> QED BY <1>1, <1>3, <1>4 DEF n

(* What the encoder's loop yields: nothing at the end, and otherwise the   *)
(* pair of the run it is at and what it yields from behind this run.       *)
IsEncoder(f, raw, from) ==
  /\ DOMAIN f = from .. Len(raw) + 1
  /\ \A i \in from .. Len(raw) + 1 :
       f[i] = IF i > Len(raw) THEN <<>>
              ELSE <<RunAt(raw, i) % (MaxRun + 1), raw[i]>> \o f[i + RunAt(raw, i)]

LEMMA EncoderUpTo ==
  ASSUME NEW raw \in Seq(Byte)
  PROVE  \E f : IsEncoder(f, raw, 1)
<1> DEFINE n == Len(raw)
           S == {k \in Nat : k <= n => \E f : IsEncoder(f, raw, n + 1 - k)}
<1>0. n \in Nat
  OBVIOUS
<1>1. 0 \in S
  <2>1. IsEncoder([i \in n + 1 .. n + 1 |-> <<>>], raw, n + 1 - 0)
    BY DEF IsEncoder
  <2> QED BY <2>1
<1>2. ASSUME NEW k \in Nat, k \in S
      PROVE  k + 1 \in S
  <2> SUFFICES ASSUME k + 1 <= n
               PROVE  \E f : IsEncoder(f, raw, n + 1 - (k + 1))
    OBVIOUS
  <2>1. PICK f : IsEncoder(f, raw, n + 1 - k)
    BY <1>2
  <2> DEFINE j == n - k
             pair == <<RunAt(raw, j) % (MaxRun + 1), raw[j]>>
             g == [i \in j .. n + 1 |-> IF i = j THEN pair \o f[j + RunAt(raw, j)] ELSE f[i]]
  <2>2. j \in 1 .. n /\ n + 1 - (k + 1) = j /\ n + 1 - k = j + 1
    BY <1>0
  <2> HIDE DEF j
  <2>3. IsEncoder(g, raw, j)
    <3>1. DOMAIN g = j .. n + 1
      OBVIOUS
    <3>2. ASSUME NEW i \in j .. n + 1
          PROVE  g[i] = IF i > n THEN <<>>
                        ELSE <<RunAt(raw, i) % (MaxRun + 1), raw[i]>> \o g[i + RunAt(raw, i)]
      <4>1. CASE i = j
        <5>1. j + RunAt(raw, j) \in j + 1 .. n + 1
          BY <2>2, RunTypes
        <5>2. j + RunAt(raw, j) \in j .. n + 1 /\ j + RunAt(raw, j) # j
          BY <2>2, <5>1
        <5>3. g[j + RunAt(raw, j)] = f[j + RunAt(raw, j)]
          BY <5>2
        <5>4. g[j] = pair \o f[j + RunAt(raw, j)]
          BY <2>2
        <5>5. ~(j > n)
          BY <2>2
        <5> HIDE DEF g
        <5> QED BY <4>1, <5>3, <5>4, <5>5
      <4>2. CASE i # j
        <5>1. i \in j + 1 .. n + 1
          BY <2>2, <4>2
        <5>2. f[i] = IF i > n THEN <<>>
                     ELSE <<RunAt(raw, i) % (MaxRun + 1), raw[i]>> \o f[i + RunAt(raw, i)]
          BY <2>1, <2>2, <5>1 DEF IsEncoder
        <5>3. g[i] = f[i]
          BY <4>2
        <5>4. i <= n => g[i + RunAt(raw, i)] = f[i + RunAt(raw, i)]
          <6> SUFFICES ASSUME i <= n
                       PROVE  g[i + RunAt(raw, i)] = f[i + RunAt(raw, i)]
            OBVIOUS
          <6>1. i + RunAt(raw, i) \in i + 1 .. n + 1
            BY <2>2, <5>1, RunTypes
          <6>2. i + RunAt(raw, i) \in j .. n + 1 /\ i + RunAt(raw, i) # j
            BY <2>2, <5>1, <6>1
          <6> QED BY <6>2
        <5>5. i > n \/ i <= n
          BY <1>0, <5>1
        <5> HIDE DEF g
        <5> QED BY <5>2, <5>3, <5>4, <5>5
      <4> QED BY <4>1, <4>2
    <3> HIDE DEF g
    <3> QED BY <3>1, <3>2 DEF IsEncoder
  <2> QED BY <2>2, <2>3
<1>3. Nat \subseteq S
  <2> HIDE DEF S
  <2> QED BY <1>1, <1>2, Induction
<1>4. n + 1 - n = 1
  BY <1>0
<1> QED BY <1>0, <1>3, <1>4

LEMMA EncodedFromIs ==
  ASSUME NEW raw \in Seq(Byte)
  PROVE  /\ EncodedFrom(raw, Len(raw) + 1) = <<>>
         /\ \A i \in 1 .. Len(raw) :
              EncodedFrom(raw, i) =
                <<RunAt(raw, i), raw[i]>> \o EncodedFrom(raw, i + RunAt(raw, i))
<1> DEFINE n == Len(raw)
           Step(f) == [i \in 1 .. n + 1 |->
             IF i > n THEN <<>>
             ELSE <<RunAt(raw, i) % (MaxRun + 1), raw[i]>> \o f[i + RunAt(raw, i)]]
           from == CHOOSE f : f = Step(f)
<1>1. n \in Nat
  OBVIOUS
<1>2. PICK f : IsEncoder(f, raw, 1)
  BY EncoderUpTo
<1>3. [i \in 1 .. n + 1 |-> f[i]] = Step([i \in 1 .. n + 1 |-> f[i]])
  <2> DEFINE h == [i \in 1 .. n + 1 |-> f[i]]
  <2>1. ASSUME NEW i \in 1 .. n + 1
        PROVE  h[i] = Step(h)[i]
    <3>1. CASE i > n
      BY <1>2, <3>1 DEF IsEncoder
    <3>2. CASE i <= n
      <4>1. i \in 1 .. n /\ ~(i > n)
        BY <1>1, <3>2
      <4>2. i + RunAt(raw, i) \in 1 .. n + 1
        BY <1>1, <4>1, RunTypes
      <4>3. h[i + RunAt(raw, i)] = f[i + RunAt(raw, i)]
        BY <4>2
      <4>4. f[i] = <<RunAt(raw, i) % (MaxRun + 1), raw[i]>> \o f[i + RunAt(raw, i)]
        BY <1>2, <4>1 DEF IsEncoder
      <4>5. h[i] = f[i]
        OBVIOUS
      <4>6. Step(h)[i] = <<RunAt(raw, i) % (MaxRun + 1), raw[i]>> \o h[i + RunAt(raw, i)]
        BY <4>1
      <4> HIDE DEF h, Step
      <4> QED BY <4>3, <4>4, <4>5, <4>6
    <3> QED BY <1>1, <3>1, <3>2
  <2>2. h = [i \in 1 .. n + 1 |-> h[i]] /\ Step(h) = [i \in 1 .. n + 1 |-> Step(h)[i]]
    OBVIOUS
  <2> HIDE DEF h, Step
  <2> QED BY <2>1, <2>2 DEF h
<1>4. from = Step(from)
  <2> HIDE DEF Step
  <2> QED BY <1>3
<1>5. \A i \in 1 .. n + 1 : EncodedFrom(raw, i) = from[i]
  BY Zenon DEF EncodedFrom
<1> HIDE DEF from
<1>6. from[n + 1] = <<>>
  BY <1>1, <1>4
<1>7. ASSUME NEW i \in 1 .. n
      PROVE  EncodedFrom(raw, i) =
               <<RunAt(raw, i), raw[i]>> \o EncodedFrom(raw, i + RunAt(raw, i))
  <2>1. i \in 1 .. n + 1 /\ ~(i > n)
    BY <1>1
  <2>2. from[i] = <<RunAt(raw, i) % (MaxRun + 1), raw[i]>> \o from[i + RunAt(raw, i)]
    BY <1>4, <2>1
  <2>3. RunAt(raw, i) % (MaxRun + 1) = RunAt(raw, i) /\ i + RunAt(raw, i) \in 1 .. n + 1
    BY <1>1, RunTypes
  <2> HIDE DEF Step, n
  <2> QED BY <1>5, <2>1, <2>2, <2>3
<1>8. n + 1 \in 1 .. n + 1
  BY <1>1
<1> QED BY <1>5, <1>6, <1>7, <1>8

LEMMA EncodedTypes ==
  ASSUME NEW raw \in Seq(Byte)
  PROVE  \A i \in 1 .. Len(raw) + 1 :
           /\ EncodedFrom(raw, i) \in Seq(Byte)
           /\ Len(EncodedFrom(raw, i)) <= 2 * (Len(raw) + 1 - i)
<1> DEFINE n == Len(raw)
           Typed(i) == /\ EncodedFrom(raw, i) \in Seq(Byte)
                       /\ Len(EncodedFrom(raw, i)) <= 2 * (n + 1 - i)
           S == {k \in Nat : \A i \in 1 .. n + 1 : i >= n + 1 - k => Typed(i)}
<1>0. n \in Nat
  OBVIOUS
<1>1. 0 \in S
  <2>1. Typed(n + 1)
    <3>1. EncodedFrom(raw, n + 1) = <<>>
      BY EncodedFromIs
    <3>2. PICK none : none = EncodedFrom(raw, n + 1)
      OBVIOUS
    <3>3. none \in Seq(Byte) /\ Len(none) = 0
      <4>1. none = <<>>
        BY <3>1, <3>2
      <4> QED BY <4>1, EmptySeq
    <3>4. 2 * (n + 1 - (n + 1)) = 0
      BY <1>0
    <3> HIDE DEF n
    <3> QED BY <3>2, <3>3, <3>4
  <2>2. \A i \in 1 .. n + 1 : i >= n + 1 - 0 => i = n + 1
    BY <1>0
  <2> HIDE DEF Typed
  <2> QED BY <2>1, <2>2
<1>2. ASSUME NEW k \in Nat, k \in S
      PROVE  k + 1 \in S
  <2> SUFFICES ASSUME NEW i \in 1 .. n + 1, i >= n + 1 - (k + 1)
               PROVE  Typed(i)
    OBVIOUS
  <2>1. CASE i >= n + 1 - k
    BY <1>2, <2>1
  <2>2. CASE ~(i >= n + 1 - k)
    <3> DEFINE j == i + RunAt(raw, i)
               rest == EncodedFrom(raw, j)
    <3>1. i \in 1 .. n /\ i = n - k
      BY <1>0, <2>2
    <3>2. j \in i + 1 .. n + 1 /\ RunAt(raw, i) \in Byte
      <4>1. MaxRun \in Nat /\ RunAt(raw, i) \in 1 .. MaxRun /\ j \in i + 1 .. Len(raw) + 1
        BY <3>1, RunTypes, RleAssumption
      <4> HIDE DEF j
      <4> QED BY <4>1 DEF Byte
    <3>3. rest \in Seq(Byte) /\ Len(rest) <= 2 * (n + 1 - j)
      <4> HIDE DEF j
      <4>1. j \in 1 .. n + 1 /\ j >= n + 1 - k
        BY <1>0, <3>1, <3>2
      <4>2. Typed(j)
        BY <1>2, <4>1
      <4> QED BY <4>2
    <3>4. EncodedFrom(raw, i) = <<RunAt(raw, i), raw[i]>> \o rest
      BY <3>1, EncodedFromIs
    <3> HIDE DEF rest, j
    <3>5. <<RunAt(raw, i), raw[i]>> \in Seq(Byte) /\ Len(<<RunAt(raw, i), raw[i]>>) = 2
      <4>1. raw[i] \in Byte
        BY <3>1
      <4> QED BY <3>2, <4>1
    <3>6. EncodedFrom(raw, i) \in Seq(Byte) /\ Len(EncodedFrom(raw, i)) = 2 + Len(rest)
      BY <3>3, <3>4, <3>5, ConcatProperties
    <3>7. Len(rest) \in Nat /\ 2 + Len(rest) <= 2 * (n + 1 - i)
      BY <1>0, <3>1, <3>2, <3>3
    <3> QED BY <3>6, <3>7
  <2> QED BY <2>1, <2>2
<1>3. Nat \subseteq S
  <2> HIDE DEF S
  <2> QED BY <1>1, <1>2, Induction
<1>4. n \in S
  BY <1>0, <1>3
<1>5. \A i \in 1 .. n + 1 : Typed(i)
  BY <1>0, <1>4
<1> QED BY <1>5

(* Place i is where a run of the encoder ends, or the start: what holds of *)
(* i and, of each place before it, if it holds of where the run from there *)
(* ends, holds of the start.                                               *)
IsBorder(raw, i) ==
  \A S \in SUBSET (1 .. Len(raw) + 1) :
    (i \in S /\ \A j \in 1 .. i - 1 : j + RunAt(raw, j) \in S => j \in S) => 1 \in S

LEMMA NextBorder ==
  ASSUME NEW raw \in Seq(Byte), NEW i \in 1 .. Len(raw), IsBorder(raw, i)
  PROVE  IsBorder(raw, i + RunAt(raw, i))
<1> DEFINE e == i + RunAt(raw, i)
<1>1. e \in i + 1 .. Len(raw) + 1
  BY RunTypes
<1> SUFFICES ASSUME NEW S \in SUBSET (1 .. Len(raw) + 1), e \in S,
                    \A j \in 1 .. e - 1 : j + RunAt(raw, j) \in S => j \in S
             PROVE  1 \in S
  BY DEF IsBorder
<1>2. i \in 1 .. e - 1 /\ \A j \in 1 .. i - 1 : j \in 1 .. e - 1
  BY <1>1
<1>3. i \in S
  BY <1>2
<1>4. \A j \in 1 .. i - 1 : j + RunAt(raw, j) \in S => j \in S
  BY <1>2
<1> QED BY <1>3, <1>4 DEF IsBorder

(* Up to a border the runs are those of what lies before it.               *)
LEMMA RunBefore ==
  ASSUME NEW raw \in Seq(Byte), NEW i \in 1 .. Len(raw) + 1, NEW j \in 1 .. i - 1,
         j + RunAt(raw, j) <= i
  PROVE  RunAt(SubSeq(raw, 1, i - 1), j) = RunAt(raw, j)
<1> DEFINE p == SubSeq(raw, 1, i - 1)
           n == RunAt(raw, j)
           m == RunAt(p, j)
<1>1. p \in Seq(Byte) /\ Len(p) = i - 1 /\ \A k \in 1 .. i - 1 : p[k] = raw[k]
  BY SubSeqProperties
<1> HIDE DEF p
<1>2. j \in 1 .. Len(p) /\ j \in 1 .. Len(raw) /\ Len(raw) \in Nat
  BY <1>1
<1>3. n \in Runs(raw, j) /\ \A k \in Runs(raw, j) : k <= n
  BY <1>2, RunIs
<1>4. m \in Runs(p, j) /\ \A k \in Runs(p, j) : k <= m
  BY <1>1, <1>2, RunIs
<1> HIDE DEF n, m
<1>5. n \in Runs(p, j)
  <2>1. n \in 1 .. MaxRun /\ j + n <= i /\ \A k \in 0 .. n - 1 : raw[j + k] = raw[j]
    BY <1>3 DEF Runs, n
  <2>2. MaxRun \in Nat
    BY RleAssumption
  <2>3. \A k \in 0 .. n - 1 : p[j + k] = p[j]
    <3> SUFFICES ASSUME NEW k \in 0 .. n - 1
                 PROVE  p[j + k] = p[j]
      OBVIOUS
    <3>1. j + k \in 1 .. i - 1 /\ j \in 1 .. i - 1
      BY <2>1, <2>2
    <3> QED BY <1>1, <2>1, <3>1
  <2>4. j + n - 1 <= Len(p)
    BY <1>1, <2>1, <2>2
  <2> QED BY <2>1, <2>3, <2>4 DEF Runs
<1>6. m \in Runs(raw, j)
  <2>1. m \in 1 .. MaxRun /\ j + m - 1 <= Len(p) /\ \A k \in 0 .. m - 1 : p[j + k] = p[j]
    BY <1>4 DEF Runs
  <2>2. MaxRun \in Nat
    BY RleAssumption
  <2>3. \A k \in 0 .. m - 1 : raw[j + k] = raw[j]
    <3> SUFFICES ASSUME NEW k \in 0 .. m - 1
                 PROVE  raw[j + k] = raw[j]
      OBVIOUS
    <3>1. j + k \in 1 .. i - 1 /\ j \in 1 .. i - 1
      BY <1>1, <2>1, <2>2
    <3> QED BY <1>1, <2>1, <3>1
  <2>4. j + m - 1 <= Len(raw)
    BY <1>1, <2>1, <2>2
  <2> QED BY <2>1, <2>3, <2>4 DEF Runs
<1>7. n \in Nat /\ m \in Nat
  BY <1>5, <1>6 DEF Runs
<1>8. n = m
  BY <1>3, <1>4, <1>5, <1>6, <1>7
<1> QED BY <1>8 DEF n, m, p

(* Cut at a border, data is encoded part by part.                          *)
LEMMA EncodedInParts ==
  ASSUME NEW raw \in Seq(Byte), NEW i \in 1 .. Len(raw) + 1, IsBorder(raw, i)
  PROVE  RleEncoded(raw) = RleEncoded(SubSeq(raw, 1, i - 1)) \o EncodedFrom(raw, i)
<1> DEFINE p == SubSeq(raw, 1, i - 1)
           rest == EncodedFrom(raw, i)
           S == {j \in 1 .. i : EncodedFrom(raw, j) = EncodedFrom(p, j) \o rest}
<1>0. Len(raw) \in Nat
  OBVIOUS
<1>1. p \in Seq(Byte) /\ Len(p) = i - 1 /\ \A k \in 1 .. i - 1 : p[k] = raw[k]
  BY SubSeqProperties
<1>2. rest \in Seq(Byte)
  BY EncodedTypes
<1>3. i \in S
  <2>1. EncodedFrom(p, i) = <<>>
    <3>1. Len(p) + 1 = i
      BY <1>1
    <3> HIDE DEF p
    <3> QED BY <1>1, <3>1, EncodedFromIs
  <2>2. <<>> \o rest = rest
    <3> HIDE DEF rest
    <3> QED BY <1>2, ConcatEmptySeq
  <2>3. EncodedFrom(raw, i) = EncodedFrom(p, i) \o rest
    BY Zenon, <2>1, <2>2
  <2> HIDE DEF p, rest
  <2> QED BY <2>3
<1>4. ASSUME NEW j \in 1 .. i - 1, j + RunAt(raw, j) \in S
      PROVE  j \in S
  <2> HIDE DEF p
  <2> DEFINE n == RunAt(raw, j)
             tail == EncodedFrom(p, j + n)
             pair == <<n, raw[j]>>
  <2>1. j \in 1 .. Len(raw) /\ j \in 1 .. Len(p)
    BY <1>0, <1>1
  <2>2. n \in 1 .. MaxRun /\ j + n <= i /\ j + n \in 1 .. Len(p) + 1 /\ n \in Byte
    <3>1. n \in 1 .. MaxRun /\ MaxRun \in Nat
      BY <2>1, RunTypes, RleAssumption
    <3>2. j + n \in 1 .. i
      BY <1>4
    <3> HIDE DEF n
    <3> QED BY <1>1, <3>1, <3>2 DEF Byte
  <2>3. RunAt(p, j) = n /\ p[j] = raw[j] /\ raw[j] \in Byte
    BY <1>1, <2>1, <2>2, RunBefore DEF p
  <2>4. EncodedFrom(raw, j) = pair \o EncodedFrom(raw, j + n)
    BY <2>1, EncodedFromIs
  <2>5. EncodedFrom(p, j) = pair \o tail
    BY <1>1, <2>1, <2>3, EncodedFromIs
  <2>6. EncodedFrom(raw, j + n) = tail \o rest
    BY <1>4
  <2>7. tail \in Seq(Byte) /\ pair \in Seq(Byte)
    <3>1. tail \in Seq(Byte)
      BY <1>1, <2>2, EncodedTypes
    <3> QED BY <2>2, <2>3, <3>1
  <2> HIDE DEF tail, pair, rest, n
  <2>8. pair \o (tail \o rest) = (pair \o tail) \o rest
    BY <1>2, <2>7, ConcatAssociative, SMTT(60)
  <2>9. j \in 1 .. i
    OBVIOUS
  <2> QED BY <2>4, <2>5, <2>6, <2>8, <2>9
<1>5. S \in SUBSET (1 .. Len(raw) + 1)
  OBVIOUS
<1>6. 1 \in S
  <2> HIDE DEF S
  <2> QED BY <1>3, <1>4, <1>5 DEF IsBorder
<1> QED BY <1>6 DEF RleEncoded

(* The decoder has read the pairs of the runs before place i, and written  *)
(* the bytes before it; the pairs from there on are what the encoder       *)
(* yields from place i on.                                                 *)
DecodedUpTo(raw, i) ==
  LET whole == RleEncoded(raw)
      rest == EncodedFrom(raw, i)
  IN /\ IsBorder(raw, i)
     /\ rleOut = SubSeq(raw, 1, i - 1)
     /\ Len(rleWire) <= Len(whole) /\ \A k \in 1 .. Len(rleWire) : rleWire[k] = whole[k]
     /\ Len(whole) = rlePos + Len(rest)
     /\ \A k \in 1 .. Len(rest) : whole[rlePos + k] = rest[k]

RleInv ==
  /\ rleStatus = "decoding" => rleCap \in Nat \ {0} /\ Len(rleOut) <= rleCap
  /\ rleStatus \in {"decoding", "IPMB_OK"} =>
       /\ rleOut \in Seq(Byte) /\ rleWire \in Seq(Byte)
       /\ rlePos \in Nat /\ rlePos <= Len(rleWire) /\ rlePos % 2 = 0
       /\ rleData \subseteq RleData
       /\ \A raw \in rleData : \E i \in 1 .. Len(raw) + 1 : DecodedUpTo(raw, i)
  /\ rleStatus = "IPMB_OK" => rlePos + 1 >= Len(rleWire)

LEMMA RleInitInv == RleInit => RleInv
BY DEF RleInit, RleInv

LEMMA RleStartKeeps == RleStart => RleInv'
<1> SUFFICES ASSUME RleStart
             PROVE  RleInv'
  OBVIOUS
<1>1. /\ rlePos' = 0 /\ rleOut' = <<>> /\ rleCap' = FirstCap
      /\ rleStatus' # "IPMB_OK"
  BY DEF RleStart
<1>2. CASE rleData' = {} /\ rleWire' \in RleWire
  <2>1. rleWire' \in Seq(Byte) /\ rleOut' \in Seq(Byte) /\ Len(rleOut') = 0
    BY <1>1, <1>2, RleAssumption, EmptySeq DEF Byte
  <2> QED BY <1>1, <1>2, <2>1, RleAssumption DEF RleInv
<1>3. ASSUME NEW raw \in RleData, rleData' = {raw}, NEW n \in 0 .. Len(RleEncoded(raw)),
             rleWire' = SubSeq(RleEncoded(raw), 1, n)
      PROVE  RleInv'
  <2> DEFINE whole == RleEncoded(raw)
  <2>1. raw \in Seq(Byte) /\ Len(raw) \in Nat
    BY RleAssumption DEF Byte
  <2>2. whole \in Seq(Byte)
    BY <2>1, EncodedTypes DEF RleEncoded
  <2>3. /\ rleWire' \in Seq(Byte) /\ Len(rleWire') = n
        /\ \A k \in 1 .. n : rleWire'[k] = whole[k]
    <3> HIDE DEF whole
    <3> QED BY <1>3, <2>2, SubSeqProperties DEF whole
  <2>4. IsBorder(raw, 1)
    BY DEF IsBorder
  <2>5. SubSeq(raw, 1, 1 - 1) = <<>>
    BY SubSeqEmpty
  <2>6. rleOut' \in Seq(Byte) /\ Len(rleOut') = 0
    BY <1>1, EmptySeq
  <2>7. DecodedUpTo(raw, 1)'
    <3>1. whole = EncodedFrom(raw, 1)
      BY DEF RleEncoded
    <3>2. Len(whole) \in Nat /\ \A k \in 1 .. Len(whole) : 0 + k = k
      BY <2>2
    <3>3. Len(rleWire') <= Len(whole)
      BY <2>3
    <3> HIDE DEF whole
    <3>4. Len(whole) = rlePos' + Len(EncodedFrom(raw, 1))
      BY <1>1, <3>1, <3>2
    <3>5. \A k \in 1 .. Len(EncodedFrom(raw, 1)) : whole[rlePos' + k] = EncodedFrom(raw, 1)[k]
      BY <1>1, <3>1, <3>2
    <3>6. rleOut' = SubSeq(raw, 1, 1 - 1)
      BY <1>1, <2>5
    <3> QED BY <2>3, <2>4, <3>3, <3>4, <3>5, <3>6 DEF DecodedUpTo, whole
  <2>8. \A r \in rleData' : \E i \in 1 .. Len(r) + 1 : DecodedUpTo(r, i)'
    <3>1. 1 \in 1 .. Len(raw) + 1
      BY <2>1
    <3> QED BY <1>3, <2>7, <3>1
  <2>9. rlePos' \in Nat /\ rlePos' <= Len(rleWire') /\ rlePos' % 2 = 0
    BY <1>1, <2>3
  <2>10. rleCap' \in Nat \ {0} /\ Len(rleOut') <= rleCap'
    BY <1>1, <2>6, RleAssumption
  <2> HIDE DEF whole
  <2> QED BY <1>1, <1>3, <2>3, <2>6, <2>8, <2>9, <2>10 DEF RleInv
<1> QED BY <1>2, <1>3 DEF RleStart

LEMMA RleGrownEnough ==
  ASSUME NEW need \in Nat, rleCap \in Nat \ {0}
  PROVE  RleGrown(need) \in Nat \ {0} /\ need <= RleGrown(need)
<1> DEFINE g == CHOOSE g : IsGrow(g, need)
<1>1. IsGrow(g, need)
  BY GrowExists
<1>2. RleGrown(need) = g[rleCap]
  BY Zenon DEF RleGrown, IsGrow
<1> HIDE DEF g
<1>3. RleGrown(need) \in Nat /\ need <= RleGrown(need)
  BY <1>1, <1>2, GrowEnds
<1>4. CASE need = 0
  <2>1. g[rleCap] = rleCap
    BY <1>1, <1>4 DEF IsGrow
  <2> QED BY <1>2, <1>3, <2>1
<1>5. CASE need # 0
  BY <1>3, <1>5
<1> QED BY <1>4, <1>5

LEMMA PairDecoded ==
  ASSUME NEW raw \in Seq(Byte), NEW i \in 1 .. Len(raw) + 1, DecodedUpTo(raw, i),
         rlePos \in Nat, rleWire \in Seq(Byte), rlePos + 1 < Len(rleWire),
         rlePos' = rlePos + 2, rleWire' = rleWire,
         rleOut' = rleOut \o [k \in 1 .. rleWire[rlePos + 1] |-> rleWire[rlePos + 2]]
  PROVE  \E j \in 1 .. Len(raw) + 1 : DecodedUpTo(raw, j)'
<1> DEFINE whole == RleEncoded(raw)
           rest == EncodedFrom(raw, i)
           run == RunAt(raw, i)
           j == i + run
           next == EncodedFrom(raw, j)
<1>0. Len(raw) \in Nat /\ MaxRun \in Nat
  BY RleAssumption
<1>1. /\ IsBorder(raw, i) /\ rleOut = SubSeq(raw, 1, i - 1)
      /\ Len(rleWire) <= Len(whole) /\ \A k \in 1 .. Len(rleWire) : rleWire[k] = whole[k]
      /\ Len(whole) = rlePos + Len(rest)
      /\ \A k \in 1 .. Len(rest) : whole[rlePos + k] = rest[k]
  BY DEF DecodedUpTo
<1>2. whole \in Seq(Byte) /\ rest \in Seq(Byte)
  <2>1. 1 \in 1 .. Len(raw) + 1
    BY <1>0
  <2> QED BY <2>1, EncodedTypes DEF RleEncoded
<1>3. Len(rest) >= 2
  <2> HIDE DEF whole, rest
  <2>1. Len(whole) \in Nat /\ Len(rest) \in Nat /\ Len(rleWire) \in Nat
    BY <1>2
  <2> QED BY <1>1, <2>1
<1>4. i \in 1 .. Len(raw)
  <2> SUFFICES ASSUME i = Len(raw) + 1
               PROVE  FALSE
    BY <1>0
  <2>1. Len(rest) <= 2 * (Len(raw) + 1 - i)
    BY EncodedTypes
  <2>2. 2 * (Len(raw) + 1 - i) = 0 /\ Len(rest) \in Nat
    BY <1>0, <1>2
  <2> HIDE DEF rest
  <2> QED BY <1>3, <2>1, <2>2
<1>5. /\ run \in 1 .. MaxRun /\ j \in i + 1 .. Len(raw) + 1
      /\ \A k \in 0 .. run - 1 : raw[i + k] = raw[i]
  BY <1>4, RunTypes
<1>6. rest = <<run, raw[i]>> \o next
  BY <1>4, EncodedFromIs
<1>7. next \in Seq(Byte)
  <2> HIDE DEF j
  <2>1. j \in 1 .. Len(raw) + 1
    BY <1>5
  <2> QED BY <2>1, EncodedTypes
<1>8. raw[i] \in Byte /\ run \in Byte
  <2>1. raw[i] \in Byte
    BY <1>4, ElementOfSeq
  <2> HIDE DEF run
  <2> QED BY <1>0, <1>5, <2>1 DEF Byte
<1>9. IsBorder(raw, j)
  BY <1>1, <1>4, NextBorder
<1> HIDE DEF whole, rest, next, run, j
<1>10. /\ Len(rest) = 2 + Len(next) /\ rest[1] = run /\ rest[2] = raw[i]
       /\ \A k \in 1 .. Len(next) : rest[2 + k] = next[k]
  <2> DEFINE pair == <<run, raw[i]>>
  <2>1. pair \in Seq(Byte) /\ Len(pair) = 2 /\ pair[1] = run /\ pair[2] = raw[i]
    BY <1>8
  <2> HIDE DEF pair
  <2>2. /\ Len(pair \o next) = Len(pair) + Len(next)
        /\ \A k \in 1 .. Len(pair) + Len(next) : (pair \o next)[k] =
             IF k <= Len(pair) THEN pair[k] ELSE next[k - Len(pair)]
    BY <1>7, <2>1, ConcatProperties
  <2>3. Len(next) \in Nat /\ rest = pair \o next
    BY <1>6, <1>7 DEF pair
  <2>4. /\ Len(rest) = 2 + Len(next)
        /\ \A k \in 1 .. 2 + Len(next) : rest[k] = IF k <= 2 THEN pair[k] ELSE next[k - 2]
    BY <2>1, <2>2, <2>3
  <2>5. rest[1] = run /\ rest[2] = raw[i]
    BY <2>1, <2>3, <2>4
  <2>6. ASSUME NEW k \in 1 .. Len(next)
        PROVE  rest[2 + k] = next[k]
    <3>1. 2 + k \in 1 .. 2 + Len(next) /\ ~(2 + k <= 2) /\ (2 + k) - 2 = k
      BY <2>3
    <3> QED BY <2>4, <3>1
  <2> QED BY <2>4, <2>5, <2>6
<1>11. rleWire[rlePos + 1] = run /\ rleWire[rlePos + 2] = raw[i]
  <2>1. rlePos + 1 \in 1 .. Len(rleWire) /\ rlePos + 2 \in 1 .. Len(rleWire)
    OBVIOUS
  <2>2. 1 \in 1 .. Len(rest) /\ 2 \in 1 .. Len(rest)
    BY <1>2, <1>3
  <2> QED BY <1>1, <1>10, <2>1, <2>2
<1>12. rleOut' = SubSeq(raw, 1, j - 1)
  <2> DEFINE more == [k \in 1 .. run |-> raw[i]]
             before == SubSeq(raw, 1, i - 1)
             upTo == SubSeq(raw, 1, j - 1)
  <2>1. j - 1 = (i - 1) + run /\ j - 1 <= Len(raw) /\ j = i + run /\ run \in Nat
    BY <1>0, <1>5 DEF j
  <2>2. before \in Seq(Byte) /\ Len(before) = i - 1 /\ \A k \in 1 .. i - 1 : before[k] = raw[k]
    BY SubSeqProperties
  <2>3. upTo \in Seq(Byte) /\ Len(upTo) = j - 1 /\ \A k \in 1 .. j - 1 : upTo[k] = raw[k]
    <3>1. j - 1 \in Nat /\ \A k \in 1 .. j - 1 : raw[k] \in Byte
      BY <2>1
    <3> QED BY <3>1, SubSeqProperties
  <2>4. more \in Seq(Byte) /\ Len(more) = run /\ \A k \in 1 .. run : more[k] = raw[i]
    BY <1>8, <2>1
  <2>5. rleOut' = before \o more
    BY <1>1, <1>11
  <2> HIDE DEF more, before, upTo
  <2>6. /\ before \o more \in Seq(Byte) /\ Len(before \o more) = Len(before) + Len(more)
        /\ \A k \in 1 .. Len(before) + Len(more) : (before \o more)[k] =
             IF k <= Len(before) THEN before[k] ELSE more[k - Len(before)]
    BY <2>2, <2>4, ConcatProperties
  <2>7. ASSUME NEW k \in 1 .. j - 1
        PROVE  (before \o more)[k] = upTo[k]
    <3>1. CASE k <= i - 1
      BY <2>1, <2>2, <2>3, <2>4, <2>6, <3>1
    <3>2. CASE k > i - 1
      <4>1. k - i \in 0 .. run - 1 /\ i + (k - i) = k /\ k - (i - 1) \in 1 .. run
        BY <2>1, <3>2
      <4>2. raw[k] = raw[i]
        <5>1. PICK n \in 0 .. run - 1 : i + n = k
          BY <4>1
        <5> QED BY <1>5, <5>1
      <4>3. (before \o more)[k] = more[k - (i - 1)]
        BY <2>1, <2>2, <2>4, <2>6, <3>2
      <4> QED BY <2>3, <2>4, <4>1, <4>2, <4>3
    <3>3. k <= i - 1 \/ k > i - 1
      OBVIOUS
    <3> QED BY Zenon, <3>1, <3>2, <3>3
  <2>8. Len(before \o more) = Len(upTo)
    BY <2>1, <2>2, <2>3, <2>4, <2>6
  <2>9. before \o more = upTo
    BY <2>3, <2>6, <2>7, <2>8, SeqEqual
  <2> QED BY <2>5, <2>9 DEF upTo
<1>13. /\ Len(whole) = rlePos' + Len(next)
       /\ \A k \in 1 .. Len(next) : whole[rlePos' + k] = next[k]
  <2>1. Len(next) \in Nat /\ Len(rest) \in Nat /\ Len(whole) \in Nat
    BY <1>2, <1>7
  <2>2. ASSUME NEW k \in 1 .. Len(next)
        PROVE  whole[rlePos' + k] = next[k]
    <3>1. 2 + k \in 1 .. Len(rest) /\ rlePos' + k = rlePos + (2 + k)
      BY <1>10, <2>1
    <3> QED BY <1>1, <1>10, <3>1
  <2> QED BY <1>1, <1>10, <2>1, <2>2
<1>14. DecodedUpTo(raw, j)'
  BY <1>1, <1>9, <1>12, <1>13 DEF DecodedUpTo, whole, next
<1>15. j \in 1 .. Len(raw) + 1
  BY <1>5
<1> QED BY <1>14, <1>15

LEMMA RlePairKeeps == RleInv /\ RlePair => RleInv'
<1> SUFFICES ASSUME RleInv, RlePair
             PROVE  RleInv'
  OBVIOUS
<1>1. /\ rleStatus = "decoding" /\ rleCap \in Nat \ {0}
      /\ rleOut \in Seq(Byte) /\ rleWire \in Seq(Byte)
      /\ rlePos \in Nat /\ rlePos % 2 = 0 /\ rlePos + 1 < Len(rleWire)
      /\ rleData \subseteq RleData
      /\ \A raw \in rleData : \E i \in 1 .. Len(raw) + 1 : DecodedUpTo(raw, i)
      /\ UNCHANGED <<rleData, rleWire>>
  BY DEF RleInv, RlePair
<1> DEFINE run == rleWire[rlePos + 1]
           byte == rleWire[rlePos + 2]
           more == [k \in 1 .. run |-> byte]
<1>2. CASE rleStatus' = "IPMB_ERR_ALLOC"
  BY <1>2 DEF RleInv
<1>3. CASE /\ rleOut' = rleOut \o more /\ rleCap' = RleGrown(Len(rleOut) + run)
           /\ rlePos' = rlePos + 2 /\ UNCHANGED rleStatus
  <2>1. run \in Byte /\ byte \in Byte /\ run \in Nat
    BY <1>1, RleAssumption DEF Byte
  <2>2. more \in Seq(Byte) /\ Len(more) = run
    <3> HIDE DEF run, byte
    <3> QED BY <2>1
  <2>3. rleOut' \in Seq(Byte) /\ Len(rleOut') = Len(rleOut) + run
    <3> HIDE DEF more, run
    <3> QED BY <1>1, <1>3, <2>2, ConcatProperties
  <2>4. rleCap' \in Nat \ {0} /\ Len(rleOut') <= rleCap'
    <3>1. Len(rleOut) + run \in Nat
      BY <1>1, <2>1
    <3> HIDE DEF run, more
    <3> QED BY <1>1, <1>3, <2>3, <3>1, RleGrownEnough
  <2>5. rlePos' \in Nat /\ rlePos' <= Len(rleWire') /\ rlePos' % 2 = 0
    BY <1>1, <1>3
  <2>6. ASSUME NEW raw \in rleData'
        PROVE  \E j \in 1 .. Len(raw) + 1 : DecodedUpTo(raw, j)'
    <3>1. raw \in rleData /\ raw \in Seq(Byte)
      BY <1>1, RleAssumption DEF Byte
    <3>2. PICK i \in 1 .. Len(raw) + 1 : DecodedUpTo(raw, i)
      BY <1>1, <3>1
    <3> QED BY <1>1, <1>3, <3>1, <3>2, PairDecoded
  <2>7. rleStatus' = "decoding" /\ rleWire' \in Seq(Byte) /\ rleData' \subseteq RleData
    BY <1>1, <1>3
  <2> HIDE DEF run, byte, more
  <2> QED BY <2>3, <2>4, <2>5, <2>6, <2>7 DEF RleInv
<1> QED BY <1>2, <1>3 DEF RlePair

LEMMA RleDoneKeeps == RleInv /\ (RleDone \/ UNCHANGED rleVars) => RleInv'
<1> SUFFICES ASSUME RleInv, RleDone \/ UNCHANGED rleVars
             PROVE  RleInv'
  OBVIOUS
<1>1. UNCHANGED <<rleData, rleWire, rlePos, rleOut, rleCap>>
  BY DEF RleDone, rleVars
<1>2. \A raw, i : DecodedUpTo(raw, i) => DecodedUpTo(raw, i)'
  BY <1>1 DEF DecodedUpTo
<1>3. CASE RleDone
  <2>1. rleStatus = "decoding" /\ rleStatus' = "IPMB_OK" /\ rlePos + 1 >= Len(rleWire)
    BY <1>3 DEF RleDone
  <2> QED BY <1>1, <1>2, <2>1 DEF RleInv
<1>4. CASE UNCHANGED rleVars
  <2>1. rleStatus' = rleStatus
    BY <1>4 DEF rleVars
  <2> QED BY <1>1, <1>2, <2>1 DEF RleInv
<1> QED BY <1>3, <1>4

LEMMA RleNextInv == RleInv /\ [RleNext]_rleVars => RleInv'
BY RleStartKeeps, RlePairKeeps, RleDoneKeeps DEF RleNext

LEMMA RleTells == RleInv => RleRoundTrip
<1> SUFFICES ASSUME RleInv
             PROVE  RleRoundTrip
  OBVIOUS
<1>1. rleStatus = "decoding" => Len(rleOut) <= rleCap
  BY DEF RleInv
<1>2. ASSUME rleStatus = "IPMB_OK", NEW raw \in rleData
      PROVE  /\ IsPrefix(rleOut, raw)
             /\ Len(RleEncoded(raw)) <= 2 * Len(raw)
             /\ Len(rleWire) = Len(RleEncoded(raw)) => rleOut = raw
             /\ RleEncoded(rleOut) = SubSeq(rleWire, 1, Len(rleWire) - (Len(rleWire) % 2))
  <2> DEFINE whole == RleEncoded(raw)
  <2>0. /\ raw \in Seq(Byte) /\ Len(raw) \in Nat /\ rleWire \in Seq(Byte)
        /\ rlePos \in Nat /\ rlePos <= Len(rleWire) /\ rlePos % 2 = 0
        /\ rlePos + 1 >= Len(rleWire)
    BY <1>2, RleAssumption DEF RleInv, Byte
  <2>1. PICK i \in 1 .. Len(raw) + 1 : DecodedUpTo(raw, i)
    BY <1>2 DEF RleInv
  <2> DEFINE rest == EncodedFrom(raw, i)
             before == SubSeq(raw, 1, i - 1)
  <2>2. /\ IsBorder(raw, i) /\ rleOut = before
        /\ Len(rleWire) <= Len(whole) /\ \A k \in 1 .. Len(rleWire) : rleWire[k] = whole[k]
        /\ Len(whole) = rlePos + Len(rest)
    BY <2>1 DEF DecodedUpTo
  <2>3. /\ whole \in Seq(Byte) /\ Len(whole) <= 2 * Len(raw)
        /\ rest \in Seq(Byte)
    <3>1. 1 \in 1 .. Len(raw) + 1 /\ Len(raw) + 1 - 1 = Len(raw)
      BY <2>0
    <3> QED BY <2>0, <3>1, EncodedTypes DEF RleEncoded
  <2>4. before \in Seq(Byte) /\ Len(before) = i - 1 /\ \A k \in 1 .. i - 1 : before[k] = raw[k]
    BY <2>0, SubSeqProperties
  <2>5. IsPrefix(rleOut, raw)
    <3>1. Len(before) <= Len(raw)
      BY <2>0, <2>4
    <3>2. SubSeq(raw, 1, Len(before)) = before
      BY <2>4
    <3> HIDE DEF before
    <3> QED BY <2>0, <2>2, <2>4, <3>1, <3>2 DEF IsPrefix
  <2>6. ASSUME Len(rleWire) = Len(whole)
        PROVE  rleOut = raw
    <3>1. Len(rest) <= 1
      <4> HIDE DEF whole, rest
      <4> QED BY <2>0, <2>2, <2>3, <2>6
    <3>2. i = Len(raw) + 1
      <4> SUFFICES ASSUME i \in 1 .. Len(raw)
                   PROVE  FALSE
        BY <2>0
      <4>1. rest = <<RunAt(raw, i), raw[i]>> \o EncodedFrom(raw, i + RunAt(raw, i))
        BY <2>0, EncodedFromIs
      <4> DEFINE pair == <<RunAt(raw, i), raw[i]>>
                 next == EncodedFrom(raw, i + RunAt(raw, i))
      <4>2. RunAt(raw, i) \in Byte /\ raw[i] \in Byte
        <5>1. RunAt(raw, i) \in 1 .. MaxRun /\ MaxRun \in Nat
          BY <2>0, RunTypes, RleAssumption
        <5>2. raw[i] \in Byte
          BY <2>0, ElementOfSeq
        <5> QED BY <5>1, <5>2 DEF Byte
      <4>3. pair \in Seq(Byte) /\ Len(pair) = 2
        BY <4>2
      <4>4. i + RunAt(raw, i) \in 1 .. Len(raw) + 1
        BY <2>0, RunTypes
      <4>5. next \in Seq(Byte)
        BY <2>0, <4>4, EncodedTypes
      <4> HIDE DEF pair, next, rest
      <4>6. Len(pair \o next) = Len(pair) + Len(next)
        BY <4>3, <4>5, ConcatProperties
      <4>7. rest = pair \o next
        BY <4>1 DEF pair, next
      <4> QED BY <3>1, <4>3, <4>5, <4>6, <4>7
    <3>3. before = raw
      <4>1. Len(before) = Len(raw) /\ \A k \in 1 .. Len(before) : before[k] = raw[k]
        BY <2>0, <2>4, <3>2
      <4> HIDE DEF before
      <4> QED BY <2>0, <2>4, <4>1, SeqEqual
    <3> QED BY <2>2, <3>3
  <2>7. RleEncoded(rleOut) = SubSeq(rleWire, 1, Len(rleWire) - (Len(rleWire) % 2))
    <3> DEFINE first == RleEncoded(before)
    <3>1. whole = first \o rest
      BY <2>0, <2>2, EncodedInParts
    <3>2. first \in Seq(Byte)
      <4> HIDE DEF before
      <4>1. 1 \in 1 .. Len(before) + 1
        BY <2>4
      <4> QED BY <2>4, <4>1, EncodedTypes DEF RleEncoded
    <3> HIDE DEF first, whole, rest, before
    <3>3. /\ Len(whole) = Len(first) + Len(rest)
          /\ \A k \in 1 .. Len(first) + Len(rest) : whole[k] =
               IF k <= Len(first) THEN first[k] ELSE rest[k - Len(first)]
      BY <2>3, <3>1, <3>2, ConcatProperties
    <3>4. Len(first) = rlePos /\ Len(first) \in Nat /\ Len(rest) \in Nat
      BY <2>0, <2>2, <2>3, <3>2, <3>3
    <3>5. Len(rleWire) - (Len(rleWire) % 2) = rlePos
      <4>1. Len(rleWire) \in Nat
        BY <2>0
      <4> QED BY <2>0, <4>1
    <3>6. \A k \in 1 .. rlePos : rleWire[k] = first[k]
      BY <2>0, <2>2, <3>3, <3>4, SMTT(60)
    <3> DEFINE read == SubSeq(rleWire, 1, rlePos)
    <3>7. read \in Seq(Byte) /\ Len(read) = rlePos /\ \A k \in 1 .. rlePos : read[k] = rleWire[k]
      <4>1. \A k \in 1 .. rlePos : rleWire[k] \in Byte
        BY <2>0
      <4> QED BY <2>0, <4>1, SubSeqProperties
    <3> HIDE DEF read
    <3>8. read = first
      BY <3>2, <3>4, <3>6, <3>7, SeqEqual
    <3> QED BY <2>2, <3>5, <3>8 DEF read, first
  <2> QED BY <2>3, <2>5, <2>6, <2>7
<1> QED BY <1>1, <1>2 DEF RleRoundTrip

(* What was encoded is decoded to the same bytes, for any bytes and any    *)
(* longest run, and what arrived of it to a beginning of them; the buffers *)
(* are always large enough.                                                *)
THEOREM RleRoundTripAlways == RleSpec => []RleRoundTrip
BY RleInitInv, RleNextInv, RleTells, PTL DEF RleSpec

-----------------------------------------------------------------------------

(***************************************************************************)
(* The delta codec.                                                        *)
(***************************************************************************)

LEMMA WrappedFits ==
  ASSUME NEW n \in Int
  PROVE  Wrapped(n) \in Int32
<1> DEFINE w == 2 * Half
           x == (n + Half) % w
<1>1. Half \in Nat \ {0} /\ w \in Nat \ {0}
  BY DeltaAssumption
<1>2. x \in 0 .. w - 1
  <2> HIDE DEF w
  <2> QED BY <1>1, Remainder
<1>3. Wrapped(n) = x - Half
  BY DEF Wrapped
<1> HIDE DEF x
<1> QED BY <1>1, <1>2, <1>3 DEF Int32

(* What fits is not changed, and what was cut off before an addition does  *)
(* not count after it.                                                     *)
LEMMA WrappedOnce ==
  ASSUME NEW n \in Int32
  PROVE  Wrapped(n) = n
<1> DEFINE w == 2 * Half
           a == n + Half
           x == a % w
           q == a \div w
<1>1. Half \in Nat \ {0} /\ w \in Nat \ {0}
  BY DeltaAssumption
<1>2. a \in 0 .. w - 1
  BY <1>1 DEF Int32
<1>3. x \in 0 .. w - 1 /\ q \in Int /\ a = (q * w) + x
  <2> HIDE DEF w, a
  <2> QED BY <1>1, <1>2, Remainder
<1>4. Wrapped(n) = x - Half
  BY DEF Wrapped
<1>5. x = a
  <2> HIDE DEF x, q, w, a
  <2>1. (q * w) + x = (0 * w) + a
    BY <1>1, <1>2, <1>3
  <2> QED BY <1>1, <1>2, <1>3, <2>1, QuotientOnce
<1> HIDE DEF x
<1> QED BY <1>1, <1>4, <1>5 DEF Int32

LEMMA WrappedTwice ==
  ASSUME NEW n \in Int, NEW d \in Int
  PROVE  Wrapped(Wrapped(n) + d) = Wrapped(n + d)
<1> DEFINE w == 2 * Half
           a == n + Half
           x == a % w
           q == a \div w
           b == x + d
           y == b % w
           p == b \div w
           c == a + d
           z == c % w
           r == c \div w
<1>1. Half \in Nat \ {0} /\ w \in Nat \ {0} /\ a \in Int
  BY DeltaAssumption
<1>2. x \in 0 .. w - 1 /\ q \in Int /\ a = (q * w) + x
  <2> HIDE DEF w, a
  <2> QED BY <1>1, Remainder
<1>3. b \in Int /\ c \in Int
  <2> HIDE DEF w, a, x
  <2> QED BY <1>1, <1>2
<1>4. y \in 0 .. w - 1 /\ p \in Int /\ b = (p * w) + y
  <2> HIDE DEF w, b
  <2> QED BY <1>1, <1>3, Remainder
<1>5. z \in 0 .. w - 1 /\ r \in Int /\ c = (r * w) + z
  <2> HIDE DEF w, c
  <2> QED BY <1>1, <1>3, Remainder
<1>6. y = z
  <2>1. b = x + d /\ c = a + d
    OBVIOUS
  <2> HIDE DEF w, a, x, q, b, y, p, c, z, r
  <2>2. ((q * w) + (p * w)) + y = (r * w) + z
    BY <1>1, <1>2, <1>3, <1>4, <1>5, <2>1
  <2>3. (q * w) + (p * w) = (q + p) * w /\ q + p \in Int
    BY <1>1, <1>2, <1>4
  <2>4. ((q + p) * w) + y = (r * w) + z
    BY <2>2, <2>3
  <2> QED BY <1>1, <1>4, <1>5, <2>3, <2>4, QuotientOnce
<1>7. Wrapped(n) = x - Half
  BY DEF Wrapped
<1>8. Wrapped(n + d) = z - Half
  <2>1. n + d + Half = c
    <3> HIDE DEF w
    <3> QED BY <1>1
  <2> HIDE DEF c
  <2> QED BY <2>1 DEF Wrapped
<1>9. Wrapped(Wrapped(n) + d) = y - Half
  <2>1. Wrapped(n) + d + Half = b
    <3> HIDE DEF x
    <3> QED BY <1>1, <1>2, <1>7
  <2> HIDE DEF b
  <2> QED BY <2>1 DEF Wrapped
<1> QED BY <1>6, <1>8, <1>9

StartsUpTo(p) == {0} \cup {i \in 1 .. p : wire[i].tag \in {"set", "reset"}}
Changes(s, p) == {i \in s + 1 .. p : wire[i].tag = "change"}
BaseAt(s) == IF s > 0 /\ wire[s].tag = "set" THEN wire[s].arg ELSE 0

LEMMA TokenTypes ==
  ASSUME wire \in Seq(DeltaToken)
  PROVE  /\ Len(wire) \in Nat /\ DOMAIN wire = 1 .. Len(wire)
         /\ \A i \in 1 .. Len(wire) : /\ wire[i] \in DeltaToken
                                      /\ wire[i].arg \in Int32
                                      /\ wire[i].arg \in Int
                                      /\ wire[i].tag \in Tag
                                      /\ wire[i].tag = "repeat" => wire[i].arg \in Nat
         /\ Arg \in [1 .. Len(wire) -> Int]
         /\ Copies \in [1 .. Len(wire) -> Nat]
<1>1. Len(wire) \in Nat /\ DOMAIN wire = 1 .. Len(wire)
  OBVIOUS
<1>2. ASSUME NEW i \in 1 .. Len(wire)
      PROVE  /\ wire[i] \in DeltaToken
             /\ wire[i].arg \in Int32 /\ wire[i].arg \in Int
             /\ wire[i].tag \in Tag
             /\ wire[i].tag = "repeat" => wire[i].arg \in Nat
  <2>1. wire[i] \in DeltaToken
    BY ElementOfSeq
  <2>2. Int32 \subseteq Int
    BY DeltaAssumption DEF Int32
  <2> QED BY <2>1, <2>2 DEF DeltaToken
<1>3. Arg \in [1 .. Len(wire) -> Int]
  BY <1>1, <1>2 DEF Arg
<1>4. Copies \in [1 .. Len(wire) -> Nat]
  BY <1>1, <1>2 DEF Copies
<1> QED BY <1>1, <1>2, <1>3, <1>4

(* The value is that of the last start before, with the changes since.     *)
LEMMA ValueIs ==
  ASSUME wire \in Seq(DeltaToken), NEW p \in 0 .. Len(wire),
         NEW s \in StartsUpTo(p), \A k \in StartsUpTo(p) : k <= s
  PROVE  /\ ValueAfter(p) = BaseAt(s) + SumFunctionOnSet(Arg, Changes(s, p))
         /\ ValueAfter(p) \in Int
         /\ SumFunctionOnSet(Arg, Changes(s, p)) \in Int
<1>1. StartsUpTo(p) \in SUBSET (0 .. p) /\ p \in Nat /\ s \in 0 .. p
  BY TokenTypes DEF StartsUpTo
<1>2. Max(StartsUpTo(p)) = s
  <2>1. Max(StartsUpTo(p)) \in StartsUpTo(p) /\ \A k \in StartsUpTo(p) : k <= Max(StartsUpTo(p))
    BY <1>1, LargestIs
  <2> QED BY <1>1, <2>1
<1>3. ValueAfter(p) = BaseAt(s) + SumFunctionOnSet(Arg, Changes(s, p))
  BY <1>2 DEF ValueAfter, BaseAt, Changes, StartsUpTo
<1>4. SumFunctionOnSet(Arg, Changes(s, p)) \in Int
  <2>1. Changes(s, p) \in SUBSET (1 .. Len(wire))
    BY <1>1, TokenTypes DEF Changes
  <2>2. IsFiniteSet(Changes(s, p))
    <3>1. IsFiniteSet(1 .. Len(wire))
      <4>1. Len(wire) \in Int /\ 1 \in Int
        BY TokenTypes
      <4> QED BY <4>1, FS_Interval
    <3> QED BY <2>1, <3>1, FS_Subset
  <2>3. Arg \in [1 .. Len(wire) -> Int]
    BY TokenTypes
  <2> QED BY <2>1, <2>2, <2>3, SumTakesOut
<1>5. BaseAt(s) \in Int
  BY <1>1, TokenTypes DEF BaseAt
<1> QED BY <1>3, <1>4, <1>5

LEMMA LastStart ==
  ASSUME wire \in Seq(DeltaToken), NEW p \in 0 .. Len(wire)
  PROVE  \E s \in StartsUpTo(p) : \A k \in StartsUpTo(p) : k <= s
<1>1. StartsUpTo(p) \in SUBSET (0 .. p) /\ p \in Nat /\ 0 \in StartsUpTo(p)
  BY TokenTypes DEF StartsUpTo
<1> QED BY <1>1, LargestIs

LEMMA ValueNone ==
  ASSUME wire \in Seq(DeltaToken)
  PROVE  ValueAfter(0) = 0
<1>1. StartsUpTo(0) = {0} /\ Changes(0, 0) = {} /\ BaseAt(0) = 0
  BY DEF StartsUpTo, Changes, BaseAt
<1>2. 0 \in 0 .. Len(wire)
  BY TokenTypes
<1>3. ValueAfter(0) = BaseAt(0) + SumFunctionOnSet(Arg, Changes(0, 0))
  BY <1>1, <1>2, ValueIs
<1>4. SumFunctionOnSet(Arg, Changes(0, 0)) = 0
  BY <1>1, SumStarts, Zenon
<1> QED BY <1>1, <1>3, <1>4

(* What one token does to the value.                                       *)
LEMMA ValueOfOneMore ==
  ASSUME wire \in Seq(DeltaToken), NEW p \in 0 .. Len(wire) - 1
  PROVE  /\ ValueAfter(p) \in Int
         /\ wire[p + 1].tag = "set" => ValueAfter(p + 1) = wire[p + 1].arg
         /\ wire[p + 1].tag = "reset" => ValueAfter(p + 1) = 0
         /\ wire[p + 1].tag = "change" =>
              ValueAfter(p + 1) = ValueAfter(p) + wire[p + 1].arg
         /\ wire[p + 1].tag \in {"repeat", "unknown"} => ValueAfter(p + 1) = ValueAfter(p)
<1>1. p \in 0 .. Len(wire) /\ p + 1 \in 0 .. Len(wire) /\ p + 1 \in 1 .. Len(wire) /\ p \in Nat
  BY TokenTypes
<1>2. PICK s \in StartsUpTo(p) : \A k \in StartsUpTo(p) : k <= s
  BY <1>1, LastStart
<1>3. s \in 0 .. p
  BY <1>1 DEF StartsUpTo
<1>4. /\ ValueAfter(p) = BaseAt(s) + SumFunctionOnSet(Arg, Changes(s, p))
      /\ ValueAfter(p) \in Int
      /\ SumFunctionOnSet(Arg, Changes(s, p)) \in Int
  BY <1>1, <1>2, ValueIs
<1>5. ASSUME wire[p + 1].tag \in {"set", "reset"}
      PROVE  ValueAfter(p + 1) = BaseAt(p + 1)
  <2>1. p + 1 \in StartsUpTo(p + 1) /\ \A k \in StartsUpTo(p + 1) : k <= p + 1
    BY <1>1, <1>5 DEF StartsUpTo
  <2>2. ValueAfter(p + 1) = BaseAt(p + 1) + SumFunctionOnSet(Arg, Changes(p + 1, p + 1))
    BY <1>1, <2>1, ValueIs
  <2>3. Changes(p + 1, p + 1) = {}
    BY <1>1 DEF Changes
  <2>4. SumFunctionOnSet(Arg, Changes(p + 1, p + 1)) = 0
    BY <2>3, SumStarts, Zenon
  <2>5. BaseAt(p + 1) \in Int
    BY <1>1, TokenTypes DEF BaseAt
  <2> QED BY <2>2, <2>4, <2>5
<1>6. ASSUME wire[p + 1].tag \notin {"set", "reset"}
      PROVE  ValueAfter(p + 1) = BaseAt(s) + SumFunctionOnSet(Arg, Changes(s, p + 1))
  <2>1. StartsUpTo(p + 1) = StartsUpTo(p)
    BY <1>1, <1>6 DEF StartsUpTo
  <2> QED BY <1>1, <1>2, <2>1, ValueIs
<1>7. ASSUME wire[p + 1].tag = "change"
      PROVE  ValueAfter(p + 1) = ValueAfter(p) + wire[p + 1].arg
  <2>1. Changes(s, p + 1) \ {p + 1} = Changes(s, p) /\ p + 1 \in Changes(s, p + 1)
    BY <1>1, <1>3, <1>7 DEF Changes
  <2>2. Changes(s, p + 1) \in SUBSET (1 .. Len(wire))
    BY <1>1, <1>3, TokenTypes DEF Changes
  <2>3. IsFiniteSet(Changes(s, p + 1))
    <3>1. IsFiniteSet(1 .. Len(wire))
      <4>1. Len(wire) \in Int /\ 1 \in Int
        BY TokenTypes
      <4> QED BY <4>1, FS_Interval
    <3> QED BY <2>2, <3>1, FS_Subset
  <2>4. Arg \in [1 .. Len(wire) -> Int]
    BY TokenTypes
  <2>5. SumFunctionOnSet(Arg, Changes(s, p + 1))
          = Arg[p + 1] + SumFunctionOnSet(Arg, Changes(s, p + 1) \ {p + 1})
    BY <2>1, <2>2, <2>3, <2>4, SumTakesOut
  <2>6. Arg[p + 1] = wire[p + 1].arg /\ wire[p + 1].arg \in Int
    BY <1>1, TokenTypes DEF Arg
  <2>7. ValueAfter(p + 1) = BaseAt(s) + SumFunctionOnSet(Arg, Changes(s, p + 1))
    BY <1>6, <1>7
  <2>8. BaseAt(s) \in Int
    BY <1>1, <1>3, TokenTypes DEF BaseAt
  <2>9. SumFunctionOnSet(Arg, Changes(s, p + 1) \ {p + 1})
          = SumFunctionOnSet(Arg, Changes(s, p))
    BY <2>1, Zenon
  <2> QED BY <1>4, <2>5, <2>6, <2>7, <2>8, <2>9
<1>8. ASSUME wire[p + 1].tag \in {"repeat", "unknown"}
      PROVE  ValueAfter(p + 1) = ValueAfter(p)
  <2>1. Changes(s, p + 1) = Changes(s, p)
    BY <1>1, <1>3, <1>8 DEF Changes
  <2> QED BY <1>4, <1>6, <1>8, <2>1
<1>9. /\ wire[p + 1].tag = "set" => BaseAt(p + 1) = wire[p + 1].arg
      /\ wire[p + 1].tag = "reset" => BaseAt(p + 1) = 0
  BY <1>1 DEF BaseAt
<1> QED BY <1>4, <1>5, <1>7, <1>8, <1>9

(* How many copies there are after a token: never fewer than before.       *)
LEMMA CopiesOfOneMore ==
  ASSUME wire \in Seq(DeltaToken), NEW p \in 0 .. Len(wire) - 1
  PROVE  CopiesUpTo(p + 1) = Copies[p + 1] + CopiesUpTo(p) /\ Copies[p + 1] \in Nat
<1>1. p \in Nat /\ 1 .. p + 1 \subseteq 1 .. Len(wire) /\ p + 1 \in 1 .. Len(wire)
  BY TokenTypes
<1>2. Copies \in [1 .. Len(wire) -> Nat] /\ Copies \in [1 .. Len(wire) -> Int]
  BY TokenTypes
<1>3. CopiesUpTo(p + 1) = Copies[p + 1] + CopiesUpTo(p)
  BY <1>1, <1>2, SumOfOneMore DEF CopiesUpTo
<1>4. Copies[p + 1] \in Nat
  BY <1>1, <1>2
<1> QED BY <1>3, <1>4

LEMMA CopiesNone == CopiesUpTo(0) = 0
  BY SumStarts DEF CopiesUpTo

LEMMA CopiesCount ==
  ASSUME wire \in Seq(DeltaToken)
  PROVE  \A p \in 0 .. Len(wire) : CopiesUpTo(p) \in Nat
<1> DEFINE T == {n \in Nat : n <= Len(wire) => CopiesUpTo(n) \in Nat}
<1>1. 0 \in T
  BY CopiesNone
<1>2. ASSUME NEW n \in Nat, n \in T
      PROVE  n + 1 \in T
  <2> SUFFICES ASSUME n + 1 <= Len(wire)
               PROVE  CopiesUpTo(n + 1) \in Nat
    OBVIOUS
  <2>1. n \in 0 .. Len(wire) - 1 /\ CopiesUpTo(n) \in Nat
    BY <1>2, TokenTypes
  <2> QED BY <2>1, CopiesOfOneMore
<1>3. Nat \subseteq T
  <2> HIDE DEF T
  <2> QED BY <1>1, <1>2, Induction
<1> QED BY <1>3, TokenTypes

LEMMA CopiesGrow ==
  ASSUME wire \in Seq(DeltaToken), NEW p \in 0 .. Len(wire)
  PROVE  \A q \in p .. Len(wire) : CopiesUpTo(p) <= CopiesUpTo(q)
<1> DEFINE T == {n \in Nat : p + n <= Len(wire) => CopiesUpTo(p) <= CopiesUpTo(p + n)}
<1>0. Len(wire) \in Nat /\ p \in Nat /\ \A n \in 0 .. Len(wire) : CopiesUpTo(n) \in Nat
  BY TokenTypes, CopiesCount
<1>1. 0 \in T
  BY <1>0
<1>2. ASSUME NEW n \in Nat, n \in T
      PROVE  n + 1 \in T
  <2> SUFFICES ASSUME p + (n + 1) <= Len(wire)
               PROVE  CopiesUpTo(p) <= CopiesUpTo(p + (n + 1))
    OBVIOUS
  <2> DEFINE q == p + n
  <2>1. q \in 0 .. Len(wire) - 1 /\ q + 1 = p + (n + 1) /\ CopiesUpTo(p) <= CopiesUpTo(q)
    BY <1>0, <1>2
  <2> HIDE DEF q
  <2>2. CopiesUpTo(q + 1) = Copies[q + 1] + CopiesUpTo(q) /\ Copies[q + 1] \in Nat
    BY <2>1, CopiesOfOneMore
  <2>3. CopiesUpTo(q) \in Nat /\ CopiesUpTo(p) \in Nat
    BY <1>0, <2>1
  <2>4. CopiesUpTo(p) <= CopiesUpTo(q + 1)
    BY <2>1, <2>2, <2>3
  <2> QED BY <2>1, <2>4
<1>3. Nat \subseteq T
  <2> HIDE DEF T
  <2> QED BY <1>1, <1>2, Induction
<1>4. ASSUME NEW q \in p .. Len(wire)
      PROVE  CopiesUpTo(p) <= CopiesUpTo(q)
  <2>1. q - p \in Nat /\ p + (q - p) = q /\ q <= Len(wire)
    BY <1>0
  <2>2. q - p \in T
    BY <1>3, <2>1
  <2> QED BY <2>1, <2>2
<1> QED BY <1>4

(* What the decoder has after p tokens: they could be read, and the value  *)
(* and the copies are what they mean, up to the count.                     *)
MeansUpTo(p) ==
  /\ \A i \in 1 .. p : CanBeRead(i)
  /\ acc = Wrapped(ValueAfter(p))
  /\ Len(vals) = Min({wanted, CopiesUpTo(p)})
  /\ \A k \in 1 .. Len(vals) :
       \E q \in 1 .. p : /\ CopiesUpTo(q - 1) < k /\ k <= CopiesUpTo(q)
                         /\ vals[k] = Wrapped(ValueAfter(q))
  /\ wire = DeltaEncoded(Arg) =>
       Len(vals) = p /\ \A k \in 1 .. p : vals[k] = wire[k].arg

DeltaTypes ==
  /\ wire \in Seq(DeltaToken)
  /\ cut \in BOOLEAN
  /\ wanted \in Nat
  /\ pos \in 1 .. Len(wire) + 1
  /\ acc \in Int32
  /\ vals \in Seq(Int32)

DeltaInv ==
  /\ DeltaTypes
  /\ Len(vals) <= wanted
  /\ deltaStatus \in {"decoding", "IPMB_OK"} => MeansUpTo(pos - 1)
  /\ deltaStatus = "IPMB_OK" => ~(More /\ ~Breaks)

LEMMA ZeroFits == 0 \in Int32 /\ Wrapped(0) = 0
<1>1. 0 \in Int32
  BY DeltaAssumption DEF Int32
<1> QED BY <1>1, WrappedOnce

LEMMA NothingMeant == wire \in Seq(DeltaToken) => ValueAfter(0) = 0 /\ CopiesUpTo(0) = 0
  BY ValueNone, CopiesNone

LEMMA DeltaInitInv == DeltaInit => DeltaInv
<1> SUFFICES ASSUME DeltaInit
             PROVE  DeltaInv
  OBVIOUS
<1>1. /\ wire = <<>> /\ cut = FALSE /\ wanted = 0 /\ pos = 1 /\ acc = 0 /\ vals = <<>>
      /\ deltaStatus = "idle"
  BY DEF DeltaInit
<1>2. DeltaTypes
  <2>1. wire \in Seq(DeltaToken) /\ vals \in Seq(Int32) /\ Len(wire) = 0
    BY <1>1, EmptySeq
  <2>2. cut \in BOOLEAN
    BY <1>1
  <2>3. pos \in 1 .. Len(wire) + 1 /\ wanted \in Nat
    BY <1>1, <2>1
  <2>4. acc \in Int32
    BY <1>1, ZeroFits
  <2> QED BY <2>1, <2>2, <2>3, <2>4 DEF DeltaTypes
<1>3. Len(vals) <= wanted
  BY <1>1, EmptySeq
<1> QED BY <1>1, <1>2, <1>3 DEF DeltaInv

LEMMA DeltaStartKeeps == DeltaStart => DeltaInv'
<1> SUFFICES ASSUME DeltaStart
             PROVE  DeltaInv'
  OBVIOUS
<1>1. /\ wire' \in DeltaWire /\ wanted' \in DeltaCount /\ cut' \in BOOLEAN
      /\ pos' = 1 /\ acc' = 0 /\ vals' = <<>> /\ deltaStatus' # "IPMB_OK"
  BY DEF DeltaStart
<1>2. wire' \in Seq(DeltaToken) /\ Len(wire') \in Nat /\ wanted' \in Nat
  BY <1>1, DeltaAssumption
<1>3. DeltaTypes'
  BY <1>1, <1>2, EmptySeq, ZeroFits DEF DeltaTypes
<1>4. Len(vals') = 0 /\ Len(vals') <= wanted'
  BY <1>1, <1>2, EmptySeq
<1>5. MeansUpTo(0)'
  <2>1. ValueAfter(0)' = 0 /\ CopiesUpTo(0)' = 0
    <3>1. (wire \in Seq(DeltaToken))' => (ValueAfter(0) = 0 /\ CopiesUpTo(0) = 0)'
      BY NothingMeant, PTL
    <3> QED BY <1>2, <3>1
  <2>2. Min({wanted', 0}) = 0
    BY <1>2, MinOfTwo
  <2>3. \A i \in 1 .. 0 : FALSE
    OBVIOUS
  <2> QED BY <1>1, <1>4, <2>1, <2>2, <2>3, ZeroFits DEF MeansUpTo
<1>6. pos' - 1 = 0
  BY <1>1
<1> QED BY <1>1, <1>3, <1>4, <1>5, <1>6 DEF DeltaInv

(* What the tokens mean does not change.                                   *)
LEMMA MeaningStays ==
  ASSUME wire' = wire, cut' = cut
  PROVE  /\ Arg' = Arg /\ Copies' = Copies
         /\ \A p : ValueAfter(p)' = ValueAfter(p)
         /\ \A p : CopiesUpTo(p)' = CopiesUpTo(p)
         /\ \A i : CanBeRead(i)' = CanBeRead(i)
<1>1. Arg' = Arg
  BY DEF Arg
<1>2. Copies' = Copies
  BY DEF Copies
<1>3. ASSUME NEW p
      PROVE  ValueAfter(p)' = ValueAfter(p)
  BY <1>1 DEF ValueAfter
<1>4. ASSUME NEW p
      PROVE  CopiesUpTo(p)' = CopiesUpTo(p)
  BY <1>2 DEF CopiesUpTo
<1>5. ASSUME NEW i
      PROVE  CanBeRead(i)' = CanBeRead(i)
  BY DEF CanBeRead, Operand
<1> QED BY <1>1, <1>2, <1>3, <1>4, <1>5

(* A token that leaves the value at what it means and puts as many copies  *)
(* of it behind the others as it means and as there is room for.           *)
LEMMA TokenMeans ==
  ASSUME DeltaTypes, More, ~Breaks, MeansUpTo(pos - 1),
         wire' = wire, cut' = cut, wanted' = wanted, pos' = pos + 1,
         acc' = Wrapped(ValueAfter(pos)),
         NEW P, P = pos, NEW m, m = Min({Copies[pos], wanted - Len(vals)}),
         Len(vals') = Len(vals) + m,
         \A k \in 1 .. Len(vals) : vals'[k] = vals[k],
         \A k \in Len(vals) + 1 .. Len(vals) + m : vals'[k] = acc'
  PROVE  MeansUpTo(P)' /\ Len(vals') <= wanted'
<1> DEFINE c == CopiesUpTo(pos - 1)
           d == CopiesUpTo(pos)
           n == Len(vals)
<1>1. /\ pos \in 1 .. Len(wire) /\ n < wanted /\ pos - 1 \in 0 .. Len(wire) - 1
      /\ pos - 1 \in 0 .. Len(wire) /\ (pos - 1) + 1 = pos /\ pos \in Nat
      /\ n \in Nat /\ wanted \in Nat /\ wire \in Seq(DeltaToken)
  BY DEF DeltaTypes, More
<1>2. d = Copies[pos] + c /\ Copies[pos] \in Nat /\ c \in Nat
  BY <1>1, CopiesOfOneMore, CopiesCount
<1>3. /\ n = c /\ m \in Nat
      /\ n + m = Min({wanted, d})
      /\ n + m <= wanted /\ n + m <= d
      /\ m = IF Copies[pos] <= wanted - n THEN Copies[pos] ELSE wanted - n
  <2> DEFINE h == Copies[pos]
             a == Min({wanted, c})
             b == Min({h, wanted - n})
             e == Min({wanted, d})
  <2>1. n = a /\ m = b
    BY DEF MeansUpTo
  <2>2. h \in Nat /\ wanted \in Nat /\ c \in Nat /\ n < wanted /\ n \in Nat
        /\ wanted - n \in Nat /\ d = h + c /\ d \in Nat
    <3> HIDE DEF n, c, d
    <3> QED BY <1>1, <1>2
  <2> HIDE DEF n, c, d, h
  <2>3. a = IF wanted <= c THEN wanted ELSE c
    BY <2>2, MinOfTwo
  <2>4. b = IF h <= wanted - n THEN h ELSE wanted - n
    BY <2>2, MinOfTwo
  <2>5. e = IF wanted <= d THEN wanted ELSE d
    BY <2>2, MinOfTwo
  <2> HIDE DEF a, b, e
  <2>6. /\ n = c /\ m \in Nat
        /\ n + m = IF wanted <= h + c THEN wanted ELSE h + c
        /\ n + m <= wanted /\ n + m <= h + c
    <3>1. n = c
      BY <2>1, <2>2, <2>3
    <3>2. m = IF h <= wanted - n THEN h ELSE wanted - n
      BY <2>1, <2>4
    <3> QED BY <2>2, <3>1, <3>2
  <2>7. n + m = e /\ n + m <= d
    BY <2>2, <2>5, <2>6
  <2> QED BY <2>1, <2>4, <2>6, <2>7 DEF e, h
<1>4. Len(vals') = n + m
  OBVIOUS
<1>5. Len(vals') = Min({wanted, d}) /\ Len(vals') <= wanted /\ m \in Nat /\ n + m <= d
  <2> HIDE DEF n, c, d
  <2> QED BY <1>3, <1>4
<1>6. \A i \in 1 .. pos : CanBeRead(i)
  <2>1. CanBeRead(pos)
    BY <1>1 DEF CanBeRead, Breaks
  <2>2. \A i \in 1 .. pos - 1 : CanBeRead(i)
    BY DEF MeansUpTo
  <2>3. \A i \in 1 .. pos : i = pos \/ i \in 1 .. pos - 1
    BY <1>1
  <2> QED BY <2>1, <2>2, <2>3
<1>7. ASSUME NEW k \in 1 .. n + m
      PROVE  \E q \in 1 .. pos : /\ CopiesUpTo(q - 1) < k /\ k <= CopiesUpTo(q)
                                 /\ vals'[k] = Wrapped(ValueAfter(q))
  <2>1. CASE k <= n
    <3>1. k \in 1 .. Len(vals)
      BY <1>1, <1>5, <2>1
    <3>2. PICK q \in 1 .. pos - 1 : /\ CopiesUpTo(q - 1) < k /\ k <= CopiesUpTo(q)
                                    /\ vals[k] = Wrapped(ValueAfter(q))
      BY <3>1 DEF MeansUpTo
    <3>3. q \in 1 .. pos
      BY <1>1
    <3>4. vals'[k] = vals[k]
      BY <3>1
    <3> QED BY <3>2, <3>3, <3>4
  <2>2. CASE k > n
    <3>1. k \in n + 1 .. n + m
      BY <1>1, <1>5, <2>2
    <3>2. vals'[k] = Wrapped(ValueAfter(pos))
      BY <3>1
    <3>3. c < k /\ k <= d
      <4>1. d \in Nat
        <5> HIDE DEF c, d
        <5> QED BY <1>2
      <4> HIDE DEF n, c, d
      <4> QED BY <1>1, <1>2, <1>3, <1>5, <2>2, <4>1, SMTT(30)
    <3>4. pos \in 1 .. pos
      BY <1>1
    <3> QED BY <3>2, <3>3, <3>4
  <2>3. k \in Int /\ n \in Int
    <3> HIDE DEF n
    <3> QED BY <1>1, <1>5
  <2> QED BY <2>1, <2>2, <2>3
<1>8. ASSUME wire = DeltaEncoded(Arg)
      PROVE  Len(vals') = pos /\ \A k \in 1 .. pos : vals'[k] = wire[k].arg
  <2>1. n = pos - 1 /\ \A k \in 1 .. pos - 1 : vals[k] = wire[k].arg
    BY <1>8 DEF MeansUpTo
  <2>2. wire[pos].tag = "set"
    <3>1. pos \in DOMAIN Arg
      BY <1>1, TokenTypes
    <3>2. DeltaEncoded(Arg)[pos].tag = "set"
      BY <3>1 DEF DeltaEncoded
    <3> QED BY <1>8, <3>2
  <2>3. Copies[pos] = 1
    BY <1>1, <2>2, TokenTypes DEF Copies
  <2>4. m = 1
    <3> HIDE DEF n
    <3> QED BY <1>1, <1>3, <2>3
  <2>5. acc' = wire[pos].arg
    <3>1. ValueAfter(pos) = wire[pos].arg
      BY <1>1, <2>2, ValueOfOneMore
    <3>2. wire[pos].arg \in Int32
      BY <1>1, TokenTypes
    <3> QED BY <3>1, <3>2, WrappedOnce
  <2>6. Len(vals') = pos
    BY <1>1, <2>1, <2>4
  <2>7. pos \in n + 1 .. n + m
    BY <1>1, <2>1, <2>4
  <2>8. vals'[pos] = wire[pos].arg
    BY <2>5, <2>7
  <2>9. ASSUME NEW k \in 1 .. pos, k # pos
        PROVE  vals'[k] = wire[k].arg
    <3>1. k \in 1 .. pos - 1 /\ k \in 1 .. n
      BY <1>1, <2>1, <2>9
    <3> QED BY <2>1, <3>1
  <2> QED BY <2>6, <2>8, <2>9
<1>9. /\ Arg' = Arg
      /\ \A p : ValueAfter(p)' = ValueAfter(p)
      /\ \A p : CopiesUpTo(p)' = CopiesUpTo(p)
      /\ \A i : CanBeRead(i)' = CanBeRead(i)
  BY MeaningStays
<1>10. Arg' = Arg /\ DeltaEncoded(Arg)' = DeltaEncoded(Arg)
  BY <1>9 DEF DeltaEncoded
<1>11. (\A i \in 1 .. P : CanBeRead(i))'
  BY <1>6, <1>9
<1>12. (acc = Wrapped(ValueAfter(P)))'
  BY <1>9 DEF Wrapped
<1>13. (Len(vals) = Min({wanted, CopiesUpTo(P)}))'
  BY <1>5, <1>9
<1>14. (\A k \in 1 .. Len(vals) :
          \E q \in 1 .. P : /\ CopiesUpTo(q - 1) < k /\ k <= CopiesUpTo(q)
                            /\ vals[k] = Wrapped(ValueAfter(q)))'
  BY <1>7, <1>9 DEF Wrapped
<1>15. (wire = DeltaEncoded(Arg) =>
          Len(vals) = P /\ \A k \in 1 .. P : vals[k] = wire[k].arg)'
  BY <1>8, <1>10
<1> QED
  BY <1>5, <1>11, <1>12, <1>13, <1>14, <1>15 DEF MeansUpTo

LEMMA TokenKeeps == DeltaInv /\ Token => DeltaInv'
<1> SUFFICES ASSUME DeltaInv, Token
             PROVE  DeltaInv'
  OBVIOUS
<1> DEFINE t == wire[pos]
           h == Copies[pos]
           m == Min({h, wanted - Len(vals)})
<1>1. /\ DeltaTypes /\ More /\ ~Breaks /\ MeansUpTo(pos - 1) /\ deltaStatus = "decoding"
      /\ wire' = wire /\ cut' = cut /\ wanted' = wanted /\ pos' = pos + 1
  BY DEF DeltaInv, Token
<1>2. /\ wire \in Seq(DeltaToken) /\ pos \in 1 .. Len(wire) /\ pos - 1 \in 0 .. Len(wire) - 1
      /\ (pos - 1) + 1 = pos /\ pos \in Nat /\ Len(vals) \in Nat /\ wanted \in Nat
      /\ Len(vals) < wanted /\ vals \in Seq(Int32) /\ acc \in Int32 /\ cut \in BOOLEAN
  BY <1>1 DEF DeltaTypes, More
<1>3. /\ t.arg \in Int32 /\ t.arg \in Int /\ t.tag \in Tag
      /\ t.tag = "repeat" => t.arg \in Nat
      /\ t.tag \in {"set", "change"} => h = 1
      /\ t.tag = "repeat" => h = t.arg
      /\ t.tag = "reset" => h = 0
      /\ h \in Nat
  <2>1. /\ wire[pos].arg \in Int32 /\ wire[pos].arg \in Int /\ wire[pos].tag \in Tag
        /\ wire[pos].tag = "repeat" => wire[pos].arg \in Nat
        /\ pos \in DOMAIN wire
        /\ Copies \in [1 .. Len(wire) -> Nat]
    BY <1>2, TokenTypes
  <2>2. h = CASE t.tag \in {"set", "change"} -> 1
              [] t.tag = "repeat" -> t.arg
              [] OTHER -> 0
    BY <2>1 DEF Copies
  <2> QED BY <1>2, <2>1, <2>2
<1>4. /\ ValueAfter(pos - 1) \in Int
      /\ acc = Wrapped(ValueAfter(pos - 1))
      /\ t.tag = "set" => ValueAfter(pos) = t.arg
      /\ t.tag = "reset" => ValueAfter(pos) = 0
      /\ t.tag = "change" => ValueAfter(pos) = ValueAfter(pos - 1) + t.arg
      /\ t.tag = "repeat" => ValueAfter(pos) = ValueAfter(pos - 1)
  <2>1. acc = Wrapped(ValueAfter(pos - 1))
    BY <1>1 DEF MeansUpTo
  <2> QED BY <1>2, <2>1, ValueOfOneMore
<1>5. m = IF h <= wanted - Len(vals) THEN h ELSE wanted - Len(vals)
  <2>1. wanted - Len(vals) \in Nat
    BY <1>2
  <2> HIDE DEF h
  <2> QED BY <1>3, <2>1, MinOfTwo DEF h
<1>6. ASSUME acc' = Wrapped(ValueAfter(pos)), acc' \in Int32, vals' \in Seq(Int32),
             Len(vals') = Len(vals) + m,
             \A k \in 1 .. Len(vals) : vals'[k] = vals[k],
             \A k \in Len(vals) + 1 .. Len(vals) + m : vals'[k] = acc',
             deltaStatus' # "IPMB_OK"
      PROVE  DeltaInv'
  <2>1. PICK P : P = pos
    OBVIOUS
  <2>2. PICK more : more = m
    OBVIOUS
  <2>3. MeansUpTo(P)' /\ Len(vals') <= wanted'
    <3> HIDE DEF m
    <3>1. /\ Len(vals') = Len(vals) + more
          /\ \A k \in 1 .. Len(vals) : vals'[k] = vals[k]
          /\ \A k \in Len(vals) + 1 .. Len(vals) + more : vals'[k] = acc'
      BY <1>6, <2>2
    <3>2. more = Min({Copies[pos], wanted - Len(vals)})
      BY <2>2 DEF m, h
    <3>3. acc' = Wrapped(ValueAfter(pos))
      BY <1>6
    <3> QED BY <1>1, <2>1, <3>1, <3>2, <3>3, TokenMeans
  <2>4. DeltaTypes'
    <3>1. pos' \in 1 .. Len(wire') + 1
      BY <1>1, <1>2
    <3> QED BY <1>1, <1>2, <1>6, <3>1 DEF DeltaTypes
  <2>5. pos' - 1 = P
    BY <1>1, <1>2, <2>1
  <2> QED BY <1>6, <2>3, <2>4, <2>5 DEF DeltaInv
<1>7. ASSUME acc' = Wrapped(ValueAfter(pos)), acc' \in Int32, h = 1,
             vals' = Append(vals, acc'), deltaStatus' # "IPMB_OK"
      PROVE  DeltaInv'
  <2>1. m = 1
    <3> HIDE DEF m
    <3> QED BY <1>2, <1>5, <1>7
  <2>2. /\ vals' \in Seq(Int32) /\ Len(vals') = Len(vals) + 1
        /\ \A k \in 1 .. Len(vals) : vals'[k] = vals[k]
        /\ vals'[Len(vals) + 1] = acc'
    BY <1>2, <1>7, AppendProperties
  <2>3. \A k \in Len(vals) + 1 .. Len(vals) + m : vals'[k] = acc'
    <3> HIDE DEF m
    <3>1. \A k \in Len(vals) + 1 .. Len(vals) + m : k = Len(vals) + 1
      BY <1>2, <2>1
    <3> QED BY <2>2, <3>1
  <2> HIDE DEF m, h
  <2> QED BY <1>6, <1>7, <2>1, <2>2, <2>3
<1>8. CASE /\ t.tag = "set"
           /\ acc' = t.arg
           /\ vals' = Append(vals, acc')
           /\ UNCHANGED deltaStatus
  <2>1. acc' = Wrapped(ValueAfter(pos))
    BY <1>3, <1>4, <1>8, WrappedOnce
  <2> QED BY <1>1, <1>3, <1>7, <1>8, <2>1
<1>9. CASE /\ t.tag = "change"
           /\ acc' = Wrapped(acc + t.arg)
           /\ vals' = Append(vals, acc')
           /\ deltaStatus' \in {"decoding"} \cup (IF acc' # acc + t.arg THEN {"undefined"} ELSE {})
  <2>1. acc' = Wrapped(ValueAfter(pos))
    BY <1>3, <1>4, <1>9, WrappedTwice
  <2>2. acc' \in Int32
    <3>1. ValueAfter(pos) \in Int
      BY <1>3, <1>4, <1>9
    <3> QED BY <2>1, <3>1, WrappedFits
  <2>3. deltaStatus' # "IPMB_OK"
    BY <1>9
  <2> QED BY <1>3, <1>7, <1>9, <2>1, <2>2, <2>3
<1>10. CASE /\ t.tag = "repeat"
            /\ vals' = vals \o Repeated(t.arg)
            /\ UNCHANGED <<acc, deltaStatus>>
  <2>1. h = t.arg
    BY <1>3, <1>10
  <2>2. Repeated(t.arg) = [k \in 1 .. m |-> acc]
    BY <2>1 DEF Repeated
  <2>3. m \in Nat
    <3> HIDE DEF m
    <3> QED BY <1>2, <1>3, <1>5
  <2> DEFINE run == [k \in 1 .. m |-> acc]
  <2>4. run \in Seq(Int32) /\ Len(run) = m /\ \A k \in 1 .. m : run[k] = acc
    <3> HIDE DEF m
    <3> QED BY <1>2, <2>3
  <2>5. /\ vals' \in Seq(Int32) /\ Len(vals') = Len(vals) + m
        /\ \A k \in 1 .. Len(vals) + m :
             vals'[k] = IF k <= Len(vals) THEN vals[k] ELSE run[k - Len(vals)]
    <3>1. vals' = vals \o run
      BY <1>10, <2>2
    <3> HIDE DEF m, run
    <3> QED BY <1>2, <2>4, <3>1, ConcatProperties
  <2> HIDE DEF m, run
  <2>6. \A k \in 1 .. Len(vals) : vals'[k] = vals[k]
    BY <1>2, <2>3, <2>5
  <2>7. ASSUME NEW k \in Len(vals) + 1 .. Len(vals) + m
        PROVE  vals'[k] = acc'
    <3>1. k - Len(vals) \in 1 .. m /\ k \in 1 .. Len(vals) + m /\ ~(k <= Len(vals))
      BY <1>2, <2>3
    <3> QED BY <1>10, <2>4, <2>5, <3>1
  <2>8. acc' = Wrapped(ValueAfter(pos)) /\ acc' \in Int32 /\ deltaStatus' # "IPMB_OK"
    BY <1>1, <1>2, <1>4, <1>10
  <2> QED BY <1>6, <2>5, <2>6, <2>7, <2>8
<1>11. CASE /\ t.tag = "reset"
            /\ acc' = 0
            /\ UNCHANGED <<vals, deltaStatus>>
  <2>1. m = 0
    <3> HIDE DEF m
    <3> QED BY <1>2, <1>3, <1>5, <1>11
  <2>2. acc' = Wrapped(ValueAfter(pos)) /\ acc' \in Int32
    BY <1>4, <1>11, ZeroFits
  <2> HIDE DEF m
  <2>3. Len(vals') = Len(vals) + m /\ \A k \in Len(vals) + 1 .. Len(vals) + m : FALSE
    BY <1>2, <1>11, <2>1
  <2> QED BY <1>1, <1>2, <1>6, <1>11, <2>2, <2>3
<1> HIDE DEF h, m
<1> QED
  BY <1>8, <1>9, <1>10, <1>11 DEF Token

LEMMA DeltaDoneKeeps == DeltaInv /\ (DeltaDone \/ UNCHANGED deltaVars) => DeltaInv'
<1> SUFFICES ASSUME DeltaInv, DeltaDone \/ UNCHANGED deltaVars
             PROVE  DeltaInv'
  OBVIOUS
<1>1. /\ wire' = wire /\ cut' = cut /\ wanted' = wanted /\ pos' = pos
      /\ acc' = acc /\ vals' = vals
      /\ \/ deltaStatus = "decoding" /\ deltaStatus' = "IPMB_OK" /\ ~(More /\ ~Breaks)
         \/ deltaStatus' = deltaStatus
  BY DEF DeltaDone, deltaVars
<1>2. DeltaTypes' /\ Len(vals') <= wanted'
  BY <1>1 DEF DeltaInv, DeltaTypes
<1>3. ASSUME deltaStatus' \in {"decoding", "IPMB_OK"}
      PROVE  MeansUpTo(pos - 1)'
  <2>1. PICK P : P = pos - 1
    OBVIOUS
  <2>2. MeansUpTo(P)
    BY <1>1, <1>3, <2>1 DEF DeltaInv
  <2>3. MeansUpTo(P)'
    <3>1. /\ Arg' = Arg
          /\ \A p : ValueAfter(p)' = ValueAfter(p)
          /\ \A p : CopiesUpTo(p)' = CopiesUpTo(p)
          /\ \A i : CanBeRead(i)' = CanBeRead(i)
      BY <1>1, MeaningStays
    <3>2. DeltaEncoded(Arg)' = DeltaEncoded(Arg)
      BY <3>1 DEF DeltaEncoded
    <3>3. (\A i \in 1 .. P : CanBeRead(i))'
      BY <2>2, <3>1 DEF MeansUpTo
    <3>4. (acc = Wrapped(ValueAfter(P)))'
      BY <1>1, <2>2, <3>1 DEF MeansUpTo, Wrapped
    <3>5. (Len(vals) = Min({wanted, CopiesUpTo(P)}))'
      BY <1>1, <2>2, <3>1 DEF MeansUpTo
    <3>6. (\A k \in 1 .. Len(vals) :
             \E q \in 1 .. P : /\ CopiesUpTo(q - 1) < k /\ k <= CopiesUpTo(q)
                               /\ vals[k] = Wrapped(ValueAfter(q)))'
      BY <1>1, <2>2, <3>1 DEF MeansUpTo, Wrapped
    <3>7. (wire = DeltaEncoded(Arg) =>
             Len(vals) = P /\ \A k \in 1 .. P : vals[k] = wire[k].arg)'
      BY <1>1, <2>2, <3>2 DEF MeansUpTo
    <3> QED BY <3>3, <3>4, <3>5, <3>6, <3>7 DEF MeansUpTo
  <2>4. pos' - 1 = P
    BY <1>1, <2>1
  <2> QED BY <2>3, <2>4
<1>4. ASSUME deltaStatus' = "IPMB_OK"
      PROVE  ~(More /\ ~Breaks)'
  <2>1. ~(More /\ ~Breaks)
    BY <1>1, <1>4 DEF DeltaInv
  <2> QED BY <1>1, <2>1 DEF More, Breaks, Operand
<1> QED BY <1>2, <1>3, <1>4 DEF DeltaInv

LEMMA DeltaNextInv == DeltaInv /\ [DeltaNext]_deltaVars => DeltaInv'
  BY DeltaStartKeeps, TokenKeeps, DeltaDoneKeeps DEF DeltaNext

LEMMA DeltaTells == DeltaInv => DeltaMeaning
<1> SUFFICES ASSUME DeltaInv, deltaStatus = "IPMB_OK"
             PROVE  /\ Len(vals) = Min({wanted, CopiesUpTo(Readable)})
                    /\ \A k \in DOMAIN vals :
                         \E p \in 1 .. Readable :
                           /\ CopiesUpTo(p - 1) < k /\ k <= CopiesUpTo(p)
                           /\ vals[k] = Wrapped(ValueAfter(p))
                    /\ wire = DeltaEncoded(Arg) => IsPrefix(vals, Arg)
  BY DEF DeltaMeaning, DeltaInv
<1> DEFINE S == {p \in 0 .. Len(wire) : \A i \in 1 .. p : CanBeRead(i)}
           c == CopiesUpTo(pos - 1)
           d == CopiesUpTo(Readable)
<1>1. /\ DeltaTypes /\ MeansUpTo(pos - 1) /\ ~(More /\ ~Breaks) /\ Len(vals) <= wanted
      /\ wire \in Seq(DeltaToken) /\ pos \in 1 .. Len(wire) + 1 /\ Len(wire) \in Nat
      /\ pos - 1 \in 0 .. Len(wire) /\ wanted \in Nat /\ vals \in Seq(Int32)
      /\ Len(vals) \in Nat /\ pos \in Nat
  BY DEF DeltaInv, DeltaTypes
<1>2. Readable \in S /\ \A k \in S : k <= Readable
  <2>1. S \in SUBSET (0 .. Len(wire)) /\ S # {}
    <3>1. 0 \in S
      BY <1>1
    <3> QED BY <3>1
  <2>2. Max(S) \in S /\ \A k \in S : k <= Max(S)
    <3> HIDE DEF S
    <3> QED BY <1>1, <2>1, LargestIs
  <2>3. Readable = Max(S)
    BY DEF Readable
  <2> HIDE DEF S
  <2> QED BY <2>2, <2>3
<1>3. pos - 1 <= Readable /\ Readable \in 0 .. Len(wire) /\ Readable \in pos - 1 .. Len(wire)
  <2>1. pos - 1 \in S
    BY <1>1 DEF MeansUpTo
  <2>2. pos - 1 <= Readable
    <3> HIDE DEF S
    <3> QED BY <1>2, <2>1
  <2>3. Readable \in 0 .. Len(wire)
    BY <1>2
  <2> QED BY <1>1, <2>2, <2>3
<1>4. c \in Nat /\ d \in Nat /\ c <= d
  BY <1>1, <1>3, CopiesCount, CopiesGrow
<1>5. Len(vals) = IF wanted <= c THEN wanted ELSE c
  <2>1. Len(vals) = Min({wanted, c})
    BY <1>1 DEF MeansUpTo
  <2> HIDE DEF c
  <2> QED BY <1>1, <1>4, <2>1, MinOfTwo
<1>6. Len(vals) = wanted \/ Readable = pos - 1
  <2> SUFFICES ASSUME Len(vals) < wanted
               PROVE  Readable = pos - 1
    BY <1>1
  <2>1. CASE pos > Len(wire)
    BY <1>1, <1>3, <2>1
  <2>2. CASE pos <= Len(wire)
    <3>1. Breaks
      BY <1>1, <2>2 DEF More
    <3>2. ~CanBeRead(pos)
      BY <3>1 DEF Breaks, CanBeRead
    <3>3. ~(pos <= Readable)
      BY <1>1, <1>2, <3>2
    <3> QED BY <1>1, <1>3, <3>3
  <2> QED BY <1>1, <2>1, <2>2
<1>7. Len(vals) = Min({wanted, d})
  <2>1. Readable = pos - 1 => c = d
    OBVIOUS
  <2> HIDE DEF c, d
  <2> DEFINE e == Min({wanted, d})
  <2>2. e = IF wanted <= d THEN wanted ELSE d
    BY <1>1, <1>4, MinOfTwo
  <2> HIDE DEF e
  <2>3. Len(vals) = e
    BY <1>1, <1>4, <1>5, <1>6, <2>1, <2>2
  <2> QED BY <2>3 DEF e
<1>8. ASSUME NEW k \in DOMAIN vals
      PROVE  \E p \in 1 .. Readable : /\ CopiesUpTo(p - 1) < k /\ k <= CopiesUpTo(p)
                                      /\ vals[k] = Wrapped(ValueAfter(p))
  <2>1. k \in 1 .. Len(vals)
    BY <1>1
  <2>2. PICK q \in 1 .. pos - 1 : /\ CopiesUpTo(q - 1) < k /\ k <= CopiesUpTo(q)
                                  /\ vals[k] = Wrapped(ValueAfter(q))
    BY <1>1, <2>1 DEF MeansUpTo
  <2>3. q \in 1 .. Readable
    BY <1>1, <1>3
  <2> QED BY <2>2, <2>3
<1>9. ASSUME wire = DeltaEncoded(Arg)
      PROVE  IsPrefix(vals, Arg)
  <2>1. Len(vals) = pos - 1 /\ \A k \in 1 .. pos - 1 : vals[k] = wire[k].arg
    BY <1>1, <1>9 DEF MeansUpTo
  <2>2. Arg \in Seq(Int) /\ Len(Arg) = Len(wire) /\ \A k \in 1 .. Len(wire) : Arg[k] = wire[k].arg
    <3>1. Arg \in [1 .. Len(wire) -> Int] /\ DOMAIN wire = 1 .. Len(wire)
      BY <1>1, TokenTypes
    <3> QED BY <1>1, <3>1 DEF Arg
  <2>3. vals \in Seq(Int)
    <3>1. Int32 \subseteq Int
      BY DeltaAssumption DEF Int32
    <3>2. \A k \in 1 .. Len(vals) : vals[k] \in Int
      BY <1>1, <3>1, ElementOfSeq
    <3>3. vals \in Seq(Int32)
      BY <1>1
    <3>4. Len(vals) \in Nat /\ vals \in [1 .. Len(vals) -> Int]
      BY <3>2, <3>3
    <3> QED BY <3>4
  <2> DEFINE n == Len(vals)
             a == SubSeq(vals, 1, n)
             b == SubSeq(Arg, 1, n)
  <2>4. n \in Nat /\ n <= Len(Arg) /\ n \in 0 .. Len(vals) /\ n \in 0 .. Len(Arg)
    BY <1>1, <2>1, <2>2
  <2>5. a \in Seq(Int) /\ Len(a) = n /\ \A k \in 1 .. n : a[k] = vals[k]
    BY <2>3, <2>4, SubSeqProperties
  <2>6. b \in Seq(Int) /\ Len(b) = n /\ \A k \in 1 .. n : b[k] = Arg[k]
    BY <2>2, <2>4, SubSeqProperties
  <2>7. \A k \in 1 .. n : a[k] = b[k]
    <3> HIDE DEF a, b
    <3>1. \A k \in 1 .. n : k \in 1 .. Len(wire) /\ k \in 1 .. pos - 1
      BY <1>1, <2>1
    <3> QED BY <2>1, <2>2, <2>5, <2>6, <3>1
  <2>8. a = b
    <3> HIDE DEF a, b, n
    <3> QED BY <2>5, <2>6, <2>7, SeqEqual
  <2> QED BY <2>4, <2>8 DEF IsPrefix
<1> HIDE DEF S, c
<1> QED BY <1>7, <1>8, <1>9

(* What a delta decoder returns is what the tokens it could read mean, for *)
(* any tokens, count and width of an int, and it never writes a value more *)
(* than the count says.                                                    *)
THEOREM DeltaMeaningAlways == DeltaSpec => []DeltaMeaning
BY DeltaInitInv, DeltaNextInv, DeltaTells, PTL DEF DeltaSpec

==============================================================================
