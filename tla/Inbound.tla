------------------------------- MODULE Inbound -------------------------------
(***************************************************************************)
(* The inbound path: a caller parses a message, decodes the payload of     *)
(* each of its frames, and frees everything, as the integration test, the  *)
(* pipeline fuzzer and the tools do; or it parses a journal, as            *)
(* ipmb_replay_bytes does.  The decoder of a payload is not told by the    *)
(* frame: any of them is given any payload.                                *)
(***************************************************************************)
EXTENDS MessageReader, TelemetryExtractor, RegisterMap, Fragments, JournalParser,
        FiniteSetsExt

VARIABLES
  stage,       \* "idle", "message", "frames", "journal", "done", "gave up"
  frame,       \* the frame whose payload is decoded
  layer        \* the decoder that works on it, "none" between two frames

inboundVars == <<msgVars, batchVars, mapVars, fragVars, jrnVars, stage, frame, layer>>

Layer == {"telemetry", "registers", "fragments"}

Init ==
  /\ MessageInit
  /\ BatchInit
  /\ MapInit
  /\ FragInit
  /\ JournalInit
  /\ stage = "idle"
  /\ frame = 0
  /\ layer = "none"

-----------------------------------------------------------------------------

Begin ==
  /\ stage = "idle"
  /\ stage' \in {"message", "journal"}
  /\ UNCHANGED <<msgVars, batchVars, mapVars, fragVars, jrnVars, frame, layer>>

Receive ==
  /\ stage = "message"
  /\ ParseMessage
  /\ UNCHANGED <<batchVars, mapVars, fragVars, jrnVars, stage, frame, layer>>

(* A message that was refused is not freed: there is nothing to free. *)
Reject ==
  /\ stage = "message"
  /\ msgStatus \in Failure
  /\ stage' = "done"
  /\ UNCHANGED <<msgVars, batchVars, mapVars, fragVars, jrnVars, frame, layer>>

Accept ==
  /\ stage = "message"
  /\ msgStatus = "IPMB_OK"
  /\ stage' = "frames"
  /\ frame' = 1
  /\ UNCHANGED <<msgVars, batchVars, mapVars, fragVars, jrnVars, layer>>

(* ipmb-route takes a message without frames for one that was refused. *)
GiveUp ==
  /\ stage = "message"
  /\ msgStatus = "IPMB_OK"
  /\ msg.frame_count = 0
  /\ stage' = "gave up"
  /\ UNCHANGED <<msgVars, batchVars, mapVars, fragVars, jrnVars, frame, layer>>

Pick ==
  /\ stage = "frames"
  /\ layer = "none"
  /\ frame <= msg.frame_count
  /\ layer' \in Layer
  /\ UNCHANGED <<msgVars, batchVars, mapVars, fragVars, jrnVars, stage, frame>>

Payload == {msg.frames[frame].payload_len}

Decode ==
  /\ stage = "frames"
  /\ \/ /\ layer = "telemetry"
        /\ ExtractTelemetry(Payload)
        /\ UNCHANGED <<mapVars, fragVars>>
     \/ /\ layer = "registers"
        /\ DecodeRegisterMap(Payload)
        /\ UNCHANGED <<batchVars, fragVars>>
     \/ /\ layer = "fragments"
        /\ ParseFragments(Payload)
        /\ UNCHANGED <<batchVars, mapVars>>
  /\ UNCHANGED <<msgVars, jrnVars, stage, frame, layer>>

(* The caller frees what a decoder returned, and nothing when it failed;   *)
(* the locals of the decoder are gone.                                     *)
DropBatch ==
  /\ layer = "telemetry"
  /\ batchStatus \in Failure \cup {"IPMB_OK"}
  /\ IF batchStatus = "IPMB_OK" THEN BatchFreed(batch)
                                ELSE batch' = EmptyBatch /\ UNCHANGED batchHeap
  /\ batchStatus' = "idle"
  /\ batchLen' = 0 /\ batchPos' = 0 /\ batchNext' = 1
  /\ UNCHANGED <<mapVars, fragVars>>

DropMap ==
  /\ layer = "registers"
  /\ mapStatus \in Failure \cup {"IPMB_OK"}
  /\ IF mapStatus = "IPMB_OK" THEN MapFreed
                              ELSE map' = EmptyMap /\ UNCHANGED mapHeap
  /\ mapStatus' = "idle"
  /\ mapLen' = 0 /\ mapCursor' = 0 /\ mapNext' = 1 /\ mapReach' = 0
  /\ UNCHANGED <<batchVars, fragVars>>

DropFragments ==
  /\ layer = "fragments"
  /\ fragStatus \in Failure \cup {"IPMB_OK"}
  /\ fragHeap' = IF fragStatus = "IPMB_OK" THEN fragHeap \ {1} ELSE fragHeap
  /\ fragBuf' = NULL
  /\ fragStatus' = "idle"
  /\ frags' = <<>> /\ fragCount' = 0 /\ fragTotal' = 0
  /\ fragLen' = 0 /\ fragPos' = 0 /\ fragNext' = 1
  /\ UNCHANGED <<batchVars, mapVars>>

Drop ==
  /\ stage = "frames"
  /\ DropBatch \/ DropMap \/ DropFragments
  /\ layer' = "none"
  /\ frame' = frame + 1
  /\ UNCHANGED <<msgVars, jrnVars, stage>>

Close ==
  /\ stage = "frames"
  /\ layer = "none"
  /\ frame > msg.frame_count
  /\ MessageFreed
  /\ msgStatus' = "idle"
  /\ stage' = "done"
  /\ UNCHANGED <<msgLen, msgPos, msgNext, batchVars, mapVars, fragVars, jrnVars,
                 frame, layer>>

(* ipmb_replay_bytes: the journal is freed after its replay, or not there. *)
ReplayBytes ==
  /\ stage = "journal"
  /\ \/ ParseJournal /\ UNCHANGED stage
     \/ /\ jrnStatus = "IPMB_OK"
        /\ JournalFreed
        /\ jrnStatus' = "idle"
        /\ stage' = "done"
        /\ UNCHANGED <<jrnLen, jrnPos, jrnNext>>
     \/ /\ jrnStatus \in Failure
        /\ stage' = "done"
        /\ UNCHANGED jrnVars
  /\ UNCHANGED <<msgVars, batchVars, mapVars, fragVars, frame, layer>>

Ended ==
  /\ \/ stage \in {"done", "gave up"}
     \/ "undefined" \in {mapStatus, fragStatus}
  /\ UNCHANGED inboundVars

Next ==
  \/ Begin \/ Receive \/ Reject \/ Accept \/ GiveUp
  \/ Pick \/ Decode \/ Drop \/ Close \/ ReplayBytes \/ Ended

Spec == Init /\ [][Next]_inboundVars

-----------------------------------------------------------------------------

(* A message that parses is whole: every frame has its payload, and the    *)
(* frames fill the buffer from the header on, without leaving it.  One     *)
(* that counts frames it has no array of, which a lookup of its first      *)
(* frame would run into, is returned only with the three errors that are   *)
(* found between the count and the array, before any frame is read: never  *)
(* with IPMB_OK, nor when a frame is refused.                              *)
MessageWhole ==
  /\ msgStatus = "IPMB_OK" =>
       LET end[i \in 0 .. msg.frame_count] ==
             IF i = 0 THEN MessageHeaderLen
             ELSE end[i - 1] + FrameHeaderLen + msg.frames[i].payload_len + CrcLen
       IN /\ \A i \in 1 .. msg.frame_count : msg.frames[i].payload
          /\ msgPos = end[msg.frame_count]
          /\ Within(msgPos, msgLen)
  /\ HasNoArray =>
       /\ msgStatus \in {"IPMB_ERR_LIMIT", "IPMB_ERR_BAD_CRC", "IPMB_ERR_ALLOC"}
       /\ msgNext = 1 /\ msgHeap = {}

(* A decoder that is undefined has not returned. *)
PhaseOf(status) ==
  CASE status \in {"idle", "parsing"} -> status
    [] status = "undefined" -> "parsing"
    [] status = "IPMB_OK" -> "ok"
    [] OTHER -> "failed"

(* What the header claims, from when its array is there. *)
ClaimOf(status, count) == IF PhaseOf(status) \in {"parsing", "ok"} THEN count ELSE 0

MessageContract == INSTANCE AllOrNothing WITH
  MaxItems <- MaxFrames, PerItem <- 1, phase <- PhaseOf(msgStatus),
  claimed <- ClaimOf(msgStatus, msg.frame_count), heap <- msgHeap

BatchContract == INSTANCE AllOrNothing WITH
  MaxItems <- MaxPoints, PerItem <- 2, phase <- PhaseOf(batchStatus),
  claimed <- ClaimOf(batchStatus, batch.point_count), heap <- batchHeap

MapContract == INSTANCE AllOrNothing WITH
  MaxItems <- MaxFields, PerItem <- 1, phase <- PhaseOf(mapStatus),
  claimed <- ClaimOf(mapStatus, map.field_count), heap <- mapHeap

JournalContract == INSTANCE AllOrNothing WITH
  MaxItems <- MaxJournal, PerItem <- 1, phase <- PhaseOf(jrnStatus),
  claimed <- ClaimOf(jrnStatus, jrn.record_count), heap <- jrnHeap

(* Each of the four parsers of counted arrays returns IPMB_OK only with    *)
(* the array and the buffers of every item that the header claims, and     *)
(* leaves nothing to free with an error: whichever item is short, too long *)
(* or corrupt, and whichever of the allocations fails, although the        *)
(* extractor allocates two buffers per point before it looks at either.    *)
(* What it returned, the caller's free releases to the last block.         *)
AllOrNothingParsed ==
  /\ MessageContract!Spec
  /\ BatchContract!Spec
  /\ MapContract!Spec
  /\ JournalContract!Spec

(* The decoder reads behind the payload only for a field that ends within  *)
(* the length of the header and the table from the end of the payload, and *)
(* by no more than that length.                                            *)
OverreadBounded ==
  /\ mapReach <= mapLen + mapCursor
  /\ mapStatus = "undefined" => mapReach > mapLen

(* A payload that is reassembled holds at each byte what the last fragment *)
(* that covers it had there, and 0 where there is none: fragments may come *)
(* in any order, and disjoint ones all survive.                            *)
FragmentsPlaced ==
  fragStatus = "IPMB_OK" =>
    \A p \in 0 .. fragTotal - 1 :
      LET covering == {i \in 1 .. fragCount : p \in Span(frags[i])}
      IN fragBuf[p] = IF covering = {} THEN 0 ELSE Max(covering)

(* A fragment is copied to outside of the buffer only if its end does not  *)
(* fit into 32 bits.                                                       *)
OverflowExplained ==
  fragStatus = "undefined" =>
    \E i \in 1 .. fragCount : frags[i].offset + frags[i].length >= Word

(* When the caller is done nothing is allocated, except the array of a     *)
(* message without frames when ipmb-route gives up on it.                  *)
NothingLeft ==
  /\ stage \in {"done", "gave up"} =>
       batchHeap = {} /\ mapHeap = {} /\ fragHeap = {} /\ jrnHeap = {}
  /\ stage = "done" => msgHeap = {}
  /\ stage = "gave up" => msgHeap = {0}

=============================================================================
