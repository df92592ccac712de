---------------------------- MODULE MCReplayEngine ----------------------------
(* Replays with two sessions over two addresses: a terminated session's    *)
(* address is reused by the other one, or by its own next incarnation.     *)
EXTENDS ReplayEngine, TLC

\* bounds of the runs
Records ==
  [type : {"ESTABLISH", "TERMINATE"}, session_id : SessionId,
   peer_id : PeerId, payload : Chunk]
  \cup [type : {"CHECKPOINT", "ROLLBACK"}, session_id : {CHOOSE s \in SessionId : TRUE},
        peer_id : PeerId, payload : {NoChunk}]
  \cup [type : {"UPDATE", "MIGRATE"}, session_id : {CHOOSE s \in SessionId : TRUE},
        peer_id : PeerId, payload : {NoChunk}]

Symmetry == Permutations(Addr)
=============================================================================
