------------------------------ MODULE SessionMap ------------------------------
(***************************************************************************)
(* What a session tracker promises its callers: a partial map from session *)
(* ids to what is known of the session.  Nothing is said here of chains,   *)
(* addresses or memory.                                                    *)
(***************************************************************************)
EXTENDS Naturals, Sequences

CONSTANTS SessionId, PeerId, Chunk, NoChunk, Absent

Session == [session_id : SessionId, peer_id : PeerId,
            updates : Nat, state : Seq(Chunk)]

VARIABLE sessions

Init == sessions = [sid \in SessionId |-> Absent]

Fresh(sid, peer) ==
  [session_id |-> sid, peer_id |-> peer, updates |-> 0, state |-> <<>>]

(* A session keeps the peer it was first seen with. *)
Before(sid, peer) ==
  IF sessions[sid] = Absent THEN Fresh(sid, peer) ELSE sessions[sid]

(* One update is counted and its payload comes last in the state. *)
Update(sid, peer, payload) ==
  LET s == Before(sid, peer)
  IN sessions' = [sessions EXCEPT ![sid] =
       [s EXCEPT !.updates = @ + 1,
                 !.state = IF payload = NoChunk THEN @ ELSE Append(@, payload)]]

(* An update that is refused leaves a known session as it was, and may     *)
(* leave an unknown one behind without any update.                         *)
Refuse(sid, peer) ==
  sessions' = [sessions EXCEPT ![sid] = Before(sid, peer)]

Remove(sid) ==
  /\ sessions[sid] # Absent
  /\ sessions' = [sessions EXCEPT ![sid] = Absent]

Clear == sessions' = [sid \in SessionId |-> Absent]

Next ==
  \/ \E sid \in SessionId, peer \in PeerId :
       \/ \E payload \in Chunk \cup {NoChunk} : Update(sid, peer, payload)
       \/ Refuse(sid, peer)
  \/ \E sid \in SessionId : Remove(sid)
  \/ Clear

Spec == Init /\ [][Next]_sessions

=============================================================================
