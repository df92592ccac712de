---------------------------- MODULE CheckpointStore ----------------------------
(***************************************************************************)
(* The checkpoint store (src/session/checkpoint_store.c): a growing array  *)
(* of items, one per session, each with a growing buffer of its own.       *)
(* append adds bytes to a session's buffer; migrate replaces a session's   *)
(* buffer by a copy of another's.                                          *)
(*                                                                         *)
(* A buffer is the sequence of its used bytes.  What the C standard leaves *)
(* undefined is a choice: a byte written or read past the end of a buffer, *)
(* or an item read where the array was before it moved, is as intended, or *)
(* makes the store "undefined" from then on; a byte past the end need not  *)
(* survive the next realloc.                                               *)
(*                                                                         *)
(* written and touched are auxiliary: what the calls that succeeded put in *)
(* each session, and the sessions that a migrate ever wrote to.            *)
(***************************************************************************)
EXTENDS Naturals, Sequences

CONSTANTS
  SessionId,     \* session ids
  Byte,          \* bytes
  Payload,       \* what can be appended: some sequences of bytes
  Garbage,       \* a byte of memory that nobody wrote
  NULL,          \* the null pointer
  FirstItems,    \* items the first growth of the array makes room for (4)
  FirstBytes,    \* the first capacity of a buffer (16)
  MaxUsed,       \* bound: bytes of one session
  AllocMayFail   \* whether realloc may return NULL

Item == [session_id : SessionId, buf : Seq(Byte \cup {Garbage}) \cup {NULL},
         used : Nat, capacity : Nat]

ASSUME StoreAssumption ==
  /\ Payload \subseteq Seq(Byte)
  /\ Garbage \notin Byte
  /\ NULL \notin Seq(Byte \cup {Garbage})
  /\ FirstItems \in Nat \ {0}
  /\ FirstBytes \in Nat \ {0}
  /\ MaxUsed \in Nat
  /\ AllocMayFail \in BOOLEAN

VARIABLES
  items,      \* store->items[0 .. store->count - 1]
  capacity,   \* store->capacity
  status,     \* what the last call returned, IPMB_OK when it returns nothing
  state,      \* "ok" or "undefined"
  written,    \* auxiliary: the bytes each session should hold
  touched     \* auxiliary: destinations of migrates

vars == <<items, capacity, status, state, written, touched>>

TypeOK ==
  /\ items \in Seq(Item)
  /\ capacity \in Nat
  /\ Len(items) <= capacity
  /\ status \in {"IPMB_OK", "IPMB_ERR_ALLOC", "IPMB_ERR_NOT_FOUND"}
  /\ state \in {"ok", "undefined"}
  /\ written \in [SessionId -> Seq(Byte)]
  /\ touched \subseteq SessionId

Init ==
  /\ items = <<>>
  /\ capacity = 0
  /\ status = "IPMB_OK"
  /\ state = "ok"
  /\ written = [sid \in SessionId |-> <<>>]
  /\ touched = {}

-----------------------------------------------------------------------------

IsFirst(k, sid) ==
  /\ items[k].session_id = sid
  /\ \A m \in 1 .. k - 1 : items[m].session_id # sid

IsLast(k, sid) ==
  /\ items[k].session_id = sid
  /\ \A m \in k + 1 .. Len(items) : items[m].session_id # sid

Known(sid) == \E k \in DOMAIN items : items[k].session_id = sid

Full == Len(items) = capacity

NewItem(sid) == [session_id |-> sid, buf |-> NULL, used |-> 0, capacity |-> 0]

(* find_or_add: the session is at place k of array, which is the items as  *)
(* they were or with an empty item added, in an array twice as large when  *)
(* it was full.                                                            *)
FindOrAdd(sid, k, array) ==
  \/ /\ k \in DOMAIN items
     /\ IsFirst(k, sid)
     /\ array = items
     /\ UNCHANGED capacity
  \/ /\ ~Known(sid)
     /\ k = Len(items) + 1
     /\ array = Append(items, NewItem(sid))
     /\ capacity' = IF ~Full THEN capacity
                    ELSE IF capacity = 0 THEN FirstItems ELSE 2 * capacity

Places == 1 .. Len(items) + 1
Arrays(sid) == {items, Append(items, NewItem(sid))}

(* find_or_add returns NULL: the array could not be grown. *)
CannotAdd(sid) == AllocMayFail /\ ~Known(sid) /\ Full

(* Mutant: the capacity is grown once, enough or not. *)
GrownOnce(cap, need) == IF cap = 0 THEN FirstBytes ELSE cap + cap \div 2 + 1

(* The loop of ipmb_checkpoint_append that finds the next capacity. *)
Grown(cap, need) ==
  LET grow[c \in Nat] == IF c >= need THEN c ELSE grow[c + c \div 2 + 1]
  IN grow[IF cap = 0 THEN FirstBytes ELSE cap]

(* The bytes a buffer may hold once it has been reallocated: nobody wrote  *)
(* a new buffer, and a byte past the end of the old one may be lost.  A    *)
(* buffer of capacity 0 that exists has room for one byte.                 *)
PastEnd(it) == it.used > it.capacity /\ it.used > 1

Reallocated(it) ==
  IF it.buf = NULL THEN {[n \in 1 .. it.used |-> Garbage]}
  ELSE {it.buf} \cup
       (IF PastEnd(it) THEN {[it.buf EXCEPT ![it.used] = Garbage]} ELSE {})

(* Mutant: the result of realloc is stored before it is looked at. *)
UngrownForgotten(it, need) == [it EXCEPT !.buf = NULL]

Ungrown(it, need) == it

Refused == status' = "IPMB_ERR_ALLOC" /\ UNCHANGED <<state, written>>

(* ipmb_checkpoint_append. *)
AppendTo(array, k, sid, payload) ==
  LET it == array[k]
      need == it.used + Len(payload)
  IN /\ need <= MaxUsed
     /\ \/ /\ need > it.capacity
           /\ \E kept \in Reallocated(it) :
                items' = [array EXCEPT
                  ![k] = [it EXCEPT !.buf = kept \o payload, !.used = need,
                                    !.capacity = Grown(it.capacity, need)]]
           /\ written' = [written EXCEPT ![sid] = @ \o payload]
           /\ status' = "IPMB_OK"
           /\ UNCHANGED state
        \/ /\ need > it.capacity
           /\ AllocMayFail
           /\ items' = [array EXCEPT ![k] = Ungrown(it, need)]
           /\ Refused
        \/ /\ need <= it.capacity
           /\ it.buf # NULL \/ payload = <<>>
           /\ items' = [array EXCEPT
                ![k] = [it EXCEPT !.buf = IF payload = <<>> THEN @ ELSE @ \o payload,
                                  !.used = need]]
           /\ written' = [written EXCEPT ![sid] = @ \o payload]
           /\ status' = "IPMB_OK"
           /\ UNCHANGED state
        \/ /\ need <= it.capacity
           /\ it.buf = NULL
           /\ payload # <<>>
           /\ state' = "undefined"
           /\ items' = array
           /\ UNCHANGED <<status, written>>

CheckpointAppend(sid, payload) ==
  /\ state = "ok"
  /\ UNCHANGED touched
  /\ \/ \E k \in Places, array \in Arrays(sid) :
          FindOrAdd(sid, k, array) /\ AppendTo(array, k, sid, payload)
     \/ /\ CannotAdd(sid)
        /\ UNCHANGED <<items, capacity>>
        /\ Refused

(* Mutant: only the bytes that fit in the new capacity are copied. *)
CopiedShort(src, dst, it) ==
  {IF it.buf = NULL THEN NULL ELSE SubSeq(it.buf, 1, it.used - 1)}

(* The bytes that migrate copies.  On the session itself the buffer has    *)
(* just been cut one byte short, so the last byte is read past its end.    *)
Copied(src, dst, it) ==
  IF src # dst THEN {it.buf}
  ELSE Reallocated([it EXCEPT !.capacity = IF it.used > 0 THEN it.used - 1 ELSE 0])

(* The source found before the destination was added may be gone.          *)
SourceMoved(dst) == ~Known(dst) /\ Full

(* ipmb_checkpoint_migrate once both items are known.                      *)
MigrateInto(array, k, src, dst, s) ==
  LET it == array[s]
      migrated == IF it.used > 0 THEN it.used - 1 ELSE 0
  IN \/ /\ \E bytes \in Copied(src, dst, it) :
             items' = [array EXCEPT
               ![k] = [@ EXCEPT !.buf = IF bytes = NULL THEN <<>> ELSE bytes,
                                !.used = it.used, !.capacity = migrated]]
        /\ src # dst => it.buf # NULL \/ it.used = 0
        /\ written' = [written EXCEPT ![dst] = written[src]]
        /\ status' = "IPMB_OK"
        /\ UNCHANGED state
     \/ /\ AllocMayFail
        /\ items' = [array EXCEPT ![k].buf = NULL]
        /\ Refused
     \/ /\ \/ it.used > 1
           \/ it.buf = NULL /\ it.used > 0 /\ src # dst
           \/ SourceMoved(dst)
        /\ state' = "undefined"
        /\ items' = array
        /\ UNCHANGED <<status, written>>

Migrate(src, dst) ==
  /\ state = "ok"
  /\ \/ /\ ~Known(src)
        /\ status' = "IPMB_ERR_NOT_FOUND"
        /\ UNCHANGED <<items, capacity, state, written, touched>>
     \/ \E s \in DOMAIN items, k \in Places, array \in Arrays(dst) :
          /\ IsLast(s, src)
          /\ FindOrAdd(dst, k, array)
          /\ MigrateInto(array, k, src, dst, s)
          /\ touched' = touched \cup {dst}
     \/ /\ Known(src)
        /\ CannotAdd(dst)
        /\ UNCHANGED <<items, capacity, touched>>
        /\ Refused

(* ipmb_checkpoint_store_free. *)
FreeStore ==
  /\ state = "ok"
  /\ items' = <<>>
  /\ capacity' = 0
  /\ written' = [sid \in SessionId |-> <<>>]
  /\ touched' = {}
  /\ status' = "IPMB_OK"
  /\ UNCHANGED state

Stopped == state = "undefined" /\ UNCHANGED vars

Next ==
  \/ \E sid \in SessionId, payload \in Payload : CheckpointAppend(sid, payload)
  \/ \E src, dst \in SessionId : Migrate(src, dst)
  \/ FreeStore
  \/ Stopped

Spec == Init /\ [][Next]_vars

-----------------------------------------------------------------------------

(* Every session has one item: append and migrate, which look it up from   *)
(* opposite ends, and migrate's two lookups, mean the same one.            *)
UniqueSessions ==
  \A j, k \in DOMAIN items : items[j].session_id = items[k].session_id => j = k

(* A session has one item, and one that nothing was migrated to holds      *)
(* exactly the bytes appended to it, in order, within its capacity,        *)
(* whatever happened to the others, to the array and to calls that failed; *)
(* so appends alone never reach undefined behaviour.                       *)
AppendsKept ==
  /\ UniqueSessions
  /\ state = "undefined" => touched # {}
  /\ \A k \in DOMAIN items :
       LET it == items[k]
       IN it.session_id \notin touched =>
            /\ it.used = Len(written[it.session_id])
            /\ it.used <= it.capacity
            /\ it.used > 0 => it.buf = written[it.session_id]

(* A migrated session holds the source's bytes; at most its capacity is    *)
(* one short of them, and bytes are lost only to memory nobody wrote,      *)
(* never replaced by bytes of another session.                             *)
MigratesBounded ==
  \A k \in DOMAIN items :
    LET it == items[k]
    IN it.buf # NULL =>
         /\ Len(it.buf) = it.used
         /\ it.used = Len(written[it.session_id])
         /\ it.used <= it.capacity + 1
         /\ \A n \in 1 .. it.used : it.buf[n] \in {written[it.session_id][n], Garbage}

(* ipmb_check_checkpoint_consistency (src/session/consistency_checker.c):  *)
(* what it asks of a checkpoint that is not NULL.                          *)
Consistent(cp) ==
  /\ cp.used <= cp.capacity
  /\ ~(cp.used > 0 /\ cp.buf = NULL)

(* Every item of the store passes the consistency check.                   *)
ConsistencyRule == \A k \in DOMAIN items : Consistent(items[k])

(* A call that fails for want of memory leaves every session as it was,    *)
(* with one exception: a migrate whose realloc fails forgets the buffer of *)
(* its destination, and of no other, but not its length.                   *)
FailuresForgetOnlyDestination ==
  [][status' = "IPMB_ERR_ALLOC" =>
       \A k \in DOMAIN items :
         \/ items'[k] = items[k]
         \/ /\ \E src \in SessionId : Migrate(src, items[k].session_id)
            /\ items'[k] = [items[k] EXCEPT !.buf = NULL]]_vars

=============================================================================
