------------------------ MODULE CheckpointStoreProofs ------------------------
(***************************************************************************)
(* Proofs about the checkpoint store, for any number of sessions, bytes    *)
(* and calls.  The invariant relates every item to what was written to its *)
(* session (Sound), whether the item stands in the store's array or in the *)
(* array that find_or_add hands on (Good).                                 *)
(*                                                                         *)
(* The growth of a buffer is a loop, here a recursive function; that there *)
(* is such a function is shown by giving one (GrowExists), that the loop   *)
(* ends with a capacity that is enough, by counting (GrowEnds).            *)
(***************************************************************************)
EXTENDS CheckpointStore, FiniteSetTheorems, TLAPS

(* One turn of the loop. *)
Larger(c) == c + c \div 2 + 1

IsGrow(g, need) == g = [c \in Nat |-> IF c >= need THEN c ELSE g[Larger(c)]]

LEMMA LargerRises ==
  /\ \A c \in Nat : Larger(c) \in Nat /\ Larger(c) > c
  /\ \A c, d \in Nat : Larger(c) = Larger(d) => c = d
<1>1. \A c \in Nat : Larger(c) \in Nat /\ Larger(c) > c
  BY DEF Larger
<1>2. ASSUME NEW c \in Nat, NEW d \in Nat, c < d
      PROVE  Larger(c) < Larger(d)
  <2>1. c \div 2 <= d \div 2
    BY <1>2
  <2> QED
    BY <2>1, <1>2 DEF Larger
<1> QED
  BY <1>1, <1>2

(* The loop ends: capacities it could not lead from to one that is enough   *)
(* would be mapped into all of them but one by a step of the loop, which    *)
(* gives no value twice.                                                    *)
LEMMA GrowEnds ==
  ASSUME NEW need \in Nat, NEW g, IsGrow(g, need), NEW c \in Nat
  PROVE  g[c] \in Nat /\ g[c] >= need
<1> DEFINE T == {d \in Nat : d >= c /\ ~(g[d] \in Nat /\ g[d] >= need)}
<1> SUFFICES ASSUME c \in T
             PROVE  FALSE
  OBVIOUS
<1>1. \A d \in T : d < need /\ Larger(d) \in T /\ Larger(d) # c
  <2>1. \A d \in Nat : g[d] = IF d >= need THEN d ELSE g[Larger(d)]
    BY LargerRises DEF IsGrow
  <2> QED
    BY <2>1, LargerRises
<1>2. IsFiniteSet(T)
  <2>1. T \in SUBSET Nat /\ \A d \in T : d <= need
    BY <1>1
  <2> QED
    BY <2>1, FS_BoundedSetOfNaturals
<1>3. IsFiniteSet(T \ {c}) /\ Cardinality(T \ {c}) = Cardinality(T) - 1
  BY <1>2, FS_RemoveElement
<1>4. Cardinality(T) \in Nat
  BY <1>2, FS_CardinalityType
<1> DEFINE f == [d \in T |-> Larger(d)]
<1>5. f \in [T -> T \ {c}]
  BY <1>1
<1>6. PICK d, e \in T : d # e /\ f[d] = f[e]
  <2>1. Cardinality(T \ {c}) < Cardinality(T)
    <3> HIDE DEF T
    <3> QED
      BY <1>3, <1>4
  <2> HIDE DEF T, f
  <2> QED
    BY Zenon, <1>2, <1>3, <1>5, <2>1, FS_PigeonHole
<1> QED
  BY <1>6, LargerRises

(* The capacities the loop may come by from c, and those of them that are enough. *)
Passes(c, need) ==
  {x \in Nat : \A S \in SUBSET Nat :
     (c \in S /\ \A d \in S : d < need => Larger(d) \in S) => x \in S}

Enough(c, need) == {x \in Passes(c, need) : x >= need}

LEMMA EnoughSteps ==
  ASSUME NEW need \in Nat, NEW c \in Nat
  PROVE  /\ c >= need => Enough(c, need) = {c}
         /\ c < need => Enough(c, need) = Enough(Larger(c), need)
<1>1. ASSUME c >= need PROVE Enough(c, need) = {c}
  <2>1. c \in Passes(c, need)
    BY DEF Passes
  <2>2. ASSUME NEW x \in Passes(c, need) PROVE x = c
    <3>1. {c} \in SUBSET Nat /\ c \in {c} /\ \A d \in {c} : d < need => Larger(d) \in {c}
      BY <1>1
    <3> QED BY <3>1, <2>2 DEF Passes
  <2> QED BY <2>1, <2>2, <1>1 DEF Enough
<1>2. ASSUME c < need PROVE Enough(c, need) = Enough(Larger(c), need)
  <2>1. ASSUME NEW x \in Passes(Larger(c), need) PROVE x \in Passes(c, need)
    <3>1. x \in Nat BY <2>1 DEF Passes
    <3>2. ASSUME NEW S \in SUBSET Nat, c \in S, \A d \in S : d < need => Larger(d) \in S
          PROVE  x \in S
      <4>1. Larger(c) \in S BY <3>2, <1>2
      <4> QED BY <4>1, <3>2, <2>1 DEF Passes
    <3> QED BY <3>1, <3>2 DEF Passes
  <2>2. ASSUME NEW x \in Passes(c, need), x >= need PROVE x \in Passes(Larger(c), need)
    <3>1. x \in Nat /\ x # c BY <2>2, <1>2 DEF Passes
    <3>2. ASSUME NEW S \in SUBSET Nat, Larger(c) \in S,
                 \A d \in S : d < need => Larger(d) \in S
          PROVE  x \in S
      <4> DEFINE U == S \cup {c}
      <4>1. U \in SUBSET Nat /\ c \in U /\ \A d \in U : d < need => Larger(d) \in U
        BY <3>2
      <4>2. x \in U BY <4>1, <2>2 DEF Passes
      <4> QED BY <4>2, <3>1
    <3> QED BY <3>1, <3>2 DEF Passes
  <2> QED BY <2>1, <2>2 DEF Enough
<1> QED BY <1>1, <1>2

LEMMA GrowExists ==
  ASSUME NEW need \in Nat
  PROVE  \E g : IsGrow(g, need)
<1> DEFINE g == [c \in Nat |-> CHOOSE x \in Enough(c, need) : TRUE]
<1>1. \A c \in Nat : c >= need => g[c] = c
  BY EnoughSteps
<1>2. \A c \in Nat : c < need => g[c] = g[Larger(c)]
  BY EnoughSteps, LargerRises
<1>3. [c \in Nat |-> IF c >= need THEN c ELSE g[Larger(c)]] = g
  <2>1. g = [c \in Nat |-> g[c]]
    OBVIOUS
  <2> HIDE DEF g
  <2>2. \A c \in Nat : (IF c >= need THEN c ELSE g[Larger(c)]) = g[c]
    BY <1>1, <1>2
  <2> QED
    BY Zenon, <2>1, <2>2
<1> QED BY <1>3 DEF IsGrow

LEMMA GrownEnough ==
  ASSUME NEW cap \in Nat, NEW need \in Nat
  PROVE  Grown(cap, need) \in Nat /\ Grown(cap, need) >= need
<1> DEFINE g == CHOOSE g : IsGrow(g, need)
<1>1. IsGrow(g, need)
  BY GrowExists
<1>2. Grown(cap, need) = g[IF cap = 0 THEN FirstBytes ELSE cap]
  BY Zenon DEF Grown, IsGrow, Larger
<1>3. (IF cap = 0 THEN FirstBytes ELSE cap) \in Nat
  BY StoreAssumption
<1> HIDE DEF g
<1> QED BY <1>1, <1>2, <1>3, GrowEnds

-----------------------------------------------------------------------------

Bytes == Seq(Byte \cup {Garbage})

(* bytes is a copy of w in which some may be lost. *)
CopyOf(bytes, w) ==
  /\ bytes \in Bytes
  /\ Len(bytes) = Len(w)
  /\ \A n \in 1 .. Len(w) : bytes[n] \in {w[n], Garbage}

(* What an item is worth when w was written to its session, and moved says *)
(* whether a migrate did so.                                               *)
Sound(it, w, moved) ==
  /\ it.used = Len(w)
  /\ it.used <= it.capacity + 1
  /\ it.buf # NULL => CopyOf(it.buf, w)
  /\ ~moved => /\ it.used <= it.capacity
               /\ it.buf = NULL => it.capacity = 0
               /\ it.used > 0 => it.buf = w

Good(array, w, t) ==
  /\ array \in Seq(Item)
  /\ \A i, j \in DOMAIN array : array[i].session_id = array[j].session_id => i = j
  /\ \A i \in DOMAIN array :
       Sound(array[i], w[array[i].session_id], array[i].session_id \in t)
  /\ \A sid \in SessionId :
       (\A i \in DOMAIN array : array[i].session_id # sid) => w[sid] = <<>>

StoreInv ==
  /\ TypeOK
  /\ Good(items, written, touched)
  /\ state = "undefined" => touched # {}

LEMMA ItemType ==
  ASSUME NEW it \in Item
  PROVE  /\ it.session_id \in SessionId /\ it.used \in Nat /\ it.capacity \in Nat
         /\ it.buf \in Bytes \cup {NULL}
         /\ it = [session_id |-> it.session_id, buf |-> it.buf,
                  used |-> it.used, capacity |-> it.capacity]
BY DEF Item, Bytes

LEMMA NullIsNoBuffer == NULL \notin Bytes
BY StoreAssumption DEF Bytes

LEMMA EmptyCopy ==
  ASSUME NEW b, NEW w \in Seq(Byte), CopyOf(b, w), Len(w) = 0
  PROVE  b = w
<1>1. b \in Bytes /\ Len(b) = 0
  BY DEF CopyOf
<1>2. \A S : \A s \in Seq(S) : Len(s) = 0 => s = <<>>
  OBVIOUS
<1> QED
  BY <1>1, <1>2 DEF Bytes

LEMMA ReallocatedCopies ==
  ASSUME NEW it \in Item, NEW w \in Seq(Byte), it.used = Len(w),
         it.buf # NULL => CopyOf(it.buf, w),
         NEW kept \in Reallocated(it)
  PROVE  CopyOf(kept, w)
<1>1. CASE it.buf = NULL
  <2>1. kept = [n \in 1 .. Len(w) |-> Garbage]
    BY <1>1 DEF Reallocated
  <2> QED
    BY <2>1 DEF CopyOf, Bytes
<1>2. CASE it.buf # NULL /\ kept = it.buf
  BY <1>2
<1>3. CASE it.buf # NULL /\ PastEnd(it) /\ kept = [it.buf EXCEPT ![it.used] = Garbage]
  <2> DEFINE b == it.buf
             u == it.used
  <2>1. b \in Bytes /\ u \in Nat /\ u > 1 /\ u = Len(w) /\ Len(b) = u
        /\ \A n \in 1 .. u : b[n] \in {w[n], Garbage}
    BY <1>3, ItemType DEF CopyOf, PastEnd
  <2>2. kept = [b EXCEPT ![u] = Garbage]
    BY <1>3
  <2> HIDE DEF b, u
  <2>3. kept \in Bytes /\ Len(kept) = u
    BY <2>1, <2>2 DEF Bytes
  <2>4. \A n \in 1 .. u : kept[n] = IF n = u THEN Garbage ELSE b[n]
    BY <2>1, <2>2 DEF Bytes
  <2> QED
    BY <2>1, <2>3, <2>4 DEF CopyOf
<1> QED
  BY <1>1, <1>2, <1>3 DEF Reallocated

LEMMA UnmovedReallocated ==
  ASSUME NEW it \in Item, NEW w \in Seq(Byte), Sound(it, w, FALSE),
         NEW kept \in Reallocated(it)
  PROVE  kept = w
<1>1. it.used \in Nat /\ it.capacity \in Nat /\ ~PastEnd(it)
  BY ItemType DEF Sound, PastEnd
<1>2. CASE it.used = 0
  <2>1. CopyOf(kept, w)
    BY ReallocatedCopies DEF Sound
  <2> QED
    BY <1>2, <2>1, EmptyCopy DEF Sound
<1>3. CASE it.used > 0
  BY <1>1, <1>3, NullIsNoBuffer DEF Sound, Reallocated, Bytes
<1> QED
  BY <1>1, <1>2, <1>3

LEMMA CopiesJoin ==
  ASSUME NEW b, NEW w \in Seq(Byte), NEW p \in Seq(Byte), CopyOf(b, w)
  PROVE  CopyOf(b \o p, w \o p)
<1>1. b \in Bytes /\ p \in Bytes /\ Len(b) = Len(w)
  BY DEF CopyOf, Bytes
<1>2. b \o p \in Bytes /\ Len(b \o p) = Len(b) + Len(p) /\ Len(w \o p) = Len(w) + Len(p)
  BY <1>1 DEF Bytes
<1>3. \A n \in 1 .. Len(w) + Len(p) :
        /\ (b \o p)[n] = IF n <= Len(b) THEN b[n] ELSE p[n - Len(b)]
        /\ (w \o p)[n] = IF n <= Len(w) THEN w[n] ELSE p[n - Len(w)]
  BY <1>1 DEF Bytes
<1> QED
  BY <1>1, <1>2, <1>3 DEF CopyOf

(* append leaves the item as append should, whether the buffer is grown... *)
LEMMA GrownSound ==
  ASSUME NEW it \in Item, NEW w \in Seq(Byte), NEW moved \in BOOLEAN,
         Sound(it, w, moved), NEW p \in Seq(Byte), NEW kept \in Reallocated(it),
         it.used + Len(p) > it.capacity
  PROVE  LET need == it.used + Len(p)
             new == [it EXCEPT !.buf = kept \o p, !.used = need,
                               !.capacity = Grown(it.capacity, need)]
         IN new \in Item /\ new.session_id = it.session_id /\ Sound(new, w \o p, moved)
<1> DEFINE need == it.used + Len(p)
           cap == Grown(it.capacity, need)
           b == kept \o p
           new == [it EXCEPT !.buf = b, !.used = need, !.capacity = cap]
<1>1. it.used \in Nat /\ it.capacity \in Nat /\ it.used = Len(w) /\ Len(p) \in Nat
  BY ItemType DEF Sound
<1>2. CopyOf(b, w \o p)
  BY ReallocatedCopies, CopiesJoin DEF Sound
<1>3. ~moved => b = w \o p
  BY UnmovedReallocated
<1>4. cap \in Nat /\ cap >= need /\ need \in Nat
  <2>1. need \in Nat
    BY <1>1
  <2> HIDE DEF need
  <2> QED
    BY <1>1, <2>1, GrownEnough
<1>5. need = Len(w \o p)
  BY <1>1
<1>6. b \in Bytes /\ b # NULL
  BY <1>2, NullIsNoBuffer DEF CopyOf
<1> HIDE DEF need, cap, b
<1>7. /\ new.session_id = it.session_id /\ new.buf = b
      /\ new.used = need /\ new.capacity = cap
  BY DEF Item
<1>8. new \in Item
  BY <1>4, <1>6 DEF Item, Bytes
<1>9. Sound(new, w \o p, moved)
  <2> HIDE DEF new
  <2> QED
    BY <1>2, <1>3, <1>4, <1>5, <1>6, <1>7 DEF Sound
<1> QED
  BY <1>7, <1>8, <1>9 DEF need, cap, b

(* ... or large enough. *)
LEMMA FittedSound ==
  ASSUME NEW it \in Item, NEW w \in Seq(Byte), NEW moved \in BOOLEAN,
         Sound(it, w, moved), NEW p \in Seq(Byte),
         it.used + Len(p) <= it.capacity,
         it.buf # NULL \/ p = <<>>
  PROVE  LET new == [it EXCEPT !.buf = IF p = <<>> THEN @ ELSE @ \o p,
                               !.used = it.used + Len(p)]
         IN new \in Item /\ new.session_id = it.session_id /\ Sound(new, w \o p, moved)
<1> DEFINE need == it.used + Len(p)
           b == IF p = <<>> THEN it.buf ELSE it.buf \o p
           new == [it EXCEPT !.buf = IF p = <<>> THEN @ ELSE @ \o p, !.used = need]
<1>1. it.used \in Nat /\ it.capacity \in Nat /\ it.used = Len(w) /\ Len(p) \in Nat
  BY ItemType DEF Sound
<1>2. it.buf # NULL => CopyOf(it.buf, w)
  BY DEF Sound
<1>3. p = <<>> => w \o p = w
  OBVIOUS
<1>4. b # NULL => CopyOf(b, w \o p)
  BY <1>2, <1>3, CopiesJoin
<1>5. b \in Bytes \cup {NULL}
  BY <1>4, ItemType DEF CopyOf
<1>6. ~moved => /\ b = NULL => it.capacity = 0
                /\ need > 0 => b = w \o p
  <2> SUFFICES ASSUME ~moved
               PROVE  /\ b = NULL => it.capacity = 0
                      /\ need > 0 => b = w \o p
    OBVIOUS
  <2>1. /\ it.buf = NULL => it.capacity = 0
        /\ it.used > 0 => it.buf = w
    BY DEF Sound
  <2>2. CASE p = <<>>
    BY <1>1, <1>3, <2>1, <2>2
  <2>3. CASE p # <<>>
    <3>1. it.buf # NULL /\ b = it.buf \o p
      BY <2>3
    <3>2. it.buf = w
      BY <1>1, <1>2, <2>1, <3>1, EmptyCopy
    <3>3. b # NULL
      <4>1. CopyOf(b, w \o p)
        BY <1>2, <3>1, CopiesJoin
      <4> QED
        BY <4>1, NullIsNoBuffer DEF CopyOf
    <3> QED
      BY <3>1, <3>2, <3>3
  <2> QED
    BY <2>2, <2>3
<1>7. need = Len(w \o p) /\ need \in Nat /\ need <= it.capacity
  BY <1>1
<1>8. new = [it EXCEPT !.buf = b, !.used = need]
  BY DEF Item
<1> HIDE DEF need, b
<1>9. /\ new.session_id = it.session_id /\ new.buf = b
      /\ new.used = need /\ new.capacity = it.capacity /\ new \in Item
  BY <1>5, <1>7, <1>8 DEF Item, Bytes
<1>10. Sound(new, w \o p, moved)
  <2> HIDE DEF new
  <2> QED
    BY <1>1, <1>4, <1>6, <1>7, <1>9 DEF Sound
<1> QED
  BY <1>9, <1>10 DEF need

-----------------------------------------------------------------------------

(* What migrate leaves in its destination: a copy of the source... *)
LEMMA MigratedSound ==
  ASSUME NEW it \in Item, NEW w \in Seq(Byte), NEW moved \in BOOLEAN,
         Sound(it, w, moved), NEW src, NEW dst, NEW bytes \in Copied(src, dst, it),
         src # dst => it.buf # NULL \/ it.used = 0, NEW old \in Item
  PROVE  LET new == [old EXCEPT !.buf = IF bytes = NULL THEN <<>> ELSE bytes,
                                !.used = it.used,
                                !.capacity = IF it.used > 0 THEN it.used - 1 ELSE 0]
         IN new \in Item /\ new.session_id = old.session_id /\ Sound(new, w, TRUE)
<1> DEFINE cap == IF it.used > 0 THEN it.used - 1 ELSE 0
           b == IF bytes = NULL THEN <<>> ELSE bytes
           new == [old EXCEPT !.buf = b, !.used = it.used, !.capacity = cap]
<1>1. it.used \in Nat /\ it.used = Len(w) /\ (it.buf # NULL => CopyOf(it.buf, w))
  BY ItemType DEF Sound
<1>2. cap \in Nat /\ it.used <= cap + 1
  BY <1>1
<1>3. CopyOf(b, w)
  <2>1. CASE src # dst /\ it.buf = NULL
    <3>1. b = <<>> /\ Len(w) = 0
      BY <1>1, <2>1 DEF Copied
    <3>2. CopyOf(<<>>, w)
      BY <3>1 DEF CopyOf, Bytes
    <3> QED
      BY <3>1, <3>2
  <2>2. CASE src # dst /\ it.buf # NULL
    BY <1>1, <2>2 DEF Copied
  <2>3. CASE src = dst
    <3> DEFINE cut == [it EXCEPT !.capacity = cap]
    <3>1. cut \in Item /\ cut.used = it.used /\ cut.buf = it.buf
      BY <1>2 DEF Item
    <3>2. bytes \in Reallocated(cut)
      BY <2>3 DEF Copied
    <3> HIDE DEF cut, cap
    <3>3. CopyOf(bytes, w)
      BY <1>1, <3>1, <3>2, ReallocatedCopies
    <3> QED
      BY <3>3, NullIsNoBuffer DEF CopyOf
  <2> QED
    BY <2>1, <2>2, <2>3
<1> HIDE DEF cap, b
<1>4. b \in Bytes
  BY <1>3 DEF CopyOf
<1>5. /\ new.session_id = old.session_id /\ new.buf = b
      /\ new.used = it.used /\ new.capacity = cap /\ new \in Item
  BY <1>1, <1>2, <1>4 DEF Item, Bytes
<1>6. Sound(new, w, TRUE)
  <2> HIDE DEF new
  <2> QED
    BY <1>1, <1>2, <1>3, <1>5 DEF Sound
<1> QED
  BY <1>5, <1>6 DEF cap, b

(* ... or no buffer. *)
LEMMA ForgottenSound ==
  ASSUME NEW it \in Item, NEW w \in Seq(Byte), NEW moved \in BOOLEAN, Sound(it, w, moved)
  PROVE  LET new == [it EXCEPT !.buf = NULL]
         IN new \in Item /\ new.session_id = it.session_id /\ Sound(new, w, TRUE)
<1> DEFINE new == [it EXCEPT !.buf = NULL]
<1>1. /\ new.session_id = it.session_id /\ new.buf = NULL
      /\ new.used = it.used /\ new.capacity = it.capacity /\ new \in Item
  BY DEF Item
<1> HIDE DEF new
<1>2. Sound(new, w, TRUE)
  BY <1>1 DEF Sound
<1> QED
  BY <1>1, <1>2 DEF new

LEMMA MovedSound ==
  ASSUME NEW it, NEW w, NEW moved \in BOOLEAN, Sound(it, w, moved)
  PROVE  Sound(it, w, TRUE)
BY DEF Sound

-----------------------------------------------------------------------------

(* A call that changes one item, and the record of its session alone. *)
LEMMA OneItemChanged ==
  ASSUME NEW array, NEW w, NEW t, Good(array, w, t),
         NEW w2, NEW t2, NEW k \in DOMAIN array, NEW it \in Item,
         it.session_id = array[k].session_id,
         Sound(it, w2[it.session_id], it.session_id \in t2),
         \A sid \in SessionId : sid # it.session_id =>
           w2[sid] = w[sid] /\ (sid \in t2 <=> sid \in t)
  PROVE  Good([array EXCEPT ![k] = it], w2, t2)
<1> DEFINE new == [array EXCEPT ![k] = it]
<1>1. array \in Seq(Item) /\ DOMAIN new = DOMAIN array /\ new \in Seq(Item)
  BY DEF Good
<1>2. \A i \in DOMAIN array : new[i] = IF i = k THEN it ELSE array[i]
  BY <1>1
<1>3. \A i \in DOMAIN array : array[i].session_id \in SessionId
  BY <1>1, ItemType
<1> HIDE DEF new
<1>4. \A i \in DOMAIN new : new[i].session_id = array[i].session_id
  BY <1>1, <1>2
<1>5. \A i, j \in DOMAIN new : new[i].session_id = new[j].session_id => i = j
  BY <1>1, <1>4 DEF Good
<1>6. ASSUME NEW i \in DOMAIN new
      PROVE  Sound(new[i], w2[new[i].session_id], new[i].session_id \in t2)
  <2>1. CASE i = k
    BY <1>1, <1>2, <2>1
  <2>2. CASE i # k
    <3>1. array[i].session_id # it.session_id /\ new[i] = array[i]
      BY <1>1, <1>2, <2>2 DEF Good
    <3>2. Sound(array[i], w[array[i].session_id], array[i].session_id \in t)
      BY <1>1 DEF Good
    <3>3. w2[array[i].session_id] = w[array[i].session_id]
          /\ (array[i].session_id \in t2) = (array[i].session_id \in t)
      BY <1>1, <1>3, <3>1
    <3> QED
      BY <3>1, <3>2, <3>3
  <2> QED
    BY <2>1, <2>2
<1>7. ASSUME NEW sid \in SessionId, \A i \in DOMAIN new : new[i].session_id # sid
      PROVE  w2[sid] = <<>>
  <2>1. \A i \in DOMAIN array : array[i].session_id # sid
    BY <1>1, <1>4, <1>7
  <2>2. sid # it.session_id
    BY <2>1
  <2> QED
    BY <2>1, <2>2 DEF Good
<1> QED
  BY <1>1, <1>5, <1>6, <1>7 DEF Good, new

LEMMA FoundOrAdded ==
  ASSUME StoreInv, NEW sid \in SessionId, NEW k, NEW array, FindOrAdd(sid, k, array)
  PROVE  /\ Good(array, written, touched)
         /\ k \in DOMAIN array
         /\ array[k].session_id = sid
         /\ capacity' \in Nat /\ Len(array) <= capacity'
         /\ \A i \in DOMAIN items : i \in DOMAIN array /\ array[i] = items[i]
<1>1. items \in Seq(Item) /\ capacity \in Nat /\ Len(items) <= capacity
      /\ Good(items, written, touched) /\ written \in [SessionId -> Seq(Byte)]
  BY DEF StoreInv, TypeOK
<1>2. CASE k \in DOMAIN items /\ IsFirst(k, sid) /\ array = items /\ UNCHANGED capacity
  BY <1>1, <1>2 DEF IsFirst
<1>3. CASE ~Known(sid) /\ k = Len(items) + 1 /\ array = Append(items, NewItem(sid))
           /\ capacity' = IF ~Full THEN capacity
                          ELSE IF capacity = 0 THEN FirstItems ELSE 2 * capacity
  <2> DEFINE new == NewItem(sid)
  <2>1. new \in Item /\ new.session_id = sid /\ new.buf = NULL /\ new.used = 0 /\ new.capacity = 0
    BY DEF NewItem, Item
  <2>2. \A i \in DOMAIN items : items[i].session_id # sid
    BY <1>3 DEF Known
  <2>3. written[sid] = <<>>
    BY <1>1, <2>2 DEF Good
  <2>4. Sound(new, <<>>, sid \in touched)
    BY <2>1 DEF Sound
  <2> HIDE DEF new
  <2>5. array \in Seq(Item) /\ DOMAIN array = 1 .. Len(items) + 1 /\ Len(array) = Len(items) + 1
        /\ array[Len(items) + 1] = new
    BY <1>1, <1>3, <2>1 DEF new
  <2>6. \A i \in DOMAIN items : i \in DOMAIN array /\ i # Len(items) + 1 /\ array[i] = items[i]
    BY <1>1, <1>3
  <2>7. \A i \in DOMAIN array : i \in DOMAIN items \/ i = Len(items) + 1
    BY <1>1, <2>5
  <2>8. \A i, j \in DOMAIN array : array[i].session_id = array[j].session_id => i = j
    BY <1>1, <2>1, <2>2, <2>5, <2>6, <2>7 DEF Good
  <2>9. \A i \in DOMAIN array :
          Sound(array[i], written[array[i].session_id], array[i].session_id \in touched)
    BY <1>1, <2>1, <2>3, <2>4, <2>5, <2>6, <2>7 DEF Good
  <2>10. \A x \in SessionId :
           (\A i \in DOMAIN array : array[i].session_id # x) => written[x] = <<>>
    BY <1>1, <2>6 DEF Good
  <2>11. Good(array, written, touched)
    BY <2>5, <2>8, <2>9, <2>10 DEF Good
  <2>12. capacity' \in Nat /\ Len(array) <= capacity'
    BY <1>1, <1>3, <2>5, StoreAssumption DEF Full
  <2>13. k \in DOMAIN array /\ array[k].session_id = sid
    BY <1>1, <1>3, <2>1, <2>5
  <2> QED
    BY <2>6, <2>11, <2>12, <2>13
<1> QED
  BY <1>2, <1>3 DEF FindOrAdd

-----------------------------------------------------------------------------

LEMMA InitInv == Init => StoreInv
<1> SUFFICES ASSUME Init
             PROVE  StoreInv
  OBVIOUS
<1>1. written \in [SessionId -> Seq(Byte)]
  BY DEF Init
<1>2. items \in Seq(Item) /\ DOMAIN items = {}
  BY DEF Init
<1>3. Good(items, written, touched)
  BY <1>1, <1>2 DEF Init, Good
<1>4. TypeOK
  BY <1>1, <1>2 DEF Init, TypeOK
<1> QED
  BY <1>3, <1>4 DEF StoreInv, Init

(* A call that leaves the items as it found them, or with one more. *)
LEMMA ArrayStays ==
  ASSUME StoreInv, NEW array, Good(array, written, touched),
         capacity' \in Nat, Len(array) <= capacity', items' = array,
         UNCHANGED <<written, touched>>,
         status' \in {"IPMB_OK", "IPMB_ERR_ALLOC", "IPMB_ERR_NOT_FOUND"},
         state' \in {"ok", "undefined"}, state' = "undefined" => touched # {}
  PROVE  StoreInv'
BY DEF StoreInv, TypeOK, Good

LEMMA ItemWritten ==
  ASSUME StoreInv, NEW array, Good(array, written, touched),
         capacity' \in Nat, Len(array) <= capacity',
         NEW k \in DOMAIN array, NEW it \in Item, it.session_id = array[k].session_id,
         items' = [array EXCEPT ![k] = it],
         NEW bytes \in Seq(Byte), written' = [written EXCEPT ![it.session_id] = bytes],
         NEW t, touched' = t, t = touched \/ t = touched \cup {it.session_id},
         Sound(it, bytes, it.session_id \in t),
         status' \in {"IPMB_OK", "IPMB_ERR_ALLOC", "IPMB_ERR_NOT_FOUND"},
         state' = "ok"
  PROVE  StoreInv'
<1>1. it.session_id \in SessionId
  BY ItemType
<1>2. written \in [SessionId -> Seq(Byte)] /\ touched \subseteq SessionId
  BY DEF StoreInv, TypeOK
<1>3. written' \in [SessionId -> Seq(Byte)] /\ written'[it.session_id] = bytes
      /\ \A sid \in SessionId : sid # it.session_id =>
           written'[sid] = written[sid] /\ (sid \in t <=> sid \in touched)
  BY <1>1, <1>2
<1>4. Good(items', written', touched')
  <2> DEFINE w2 == written'
  <2>1. Sound(it, w2[it.session_id], it.session_id \in t)
        /\ \A sid \in SessionId : sid # it.session_id =>
             w2[sid] = written[sid] /\ (sid \in t <=> sid \in touched)
    BY <1>3
  <2> HIDE DEF w2
  <2>2. Good([array EXCEPT ![k] = it], w2, t)
    BY <2>1, OneItemChanged
  <2> QED
    BY <2>2 DEF w2
<1>5. items' \in Seq(Item) /\ Len(items') = Len(array)
  BY DEF Good
<1>6. TypeOK'
  BY <1>1, <1>2, <1>3, <1>5 DEF TypeOK
<1> QED
  BY <1>4, <1>6 DEF StoreInv, Good

LEMMA RefusedInv ==
  ASSUME StoreInv, UNCHANGED <<items, capacity, written, touched, state>>,
         status' \in {"IPMB_OK", "IPMB_ERR_ALLOC", "IPMB_ERR_NOT_FOUND"}
  PROVE  StoreInv'
BY DEF StoreInv, TypeOK, Good

LEMMA AppendInv ==
  ASSUME StoreInv, NEW sid \in SessionId, NEW payload \in Payload,
         CheckpointAppend(sid, payload)
  PROVE  StoreInv'
<1>1. written \in [SessionId -> Seq(Byte)] /\ payload \in Seq(Byte)
      /\ written[sid] \in Seq(Byte) /\ UNCHANGED touched /\ state = "ok"
      /\ status \in {"IPMB_OK", "IPMB_ERR_ALLOC", "IPMB_ERR_NOT_FOUND"}
  BY StoreAssumption DEF StoreInv, TypeOK, CheckpointAppend
<1>2. CASE CannotAdd(sid) /\ UNCHANGED <<items, capacity>> /\ Refused
  BY <1>1, <1>2, RefusedInv DEF Refused
<1>3. ASSUME NEW k, NEW array, FindOrAdd(sid, k, array), AppendTo(array, k, sid, payload)
      PROVE  StoreInv'
  <2> DEFINE it == array[k]
             w == written[sid]
             need == it.used + Len(payload)
             moved == sid \in touched
  <2>1. Good(array, written, touched) /\ k \in DOMAIN array /\ it.session_id = sid
        /\ capacity' \in Nat /\ Len(array) <= capacity'
    BY <1>3, FoundOrAdded
  <2>2. it \in Item /\ Sound(it, w, moved)
    BY <2>1 DEF Good
  <2>3. w \in Seq(Byte) /\ w \o payload \in Seq(Byte)
    BY <1>1
  <2>4. ASSUME need > it.capacity, NEW kept \in Reallocated(it),
               items' = [array EXCEPT
                  ![k] = [it EXCEPT !.buf = kept \o payload, !.used = need,
                                    !.capacity = Grown(it.capacity, need)]],
               written' = [written EXCEPT ![sid] = @ \o payload],
               status' = "IPMB_OK", UNCHANGED state
        PROVE  StoreInv'
    <3> DEFINE new == [it EXCEPT !.buf = kept \o payload, !.used = need,
                                 !.capacity = Grown(it.capacity, need)]
    <3>1. new \in Item /\ new.session_id = it.session_id /\ Sound(new, w \o payload, moved)
      <4>1. moved \in BOOLEAN
        OBVIOUS
      <4> HIDE DEF it, w, moved
      <4> QED
        BY <1>1, <2>2, <2>3, <2>4, <4>1, GrownSound
    <3>2. written' = [written EXCEPT ![new.session_id] = w \o payload]
      BY <2>1, <2>4, <3>1
    <3>3. items' = [array EXCEPT ![k] = new]
      BY <2>4
    <3>4. new.session_id = array[k].session_id /\ Sound(new, w \o payload, new.session_id \in touched)
      BY <2>1, <3>1
    <3>5. touched' = touched /\ state' = "ok"
      BY <1>1, <2>4
    <3> HIDE DEF new, w
    <3> QED
      BY <2>1, <2>3, <2>4, <3>1, <3>2, <3>3, <3>4, <3>5, ItemWritten
  <2>5. ASSUME items' = [array EXCEPT ![k] = Ungrown(it, need)], Refused
        PROVE  StoreInv'
    <3>1. items' = array
      BY <2>1, <2>5 DEF Ungrown, Good
    <3> QED
      BY <1>1, <2>1, <2>5, <3>1, ArrayStays DEF Refused
  <2>6. ASSUME need <= it.capacity, it.buf # NULL \/ payload = <<>>,
               items' = [array EXCEPT
                ![k] = [it EXCEPT !.buf = IF payload = <<>> THEN @ ELSE @ \o payload,
                                  !.used = need]],
               written' = [written EXCEPT ![sid] = @ \o payload],
               status' = "IPMB_OK", UNCHANGED state
        PROVE  StoreInv'
    <3> DEFINE new == [it EXCEPT !.buf = IF payload = <<>> THEN @ ELSE @ \o payload,
                                 !.used = need]
    <3>1. new \in Item /\ new.session_id = it.session_id /\ Sound(new, w \o payload, moved)
      <4>1. moved \in BOOLEAN
        OBVIOUS
      <4> HIDE DEF it, w, moved
      <4> QED
        BY <1>1, <2>2, <2>3, <2>6, <4>1, FittedSound
    <3>2. written' = [written EXCEPT ![new.session_id] = w \o payload]
      BY <2>1, <2>6, <3>1
    <3>3. items' = [array EXCEPT ![k] = new]
      BY <2>6
    <3>4. new.session_id = array[k].session_id /\ Sound(new, w \o payload, new.session_id \in touched)
      BY <2>1, <3>1
    <3>5. touched' = touched /\ state' = "ok"
      BY <1>1, <2>6
    <3> HIDE DEF new, w
    <3> QED
      BY <2>1, <2>3, <2>6, <3>1, <3>2, <3>3, <3>4, <3>5, ItemWritten
  <2>7. ASSUME need <= it.capacity, it.buf = NULL, payload # <<>>,
               state' = "undefined", items' = array, UNCHANGED <<status, written>>
        PROVE  StoreInv'
    <3>1. it.used \in Nat /\ it.capacity \in Nat /\ Len(payload) \in Nat /\ Len(payload) > 0
      BY <1>1, <2>2, <2>7, ItemType
    <3>2. moved
      BY <2>2, <2>7, <3>1 DEF Sound
    <3>3. touched # {}
      BY <3>2
    <3> QED
      BY <1>1, <2>1, <2>7, <3>3, ArrayStays
  <2> QED
    BY <1>3, <2>4, <2>5, <2>6, <2>7 DEF AppendTo
<1> QED
  BY <1>2, <1>3 DEF CheckpointAppend

LEMMA MigrateInv ==
  ASSUME StoreInv, NEW src \in SessionId, NEW dst \in SessionId, Migrate(src, dst)
  PROVE  StoreInv'
<1>1. written \in [SessionId -> Seq(Byte)] /\ written[src] \in Seq(Byte)
      /\ written[dst] \in Seq(Byte) /\ state = "ok"
      /\ status \in {"IPMB_OK", "IPMB_ERR_ALLOC", "IPMB_ERR_NOT_FOUND"}
  BY DEF StoreInv, TypeOK, Migrate
<1>2. CASE status' = "IPMB_ERR_NOT_FOUND"
           /\ UNCHANGED <<items, capacity, state, written, touched>>
  BY <1>2, RefusedInv
<1>3. CASE UNCHANGED <<items, capacity, touched>> /\ Refused
  BY <1>3, RefusedInv DEF Refused
<1>4. ASSUME NEW s \in DOMAIN items, NEW k, NEW array, IsLast(s, src),
             FindOrAdd(dst, k, array), MigrateInto(array, k, src, dst, s),
             touched' = touched \cup {dst}
      PROVE  StoreInv'
  <2> DEFINE it == array[s]
             old == array[k]
             w == written[src]
             t == touched \cup {dst}
             migrated == IF it.used > 0 THEN it.used - 1 ELSE 0
  <2>1. Good(array, written, touched) /\ k \in DOMAIN array /\ old.session_id = dst
        /\ capacity' \in Nat /\ Len(array) <= capacity' /\ s \in DOMAIN array
        /\ it.session_id = src
    BY <1>4, FoundOrAdded DEF IsLast
  <2>2. it \in Item /\ Sound(it, w, src \in touched)
        /\ old \in Item /\ Sound(old, written[dst], dst \in touched)
    BY <2>1 DEF Good
  <2>3. dst \in t /\ t # {}
    OBVIOUS
  <2>4. ASSUME NEW bytes \in Copied(src, dst, it),
               items' = [array EXCEPT
                 ![k] = [@ EXCEPT !.buf = IF bytes = NULL THEN <<>> ELSE bytes,
                                  !.used = it.used, !.capacity = migrated]],
               src # dst => it.buf # NULL \/ it.used = 0,
               written' = [written EXCEPT ![dst] = written[src]],
               status' = "IPMB_OK", UNCHANGED state
        PROVE  StoreInv'
    <3> DEFINE new == [old EXCEPT !.buf = IF bytes = NULL THEN <<>> ELSE bytes,
                                  !.used = it.used, !.capacity = migrated]
    <3>1. new \in Item /\ new.session_id = old.session_id /\ Sound(new, w, TRUE)
      <4> DEFINE moved == src \in touched
      <4>1. moved \in BOOLEAN /\ Sound(it, w, moved)
        BY <2>2
      <4> HIDE DEF it, w, moved, old
      <4> QED
        BY <1>1, <2>2, <2>4, <4>1, MigratedSound DEF w
    <3>2. written' = [written EXCEPT ![new.session_id] = w]
      BY <2>1, <2>4, <3>1
    <3>3. items' = [array EXCEPT ![k] = new]
      BY <2>1, <2>4 DEF Good
    <3>4. new.session_id = array[k].session_id /\ Sound(new, w, new.session_id \in t)
          /\ t = touched \cup {new.session_id}
      BY <2>1, <2>3, <3>1
    <3>5. touched' = t /\ state' = "ok" /\ w \in Seq(Byte)
      BY <1>1, <1>4, <2>4
    <3> HIDE DEF new, w, t
    <3> QED
      BY <2>1, <2>4, <3>1, <3>2, <3>3, <3>4, <3>5, ItemWritten
  <2>5. ASSUME items' = [array EXCEPT ![k].buf = NULL], Refused
        PROVE  StoreInv'
    <3> DEFINE new == [old EXCEPT !.buf = NULL]
               v == written[dst]
    <3>1. new \in Item /\ new.session_id = old.session_id /\ Sound(new, v, TRUE)
      <4> DEFINE moved == dst \in touched
      <4>1. moved \in BOOLEAN /\ Sound(old, v, moved)
        BY <2>2
      <4> HIDE DEF moved, old
      <4> QED
        BY <1>1, <2>2, <4>1, ForgottenSound
    <3>2. written' = [written EXCEPT ![new.session_id] = v]
      BY <1>1, <2>1, <2>5, <3>1 DEF Refused
    <3>3. items' = [array EXCEPT ![k] = new]
      BY <2>1, <2>5 DEF Good
    <3>4. new.session_id = array[k].session_id /\ Sound(new, v, new.session_id \in t)
          /\ t = touched \cup {new.session_id}
      BY <2>1, <2>3, <3>1
    <3>5. touched' = t /\ state' = "ok" /\ v \in Seq(Byte) /\ status' = "IPMB_ERR_ALLOC"
      BY <1>1, <1>4, <2>5 DEF Refused
    <3> HIDE DEF new, v, t
    <3> QED
      BY <2>1, <3>1, <3>2, <3>3, <3>4, <3>5, ItemWritten
  <2>6. ASSUME state' = "undefined", items' = array, UNCHANGED <<status, written>>
        PROVE  StoreInv'
    <3>1. Good(array, written, t)
      <4>1. ASSUME NEW i \in DOMAIN array
            PROVE  Sound(array[i], written[array[i].session_id], array[i].session_id \in t)
        <5>1. Sound(array[i], written[array[i].session_id], array[i].session_id \in touched)
          BY <2>1 DEF Good
        <5> QED
          BY <5>1 DEF Sound
      <4> QED
        BY <2>1, <4>1 DEF Good
    <3>2. TypeOK'
      BY <1>1, <1>4, <2>1, <2>6 DEF TypeOK, StoreInv, Good
    <3> QED
      BY <1>4, <2>6, <3>1, <3>2 DEF StoreInv, Good
  <2> QED
    BY <1>4, <2>4, <2>5, <2>6 DEF MigrateInto
<1> QED
  BY <1>2, <1>3, <1>4 DEF Migrate

LEMMA FreeInv == StoreInv /\ FreeStore => StoreInv'
<1> SUFFICES ASSUME StoreInv, FreeStore
             PROVE  StoreInv'
  OBVIOUS
<1>1. written' \in [SessionId -> Seq(Byte)]
  BY DEF FreeStore
<1>2. items' \in Seq(Item) /\ DOMAIN items' = {} /\ Len(items') = 0
  BY DEF FreeStore
<1>3. Good(items', written', touched')
  BY <1>2 DEF FreeStore, Good
<1>4. TypeOK'
  BY <1>1, <1>2 DEF FreeStore, TypeOK, StoreInv
<1> QED
  BY <1>3, <1>4 DEF StoreInv, Good, FreeStore

LEMMA NextInv == StoreInv /\ [Next]_vars => StoreInv'
<1> SUFFICES ASSUME StoreInv, [Next]_vars
             PROVE  StoreInv'
  OBVIOUS
<1>1. CASE UNCHANGED vars
  BY <1>1 DEF vars, StoreInv, TypeOK, Good
<1>2. CASE Stopped
  BY <1>1, <1>2 DEF Stopped
<1> QED
  BY <1>1, <1>2, AppendInv, MigrateInv, FreeInv DEF Next

THEOREM StoreInvariant == Spec => []StoreInv
BY InitInv, NextInv, PTL DEF Spec

(* The store is well typed: the items fit into the array. *)
THEOREM TypeCorrect == Spec => []TypeOK
<1>1. StoreInv => TypeOK
  BY DEF StoreInv
<1> QED
  BY <1>1, StoreInvariant, PTL

(* Lookups from the front and from the back find the same item.            *)
THEOREM UniqueSessionsAlways == Spec => []UniqueSessions
<1>1. StoreInv => UniqueSessions
  BY DEF StoreInv, Good, UniqueSessions
<1> QED
  BY <1>1, StoreInvariant, PTL

(* Sessions that nothing was migrated to keep what was appended to them,    *)
(* however the buffers and the array grew and whatever failed.             *)
THEOREM AppendsKeptAlways == Spec => []AppendsKept
<1>1. StoreInv => AppendsKept
  BY DEF StoreInv, Good, Sound, AppendsKept, UniqueSessions
<1> QED
  BY <1>1, StoreInvariant, PTL

(* The others are one byte over at most, and hold no other session's bytes. *)
THEOREM MigratesBoundedAlways == Spec => []MigratesBounded
<1>1. StoreInv => MigratesBounded
  BY DEF StoreInv, Good, Sound, CopyOf, MigratesBounded
<1> QED
  BY <1>1, StoreInvariant, PTL

Forgets(i) ==
  \/ items'[i] = items[i]
  \/ /\ \E src \in SessionId : Migrate(src, items[i].session_id)
     /\ items'[i] = [items[i] EXCEPT !.buf = NULL]

(* A call that runs out of memory forgets one buffer at most, and only that *)
(* of a migrate's destination.                                             *)
THEOREM FailuresForgetAlways == Spec => FailuresForgetOnlyDestination
<1>1. ASSUME StoreInv, [Next]_vars, status' = "IPMB_ERR_ALLOC",
             NEW i \in DOMAIN items
      PROVE  Forgets(i)
  <2>1. CASE UNCHANGED items
    BY <2>1 DEF Forgets
  <2>2. ASSUME NEW sid \in SessionId, NEW payload \in Payload,
               CheckpointAppend(sid, payload)
        PROVE  Forgets(i)
    <3>1. ASSUME NEW k, NEW array, FindOrAdd(sid, k, array), AppendTo(array, k, sid, payload)
          PROVE  Forgets(i)
      <4>1. i \in DOMAIN array /\ array[i] = items[i]
        BY <1>1, <2>2, <3>1, FoundOrAdded
      <4>2. items' = array
        BY <1>1, <2>2, <3>1, FoundOrAdded DEF AppendTo, Ungrown, Good
      <4> QED
        BY <4>1, <4>2 DEF Forgets
    <3> QED
      BY <2>1, <2>2, <3>1 DEF CheckpointAppend
  <2>3. ASSUME NEW src \in SessionId, NEW dst \in SessionId, Migrate(src, dst)
        PROVE  Forgets(i)
    <3>1. ASSUME NEW s \in DOMAIN items, NEW k, NEW array, IsLast(s, src),
                 FindOrAdd(dst, k, array), MigrateInto(array, k, src, dst, s)
          PROVE  Forgets(i)
      <4>1. /\ array \in Seq(Item) /\ k \in DOMAIN array /\ array[k].session_id = dst
            /\ i \in DOMAIN array /\ array[i] = items[i]
        BY <1>1, <3>1, FoundOrAdded DEF Good
      <4>2. items' = array \/ items' = [array EXCEPT ![k].buf = NULL]
        BY <1>1, <3>1 DEF MigrateInto
      <4>3. CASE i = k /\ items' = [array EXCEPT ![k].buf = NULL]
        <5>1. items'[i] = [items[i] EXCEPT !.buf = NULL]
          BY <4>1, <4>3
        <5> QED
          BY <2>3, <4>1, <4>3, <5>1 DEF Forgets
      <4> QED
        BY <4>1, <4>2, <4>3 DEF Forgets
    <3> QED
      BY <2>1, <2>3, <3>1 DEF Migrate
  <2> QED
    BY <1>1, <2>1, <2>2, <2>3 DEF Next, FreeStore, Stopped, vars
<1>2. StoreInv /\ [Next]_vars =>
        [status' = "IPMB_ERR_ALLOC" =>
           \A k \in DOMAIN items :
             \/ items'[k] = items[k]
             \/ /\ \E src \in SessionId : Migrate(src, items[k].session_id)
                /\ items'[k] = [items[k] EXCEPT !.buf = NULL]]_vars
  BY <1>1 DEF Forgets
<1> QED
  BY <1>2, StoreInvariant, PTL DEF Spec, FailuresForgetOnlyDestination
=============================================================================
