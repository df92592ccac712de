------------------------------- MODULE Recursion -------------------------------
(***************************************************************************)
(* Induction and recursion over the natural numbers, in a form that can be *)
(* cited without an operator as a parameter: about a set, that of the      *)
(* numbers for which something holds, and about a function, that of the    *)
(* step; sums over finite sets; and what loops over numbers need: that     *)
(* there is a growth loop's function is shown by giving it (GrowExists),   *)
(* that the loop ends with enough by counting (GrowEnds).                  *)
(***************************************************************************)
EXTENDS Functions, FiniteSetsExt, FiniteSetTheorems, TLAPS

(* A set with 0 and the successors of its members has all the numbers: was *)
(* n not among them, adding 1 would map those up to n into those but 0.    *)
THEOREM Induction ==
  ASSUME NEW S, 0 \in S, \A k \in Nat : k \in S => k + 1 \in S
  PROVE  Nat \subseteq S
<1> SUFFICES ASSUME NEW n \in Nat, n \notin S
             PROVE  FALSE
  OBVIOUS
<1> DEFINE T == {k \in 0 .. n : k \in S}
           U == T \ {0}
           f == [k \in T |-> k + 1]
<1>1. IsFiniteSet(T) /\ IsFiniteSet(U)
  <2>1. IsFiniteSet(0 .. n)
    BY FS_Interval
  <2> QED BY <2>1, FS_Subset
<1>2. Cardinality(U) < Cardinality(T)
  <2>1. 0 \in T
    OBVIOUS
  <2> HIDE DEF T
  <2>2. Cardinality(T) \in Nat /\ Cardinality(U) = Cardinality(T) - 1
    BY <1>1, <2>1, FS_RemoveElement, FS_CardinalityType
  <2> HIDE DEF U
  <2> QED BY <2>2
<1>3. f \in [T -> U]
  OBVIOUS
<1>4. PICK i, j \in T : i # j /\ f[i] = f[j]
  <2> HIDE DEF T, U, f
  <2> QED BY <1>1, <1>2, <1>3, FS_PigeonHole
<1> QED BY <1>4

(* Of natural numbers there is a least: was there none, no number would be *)
(* below all of them.                                                      *)
THEOREM LeastNumber ==
  ASSUME NEW S \in SUBSET Nat, S # {}
  PROVE  \E m \in S : \A k \in S : m <= k
<1> SUFFICES ASSUME \A m \in S : \E k \in S : k < m
             PROVE  FALSE
  OBVIOUS
<1> DEFINE T == {n \in Nat : \A k \in S : k > n}
<1>1. 0 \in T
  OBVIOUS
<1>2. ASSUME NEW n \in Nat, n \in T
      PROVE  n + 1 \in T
  <2>1. \A k \in S : k >= n + 1
    BY <1>2
  <2>2. n + 1 \notin S
    BY <2>1
  <2> QED BY <2>1, <2>2
<1>3. Nat \subseteq T
  <2> HIDE DEF T
  <2> QED BY <1>1, <1>2, Induction
<1>4. PICK m \in S : TRUE
  OBVIOUS
<1> QED BY <1>3, <1>4

(* The values up to n of what starts with base and goes on by step. *)
IsRecursive(f, n, base, step) ==
  /\ DOMAIN f = 0 .. n
  /\ f[0] = base
  /\ \A k \in 1 .. n : f[k] = step[<<k, f[k - 1]>>]

LEMMA RecursiveOnce ==
  ASSUME NEW base, NEW step, NEW n \in Nat, NEW m \in Nat, NEW f, NEW g,
         IsRecursive(f, n, base, step), IsRecursive(g, m, base, step)
  PROVE  \A k \in Nat : k <= n /\ k <= m => f[k] = g[k]
<1> USE DEF IsRecursive
<1> DEFINE S == {k \in Nat : k <= n /\ k <= m => f[k] = g[k]}
<1>1. 0 \in S
  OBVIOUS
<1>2. ASSUME NEW k \in Nat, k \in S
      PROVE  k + 1 \in S
  <2> SUFFICES ASSUME k + 1 <= n, k + 1 <= m
               PROVE  f[k + 1] = g[k + 1]
    OBVIOUS
  <2>1. f[k] = g[k]
    BY <1>2
  <2>2. k + 1 \in 1 .. n /\ k + 1 \in 1 .. m /\ (k + 1) - 1 = k
    OBVIOUS
  <2> QED BY <2>1, <2>2
<1>3. Nat \subseteq S
  <2> HIDE DEF S
  <2> QED BY <1>1, <1>2, Induction
<1> QED BY <1>3

LEMMA RecursiveUpTo ==
  ASSUME NEW base, NEW step, NEW n \in Nat
  PROVE  \E f : IsRecursive(f, n, base, step)
<1> DEFINE S == {k \in Nat : \E f : IsRecursive(f, k, base, step)}
<1>1. 0 \in S
  <2>1. IsRecursive([k \in 0 .. 0 |-> base], 0, base, step)
    BY DEF IsRecursive
  <2> QED BY <2>1
<1>2. ASSUME NEW k \in Nat, k \in S
      PROVE  k + 1 \in S
  <2>1. PICK f : IsRecursive(f, k, base, step)
    BY <1>2
  <2> DEFINE g == [i \in 0 .. k + 1 |-> IF i = k + 1 THEN step[<<i, f[k]>>] ELSE f[i]]
  <2>2. IsRecursive(g, k + 1, base, step)
    <3>1. DOMAIN g = 0 .. k + 1 /\ g[0] = base
      BY <2>1 DEF IsRecursive
    <3>2. ASSUME NEW i \in 1 .. k + 1
          PROVE  g[i] = step[<<i, g[i - 1]>>]
      <4>1. CASE i = k + 1
        <5>1. i \in 0 .. k + 1 /\ i - 1 \in 0 .. k + 1 /\ i - 1 = k /\ i - 1 # k + 1
          BY <4>1
        <5>2. g[i] = step[<<i, f[k]>>] /\ g[i - 1] = f[k]
          BY <4>1, <5>1
        <5> QED BY <5>2
      <4>2. CASE i # k + 1
        <5>1. i \in 1 .. k /\ i - 1 \in 0 .. k + 1 /\ i - 1 # k + 1 /\ i \in 0 .. k + 1
          BY <4>2
        <5>2. g[i] = f[i] /\ g[i - 1] = f[i - 1]
          BY <5>1, <4>2
        <5>3. f[i] = step[<<i, f[i - 1]>>]
          BY <2>1, <5>1 DEF IsRecursive
        <5> QED BY <5>2, <5>3
      <4> QED BY <4>1, <4>2
    <3> QED BY <3>1, <3>2 DEF IsRecursive
  <2> QED BY <2>2
<1>3. Nat \subseteq S
  <2> HIDE DEF S
  <2> QED BY <1>1, <1>2, Induction
<1> QED BY <1>3

(* What a recursive definition over 0 .. n stands for exists.  (It is the  *)
(* CHOOSE of the definition, which is then the only one: RecursiveOnce.)   *)
THEOREM RecursiveExists ==
  ASSUME NEW base, NEW step, NEW n \in Nat
  PROVE  \E f : f = [k \in 0 .. n |-> IF k = 0 THEN base ELSE step[<<k, f[k - 1]>>]]
<1>1. PICK f : IsRecursive(f, n, base, step)
  BY RecursiveUpTo
<1> DEFINE g == [k \in 0 .. n |-> f[k]]
<1>2. g = [k \in 0 .. n |-> IF k = 0 THEN base ELSE step[<<k, g[k - 1]>>]]
  <2>1. ASSUME NEW k \in 0 .. n
        PROVE  g[k] = IF k = 0 THEN base ELSE step[<<k, g[k - 1]>>]
    <3>1. CASE k = 0
      BY <1>1, <3>1 DEF IsRecursive
    <3>2. CASE k # 0
      <4>1. k \in 1 .. n /\ k - 1 \in 0 .. n
        BY <3>2
      <4> QED BY <1>1, <4>1, <3>2 DEF IsRecursive
    <3> QED BY <3>1, <3>2
  <2> QED BY <2>1
<1> QED BY <1>2

------------------------------------------------------------------------------

(***************************************************************************)
(* Sums over finite sets, in which the order of the elements is that of a  *)
(* CHOOSE.                                                                 *)
(***************************************************************************)

SomeOf(s) == CHOOSE x \in s : TRUE

(* The sums over the subsets of a set that are in D.                       *)
IsSums(f, g, D) ==
  /\ DOMAIN f = D
  /\ \A s \in D : f[s] = IF s = {} THEN 0 ELSE g[SomeOf(s)] + f[s \ {SomeOf(s)}]

UpToSize(S, n) == {s \in SUBSET S : Cardinality(s) <= n}

LEMMA SmallerRest ==
  ASSUME NEW s, IsFiniteSet(s), s # {}
  PROVE  /\ SomeOf(s) \in s
         /\ IsFiniteSet(s \ {SomeOf(s)})
         /\ Cardinality(s) \in Nat \ {0}
         /\ Cardinality(s \ {SomeOf(s)}) = Cardinality(s) - 1
<1>1. SomeOf(s) \in s
  BY DEF SomeOf
<1>2. /\ IsFiniteSet(s \ {SomeOf(s)}) /\ Cardinality(s \ {SomeOf(s)}) = Cardinality(s) - 1
  BY <1>1, FS_RemoveElement
<1>3. Cardinality(s) \in Nat /\ Cardinality(s) # 0
  BY FS_CardinalityType, FS_EmptySet
<1> QED BY <1>1, <1>2, <1>3

LEMMA SumsExist ==
  ASSUME NEW g, NEW S, IsFiniteSet(S)
  PROVE  \E f : IsSums(f, g, SUBSET S)
<1>0. \A s \in SUBSET S : IsFiniteSet(s) /\ Cardinality(s) \in Nat
  BY FS_Subset, FS_CardinalityType
<1> DEFINE T == {n \in Nat : \E f : IsSums(f, g, UpToSize(S, n))}
<1>1. 0 \in T
  <2>1. UpToSize(S, 0) = {{}}
    <3>1. \A s \in UpToSize(S, 0) : s = {}
      <4> SUFFICES ASSUME NEW s \in UpToSize(S, 0), s # {}
                   PROVE  FALSE
        OBVIOUS
      <4>1. IsFiniteSet(s) /\ Cardinality(s) <= 0
        BY <1>0 DEF UpToSize
      <4>2. Cardinality(s) \in Nat \ {0}
        BY <4>1, SmallerRest
      <4> QED BY <4>1, <4>2
    <3>2. {} \in UpToSize(S, 0)
      <4>1. Cardinality({}) = 0
        BY FS_EmptySet
      <4> QED BY <4>1 DEF UpToSize
    <3> QED BY <3>1, <3>2
  <2>2. IsSums([s \in {{}} |-> 0], g, {{}})
    BY DEF IsSums
  <2> QED BY <2>1, <2>2
<1>2. ASSUME NEW n \in Nat, n \in T
      PROVE  n + 1 \in T
  <2>1. PICK f : IsSums(f, g, UpToSize(S, n))
    BY <1>2
  <2> DEFINE D == UpToSize(S, n + 1)
             h == [s \in D |-> IF s = {} THEN 0 ELSE g[SomeOf(s)] + f[s \ {SomeOf(s)}]]
  <2>2. \A s \in UpToSize(S, n) : s \in D
    BY <1>0 DEF UpToSize
  <2>3. \A s \in UpToSize(S, n) : h[s] = f[s]
    BY <2>1, <2>2 DEF IsSums
  <2>4. ASSUME NEW s \in D, s # {}
        PROVE  h[s \ {SomeOf(s)}] = f[s \ {SomeOf(s)}]
    <3>1. IsFiniteSet(s) /\ Cardinality(s) \in Nat /\ Cardinality(s) <= n + 1 /\ s \in SUBSET S
      BY <1>0 DEF UpToSize
    <3>2. Cardinality(s \ {SomeOf(s)}) = Cardinality(s) - 1
      BY <2>4, <3>1, SmallerRest
    <3>3. s \ {SomeOf(s)} \in UpToSize(S, n)
      BY <3>1, <3>2 DEF UpToSize
    <3> HIDE DEF h
    <3> QED BY <2>3, <3>3
  <2>5. IsSums(h, g, D)
    <3>1. \A s \in D : h[s] = IF s = {} THEN 0 ELSE g[SomeOf(s)] + f[s \ {SomeOf(s)}]
      OBVIOUS
    <3>2. DOMAIN h = D
      OBVIOUS
    <3> HIDE DEF h, D
    <3> QED BY <2>4, <3>1, <3>2 DEF IsSums
  <2> HIDE DEF h
  <2> QED BY <2>5
<1>3. Nat \subseteq T
  <2> HIDE DEF T
  <2> QED BY <1>1, <1>2, Induction
<1>4. Cardinality(S) \in T
  BY <1>3, FS_CardinalityType
<1>5. UpToSize(S, Cardinality(S)) = SUBSET S
  BY FS_Subset DEF UpToSize
<1> QED BY <1>4, <1>5

LEMMA SumsOnce ==
  ASSUME NEW g, NEW S, NEW R, NEW f, NEW h, IsFiniteSet(S), IsFiniteSet(R),
         IsSums(f, g, SUBSET S), IsSums(h, g, SUBSET R), NEW whole \in SUBSET (S \cap R)
  PROVE  f[whole] = h[whole]
<1> DEFINE T == {n \in Nat : \A s \in SUBSET (S \cap R) : Cardinality(s) = n => f[s] = h[s]}
<1>0. \A s \in SUBSET (S \cap R) : /\ IsFiniteSet(s) /\ Cardinality(s) \in Nat
                                   /\ s \in SUBSET S /\ s \in SUBSET R
  BY FS_Subset, FS_CardinalityType
<1>1. 0 \in T
  <2> SUFFICES ASSUME NEW s \in SUBSET (S \cap R), Cardinality(s) = 0
               PROVE  f[s] = h[s]
    OBVIOUS
  <2>1. s = {}
    BY <1>0, FS_EmptySet
  <2> QED BY <2>1 DEF IsSums
<1>2. ASSUME NEW n \in Nat, n \in T
      PROVE  n + 1 \in T
  <2> SUFFICES ASSUME NEW s \in SUBSET (S \cap R), Cardinality(s) = n + 1
               PROVE  f[s] = h[s]
    OBVIOUS
  <2> DEFINE r == s \ {SomeOf(s)}
  <2>1. IsFiniteSet(s) /\ s # {}
    BY <1>0, FS_EmptySet
  <2>2. r \in SUBSET (S \cap R) /\ Cardinality(r) = n
    <3>1. Cardinality(r) = Cardinality(s) - 1
      BY <2>1, SmallerRest
    <3> QED BY <3>1
  <2> HIDE DEF r
  <2>3. f[r] = h[r]
    BY <1>2, <2>2
  <2>4. f[s] = g[SomeOf(s)] + f[r] /\ h[s] = g[SomeOf(s)] + h[r]
    BY <1>0, <2>1 DEF IsSums, r
  <2> QED BY <2>3, <2>4
<1>3. Nat \subseteq T
  <2> HIDE DEF T
  <2> QED BY <1>1, <1>2, Induction
<1> QED BY <1>0, <1>3

LEMMA SumIs ==
  ASSUME NEW g, NEW S, IsFiniteSet(S)
  PROVE  \E f : IsSums(f, g, SUBSET S) /\ SumFunctionOnSet(g, S) = f[S]
<1> DEFINE Step(f) == [s \in SUBSET S |-> IF s = {} THEN 0
             ELSE g[CHOOSE x \in s : TRUE] + f[s \ {CHOOSE x \in s : TRUE}]]
           iter == CHOOSE f : f = Step(f)
<1>1. PICK f : IsSums(f, g, SUBSET S)
  BY SumsExist
<1>2. [s \in SUBSET S |-> f[s]] = Step([s \in SUBSET S |-> f[s]])
  <2> DEFINE h == [s \in SUBSET S |-> f[s]]
  <2>1. \A s \in SUBSET S : h[s] = Step(h)[s]
    BY <1>1 DEF IsSums, SomeOf
  <2> QED BY <2>1
<1>3. iter = Step(iter)
  <2> HIDE DEF Step
  <2> QED BY <1>2
<1>4. IsSums(iter, g, SUBSET S)
  <2> HIDE DEF iter
  <2> QED BY <1>3 DEF IsSums, SomeOf
<1>5. SumFunctionOnSet(g, S) = iter[S]
  BY Zenon DEF SumFunctionOnSet, FoldFunctionOnSet, MapThenFoldSet
<1> HIDE DEF iter
<1> QED BY <1>4, <1>5

(* One element of a sum may be taken out, whichever it is.                 *)
LEMMA SumStarts ==
  ASSUME NEW g
  PROVE  /\ SumFunctionOnSet(g, {}) = 0
         /\ \A S : IsFiniteSet(S) /\ S # {} =>
              SumFunctionOnSet(g, S) =
                g[SomeOf(S)] + SumFunctionOnSet(g, S \ {SomeOf(S)})
<1>1. SumFunctionOnSet(g, {}) = 0
  <2>1. IsFiniteSet({})
    BY FS_EmptySet
  <2>2. PICK f : IsSums(f, g, SUBSET {}) /\ SumFunctionOnSet(g, {}) = f[{}]
    BY <2>1, SumIs
  <2> QED BY <2>2 DEF IsSums
<1>2. ASSUME NEW S, IsFiniteSet(S), S # {}
      PROVE  SumFunctionOnSet(g, S) = g[SomeOf(S)] + SumFunctionOnSet(g, S \ {SomeOf(S)})
  <2> DEFINE rest == S \ {SomeOf(S)}
  <2>1. IsFiniteSet(rest)
    BY <1>2, SmallerRest
  <2>2. PICK f : IsSums(f, g, SUBSET S) /\ SumFunctionOnSet(g, S) = f[S]
    BY <1>2, SumIs
  <2>3. PICK h : IsSums(h, g, SUBSET rest) /\ SumFunctionOnSet(g, rest) = h[rest]
    BY <2>1, SumIs
  <2>4. f[rest] = h[rest]
    <3>1. rest \in SUBSET (S \cap rest)
      OBVIOUS
    <3> HIDE DEF rest
    <3> QED BY <1>2, <2>1, <2>2, <2>3, <3>1, SumsOnce
  <2>5. f[S] = g[SomeOf(S)] + f[rest]
    BY <1>2, <2>2 DEF IsSums
  <2> QED BY <2>2, <2>3, <2>4, <2>5
<1> QED BY <1>1, <1>2

(* A sum is a number, and any one of its terms may be taken out of it.     *)
THEOREM SumTakesOut ==
  ASSUME NEW D, NEW g \in [D -> Int], NEW whole \in SUBSET D, IsFiniteSet(whole)
  PROVE  /\ SumFunctionOnSet(g, whole) \in Int
         /\ \A a \in whole :
              SumFunctionOnSet(g, whole) = g[a] + SumFunctionOnSet(g, whole \ {a})
<1> DEFINE Sum(S) == SumFunctionOnSet(g, S)
           Good(S) == Sum(S) \in Int /\ \A a \in S : Sum(S) = g[a] + Sum(S \ {a})
           T == {n \in Nat : \A S \in SUBSET D :
                   IsFiniteSet(S) /\ Cardinality(S) <= n => Good(S)}
<1>1. 0 \in T
  <2> SUFFICES ASSUME NEW S \in SUBSET D, IsFiniteSet(S), Cardinality(S) <= 0
               PROVE  Good(S)
    OBVIOUS
  <2>1. S = {}
    BY FS_EmptySet, FS_CardinalityType
  <2> QED BY <2>1, SumStarts
<1>2. ASSUME NEW n \in Nat, n \in T
      PROVE  n + 1 \in T
  <2> SUFFICES ASSUME NEW S \in SUBSET D, IsFiniteSet(S), Cardinality(S) <= n + 1
               PROVE  Good(S)
    OBVIOUS
  <2>1. \A R \in SUBSET D : IsFiniteSet(R) /\ Cardinality(R) <= n => Good(R)
    BY <1>2
  <2> HIDE DEF Good, T
  <2>2. CASE S = {}
    BY <2>2, SumStarts DEF Good
  <2>3. CASE S # {}
    <3> DEFINE x == SomeOf(S)
               R == S \ {x}
    <3>1. x \in S /\ IsFiniteSet(R) /\ Cardinality(R) <= n /\ R \in SUBSET D
      <4>1. x \in S /\ IsFiniteSet(R) /\ Cardinality(R) = Cardinality(S) - 1
        BY <2>3, SmallerRest
      <4>2. Cardinality(S) \in Nat
        BY FS_CardinalityType
      <4>3. R \in SUBSET D
        OBVIOUS
      <4> HIDE DEF R, x
      <4> QED BY <4>1, <4>2, <4>3
    <3>2. Sum(S) = g[x] + Sum(R)
      BY <2>3, SumStarts
    <3> HIDE DEF x
    <3>3. Good(R) /\ g[x] \in Int /\ Sum(R) \in Int
      BY <2>1, <3>1 DEF Good
    <3>4. Sum(S) \in Int
      <4> HIDE DEF Sum, R
      <4> QED BY <3>2, <3>3
    <3>5. ASSUME NEW a \in S
          PROVE  Sum(S) = g[a] + Sum(S \ {a})
      <4>1. CASE a = x
        BY <3>2, <4>1
      <4>2. CASE a # x
        <5> DEFINE Q == S \ {a}
                   P == R \ {a}
        <5>1. a \in R /\ x \in Q /\ P = Q \ {x} /\ g[a] \in Int
          BY <3>1, <4>2
        <5>2. IsFiniteSet(Q) /\ Cardinality(Q) <= n /\ Q \in SUBSET D
          <6>1. IsFiniteSet(Q) /\ Cardinality(Q) = Cardinality(S) - 1
            BY FS_RemoveElement
          <6>2. Cardinality(S) \in Nat
            BY FS_CardinalityType
          <6> HIDE DEF Q
          <6>3. Cardinality(Q) <= n
            BY <6>1, <6>2
          <6> QED BY <6>1, <6>3 DEF Q
        <5>3. IsFiniteSet(P) /\ Cardinality(P) <= n /\ P \in SUBSET D
          <6>1. IsFiniteSet(P) /\ Cardinality(P) = Cardinality(R) - 1
            BY <3>1, <5>1, FS_RemoveElement
          <6>2. Cardinality(R) \in Nat
            BY <3>1, FS_CardinalityType
          <6> HIDE DEF P, R
          <6>3. Cardinality(P) <= n
            BY <3>1, <6>1, <6>2
          <6> QED BY <3>1, <6>1, <6>3 DEF P, R
        <5>4. Sum(P) \in Int
          BY <2>1, <5>3 DEF Good
        <5>5. Sum(R) = g[a] + Sum(P)
          BY <3>3, <5>1 DEF Good
        <5>6. Sum(Q) = g[x] + Sum(P)
          BY <2>1, <5>1, <5>2 DEF Good
        <5> HIDE DEF Sum, P, Q, R
        <5>7. Sum(S) = g[a] + Sum(Q)
          BY <3>2, <3>3, <5>1, <5>4, <5>5, <5>6
        <5> QED BY <5>7 DEF Q
      <4> QED BY <4>1, <4>2
    <3> QED BY <3>4, <3>5 DEF Good
  <2> QED BY <2>2, <2>3
<1>3. Nat \subseteq T
  <2> HIDE DEF T
  <2> QED BY <1>1, <1>2, Induction
<1>4. ASSUME NEW S \in SUBSET D, IsFiniteSet(S)
      PROVE  Good(S)
  <2>1. Cardinality(S) \in T
    BY <1>3, <1>4, FS_CardinalityType
  <2>2. Cardinality(S) <= Cardinality(S)
    BY <1>4, FS_CardinalityType
  <2> HIDE DEF Good
  <2> QED BY <1>4, <2>1, <2>2
<1> QED BY <1>4

(* A sum over the first n places of a sequence of numbers, and what one    *)
(* more place adds to it.                                                  *)
THEOREM SumOfOneMore ==
  ASSUME NEW D, NEW g \in [D -> Int], NEW p \in Nat, 1 .. p + 1 \subseteq D
  PROVE  /\ SumFunctionOnSet(g, 1 .. p) \in Int
         /\ SumFunctionOnSet(g, 1 .. p + 1) = g[p + 1] + SumFunctionOnSet(g, 1 .. p)
<1>1. /\ 1 .. p \in SUBSET D /\ 1 .. p + 1 \in SUBSET D
      /\ p + 1 \in 1 .. p + 1 /\ (1 .. p + 1) \ {p + 1} = 1 .. p
  OBVIOUS
<1>2. IsFiniteSet(1 .. p) /\ IsFiniteSet(1 .. p + 1)
  BY FS_Interval
<1>3. SumFunctionOnSet(g, 1 .. p) \in Int
  BY <1>1, <1>2, SumTakesOut
<1>4. SumFunctionOnSet(g, 1 .. p + 1)
        = g[p + 1] + SumFunctionOnSet(g, (1 .. p + 1) \ {p + 1})
  BY <1>1, <1>2, SumTakesOut
<1> QED BY <1>1, <1>3, <1>4

------------------------------------------------------------------------------

(***************************************************************************)
(* Loops over numbers: a capacity that is doubled until it is enough,      *)
(* remainders, and the least of a set.                                     *)
(***************************************************************************)

(* The growth of a capacity, a loop, as a function that                    *)
(* solves its equation.                                                    *)
IsGrow(g, need) == g = [c \in Nat |-> IF c < need THEN g[2 * c] ELSE c]

(* No function takes a finite set into itself without one of its members    *)
(* and gives no value twice.                                               *)
LEMMA NoInjection ==
  ASSUME NEW T, IsFiniteSet(T), NEW c \in T, NEW f \in [T -> T \ {c}],
         \A d, e \in T : f[d] = f[e] => d = e
  PROVE  FALSE
<1>1. IsFiniteSet(T \ {c}) /\ Cardinality(T \ {c}) = Cardinality(T) - 1
  BY FS_RemoveElement
<1>2. Cardinality(T) \in Nat
  BY FS_CardinalityType
<1>3. Cardinality(T \ {c}) < Cardinality(T)
  BY <1>1, <1>2
<1> QED
  BY <1>1, <1>3, FS_PigeonHole

(* The loop ends: capacities it could not lead from to one that is enough   *)
(* would be mapped into all of them but one by a step of the loop, which    *)
(* gives no value twice.                                                    *)
LEMMA GrowEnds ==
  ASSUME NEW need \in Nat, NEW g, IsGrow(g, need), NEW c \in Nat \ {0}
  PROVE  g[c] \in Nat /\ g[c] >= need
<1> DEFINE T == {d \in Nat : d >= c /\ ~(g[d] \in Nat /\ g[d] >= need)}
<1> SUFFICES ASSUME c \in T
             PROVE  FALSE
  OBVIOUS
<1>1. \A d \in T : d < need /\ 2 * d \in T /\ 2 * d # c
  <2>1. \A d \in Nat : g[d] = IF d < need THEN g[2 * d] ELSE d
    BY DEF IsGrow
  <2> QED
    BY <2>1
<1>2. IsFiniteSet(T)
  <2>1. T \in SUBSET Nat /\ \A d \in T : d <= need
    BY <1>1
  <2> QED
    BY <2>1, FS_BoundedSetOfNaturals
<1> DEFINE f == [d \in T |-> 2 * d]
<1>3. f \in [T -> T \ {c}]
  BY <1>1
<1>4. \A d, e \in T : f[d] = f[e] => d = e
  OBVIOUS
<1>5. c \in T
  OBVIOUS
<1> HIDE DEF T, f
<1> QED
  BY <1>2, <1>3, <1>4, <1>5, NoInjection

(* The capacities the loop may come by from c, and those of them that are enough. *)
Passes(c, need) ==
  {x \in Nat : \A S \in SUBSET Nat :
     (c \in S /\ \A d \in S : d < need => 2 * d \in S) => x \in S}

Enough(c, need) == {x \in Passes(c, need) : x >= need}

(* They are the same from the next capacity on, until one is enough. *)
LEMMA EnoughSteps ==
  ASSUME NEW need \in Nat, NEW c \in Nat
  PROVE  /\ c >= need => Enough(c, need) = {c}
         /\ c < need => Enough(c, need) = Enough(2 * c, need)
<1>1. ASSUME c >= need PROVE Enough(c, need) = {c}
  <2>1. c \in Passes(c, need)
    BY DEF Passes
  <2>2. ASSUME NEW x \in Passes(c, need) PROVE x = c
    <3>1. {c} \in SUBSET Nat /\ c \in {c} /\ \A d \in {c} : d < need => 2 * d \in {c}
      BY <1>1
    <3> QED BY <3>1, <2>2 DEF Passes
  <2> QED BY <2>1, <2>2, <1>1 DEF Enough
<1>2. ASSUME c < need PROVE Enough(c, need) = Enough(2 * c, need)
  <2>1. ASSUME NEW x \in Passes(2 * c, need) PROVE x \in Passes(c, need)
    <3>1. x \in Nat BY <2>1 DEF Passes
    <3>2. ASSUME NEW S \in SUBSET Nat, c \in S, \A d \in S : d < need => 2 * d \in S
          PROVE  x \in S
      <4>1. 2 * c \in S BY <3>2, <1>2
      <4> QED BY <4>1, <3>2, <2>1 DEF Passes
    <3> QED BY <3>1, <3>2 DEF Passes
  <2>2. ASSUME NEW x \in Passes(c, need), x >= need PROVE x \in Passes(2 * c, need)
    <3>1. x \in Nat /\ x # c BY <2>2, <1>2 DEF Passes
    <3>2. ASSUME NEW S \in SUBSET Nat, 2 * c \in S,
                 \A d \in S : d < need => 2 * d \in S
          PROVE  x \in S
      <4> DEFINE U == S \cup {c}
      <4>1. U \in SUBSET Nat /\ c \in U /\ \A d \in U : d < need => 2 * d \in U
        BY <3>2
      <4>2. x \in U BY <4>1, <2>2 DEF Passes
      <4> QED BY <4>2, <3>1
    <3> QED BY <3>1, <3>2 DEF Passes
  <2> QED BY <2>1, <2>2 DEF Enough
<1> QED BY <1>1, <1>2

(* The growth loop's function: the first capacity on its way that is enough. *)
LEMMA GrowExists ==
  ASSUME NEW need \in Nat
  PROVE  \E g : IsGrow(g, need)
<1> DEFINE g == [c \in Nat |-> CHOOSE x \in Enough(c, need) : TRUE]
<1>1. \A c \in Nat : c >= need => g[c] = c
  BY EnoughSteps
<1>2. \A c \in Nat : c < need => g[c] = g[2 * c]
  BY EnoughSteps
<1>3. [c \in Nat |-> IF c < need THEN g[2 * c] ELSE c] = g
  <2>1. g = [c \in Nat |-> g[c]]
    OBVIOUS
  <2> HIDE DEF g
  <2>2. \A c \in Nat : (IF c < need THEN g[2 * c] ELSE c) = g[c]
    BY <1>1, <1>2
  <2> QED
    BY Zenon, <2>1, <2>2
<1> QED BY <1>3 DEF IsGrow

(* A remainder is the only one. *)
LEMMA QuotientOnce ==
  ASSUME NEW w \in Nat \ {0}, NEW p \in Int, NEW q \in Int,
         NEW r \in 0 .. w - 1, NEW s \in 0 .. w - 1, p * w + r = q * w + s
  PROVE  r = s
<1>1. CASE p = q
  BY <1>1
<1>2. CASE p < q
  <2>1. (q - p) * w = r - s
    OBVIOUS
  <2>2. (q - p) * w >= w
    BY <1>2
  <2> QED BY <2>1, <2>2
<1>3. CASE q < p
  <2>1. (p - q) * w = s - r
    OBVIOUS
  <2>2. (p - q) * w >= w
    BY <1>3
  <2> QED BY <2>1, <2>2
<1> QED BY <1>1, <1>2, <1>3

LEMMA Remainder ==
  ASSUME NEW a \in Int, NEW w \in Nat \ {0}
  PROVE  a % w \in 0 .. w - 1 /\ a \div w \in Int /\ a = ((a \div w) * w) + (a % w)
OBVIOUS

(* The least of a set of numbers.                                          *)
LEMMA MinIs ==
  ASSUME NEW S \in SUBSET Nat, S # {}
  PROVE  Min(S) \in S /\ \A n \in S : Min(S) <= n
<1>1. \E m \in S : \A n \in S : m <= n
  BY LeastNumber
<1> QED BY <1>1 DEF Min

(* That of two numbers. *)
LEMMA MinOfTwo ==
  ASSUME NEW a \in Nat, NEW b \in Nat
  PROVE  Min({a, b}) = IF a <= b THEN a ELSE b
<1>1. Min({a, b}) \in {a, b} /\ \A n \in {a, b} : Min({a, b}) <= n
  BY MinIs
<1> QED BY <1>1

==============================================================================
