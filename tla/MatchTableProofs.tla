--------------------------- MODULE MatchTableProofs ---------------------------
(***************************************************************************)
(* Proofs about the match table, for tables and arrays of results of any   *)
(* length and any priorities.  Every statement is about a scan: the table  *)
(* does not change while it runs, so what the matches so far and the best  *)
(* of them are is said of the rules the scan has passed.                   *)
(***************************************************************************)
EXTENDS MatchTable, FiniteSetTheorems, TLAPS

Passed == {k \in Hitting : k < next}

(* Each result is the match of a rule that was passed, with a score if     *)
(* nothing went wrong, and the array moves under best only at a second     *)
(* match.                                                                  *)
ResultsPassed ==
  /\ \A i \in DOMAIN results : results[i].rule \in Passed
  /\ moved => \E j, k \in Hitting : j # k

(* best is the first of the matches with the highest score, as long as the *)
(* scan is sound; there is one as soon as a matching rule was passed.      *)
BestWins ==
  /\ ~moved
  /\ best = 0 => Passed = {}
  /\ best # 0 =>
       LET w == results[best]
       IN /\ w.score = ScoreAt(w.rule)
          /\ w.priority = rules[w.rule].priority
          /\ \A i \in DOMAIN results : results[i].score <= w.score
          /\ \A j \in Passed : ScoreAt(j) < ScoreAt(w.rule)
                               \/ (ScoreAt(j) = ScoreAt(w.rule) /\ w.rule <= j)

MatchInv ==
  /\ TypeOK
  /\ phase = "scanning" => ResultsPassed
  /\ (phase = "scanning" /\ sound) => BestWins
  /\ phase = "idle" => sound
  /\ UnsoundExplained
  /\ HighestScoreWins

LEMMA MatchInitInv == Init => MatchInv
<1> SUFFICES ASSUME Init PROVE MatchInv
  OBVIOUS
<1>1. rules \in Seq(Rule) /\ results \in Seq(Result) /\ added \in Seq(Rule)
  BY DEF Init
<1>2. frame \in Frame
  BY DEF Init, Frame
<1>3. Len(rules) = 0 /\ Len(results) = 0
  BY DEF Init
<1>4. out \in Result
  BY DEF Init, NoResult, Result, Score
<1>5. TypeOK
  <2>1. capacity = 0 /\ next = 1 /\ best = 0 /\ status = "IPMB_OK" /\ phase = "idle"
    BY DEF Init
  <2>2. moved \in BOOLEAN /\ sound \in BOOLEAN
    BY DEF Init
  <2> QED BY <1>1, <1>2, <1>3, <1>4, <2>1, <2>2 DEF TypeOK
<1>6. sound /\ phase = "idle" /\ phase # "scanning" /\ phase # "answered"
  BY DEF Init
<1> QED BY <1>5, <1>6 DEF MatchInv, UnsoundExplained, HighestScoreWins

(* A table that is between two scans, or a scan that failed.               *)
LEMMA NoScanInv ==
  ASSUME TypeOK, NoScan,
         rules' \in Seq(Rule), capacity' \in Nat, Len(rules') <= capacity',
         added' \in Seq(Rule), status' \in {"IPMB_OK", "IPMB_ERR_ALLOC"}
                                           \cup {status}
  PROVE  MatchInv'
<1>1. results' \in Seq(Result) /\ Len(results') = 0 /\ out' \in Result
  BY DEF NoScan, NoResult, Result, Score
<1>2. Len(rules') \in Nat
  OBVIOUS
<1>3. TypeOK'
  <2>1. next' = 1 /\ best' = 0 /\ phase' = "idle" /\ frame' = frame
    BY DEF NoScan
  <2>2. moved' \in BOOLEAN /\ sound' \in BOOLEAN
    BY DEF NoScan
  <2>3. frame \in Frame /\ status' \in {"IPMB_OK", "IPMB_ERR_ALLOC", "IPMB_ERR_NOT_FOUND"}
    BY DEF TypeOK
  <2> QED BY <1>1, <1>2, <2>1, <2>2, <2>3 DEF TypeOK
<1>4. sound' /\ phase' = "idle" /\ phase' # "scanning" /\ phase' # "answered"
  BY DEF NoScan
<1> QED BY <1>3, <1>4 DEF MatchInv, UnsoundExplained, HighestScoreWins

LEMMA AddInv ==
  ASSUME TypeOK, NEW rule \in [priority : Priority, code : Code], Add(rule)
  PROVE  MatchInv'
<1>1. rule \in Rule
  BY DEF Rule
<1>2. FirstCapacity \in Nat \ {0} /\ capacity \in Nat
  BY TableAssumption DEF TypeOK
<1>3. CASE Cloned(rule) /\ capacity' = (IF Full THEN Grown ELSE capacity)
  <2>0. Clones(rule.code) \subseteq Code \cup {NULL}
    BY DEF Clones
  <2>1. PICK clone \in Clones(rule.code) :
          /\ rules' = Append(rules, [rule EXCEPT !.code = clone])
          /\ IF clone = NULL
               THEN status' = "IPMB_ERR_ALLOC" /\ UNCHANGED added
               ELSE status' = "IPMB_OK" /\ added' = Append(added, rule)
    BY <1>3 DEF Cloned
  <2>2. [rule EXCEPT !.code = clone] \in Rule
    BY <1>1, <2>0 DEF Rule
  <2>3. rules' \in Seq(Rule) /\ Len(rules') = Len(rules) + 1
    BY <2>1, <2>2 DEF TypeOK
  <2>4. added' \in Seq(Rule)
    <3>1. added \in Seq(Rule)
      BY DEF TypeOK
    <3>2. added' = added \/ added' = Append(added, rule)
      BY <2>1
    <3> QED BY <1>1, <3>1, <3>2
  <2>5. capacity' \in Nat /\ Len(rules') <= capacity'
    BY <1>2, <1>3, <2>3 DEF Full, Grown, TypeOK
  <2> QED BY <2>1, <2>3, <2>4, <2>5, NoScanInv DEF Add
<1>4. CASE status' = "IPMB_ERR_ALLOC" /\ UNCHANGED <<rules, capacity, added>>
  BY <1>4, NoScanInv DEF Add, TypeOK
<1> QED BY <1>3, <1>4 DEF Add

LEMMA FreeTableInv ==
  ASSUME TypeOK, FreeTable
  PROVE  MatchInv'
<1>1. rules' \in Seq(Rule) /\ capacity' \in Nat /\ Len(rules') <= capacity'
      /\ added' \in Seq(Rule)
  BY DEF FreeTable
<1> QED BY <1>1, NoScanInv DEF FreeTable

LEMMA BeginInv ==
  ASSUME TypeOK, NEW f \in Frame, Begin(f)
  PROVE  MatchInv'
<1>1. results' = <<>> /\ Len(results') = 0 /\ DOMAIN results' = {}
      /\ results' \in Seq(Result) /\ out' \in Result
  BY DEF Begin, NoResult, Result, Score
<1>2. TypeOK'
  <2>1. /\ next' = 1 /\ best' = 0 /\ phase' = "scanning" /\ frame' = f
        /\ UNCHANGED <<rules, capacity, added, status>>
    BY DEF Begin, tableVars
  <2>2. moved' \in BOOLEAN /\ sound' \in BOOLEAN
    BY DEF Begin
  <2>3. /\ rules \in Seq(Rule) /\ Len(rules) \in Nat
        /\ capacity \in Nat /\ Len(rules) <= capacity /\ added \in Seq(Rule)
        /\ status \in {"IPMB_OK", "IPMB_ERR_ALLOC", "IPMB_ERR_NOT_FOUND"}
    BY DEF TypeOK
  <2> QED BY <1>1, <2>1, <2>2, <2>3 DEF TypeOK
<1>3. /\ sound' /\ ~moved' /\ best' = 0 /\ next' = 1
      /\ phase' = "scanning" /\ phase' # "answered" /\ phase' # "idle"
  BY DEF Begin
<1>4. Passed' = {}
  <2>1. \A k \in DOMAIN rules' : ~(k < 1)
    BY <1>2 DEF TypeOK
  <2> QED BY <1>3, <2>1 DEF Passed, Hitting
<1> QED BY <1>1, <1>2, <1>3, <1>4
        DEF MatchInv, ResultsPassed, BestWins, UnsoundExplained, HighestScoreWins

-----------------------------------------------------------------------------

(* While a scan runs, the table and the frame are what they were.          *)
LEMMA SkipInv ==
  ASSUME MatchInv, Skip
  PROVE  MatchInv'
<1>1. TypeOK'
  BY DEF MatchInv, TypeOK, Skip, tableVars
<1>2. /\ Hitting' = Hitting /\ results' = results /\ best' = best /\ moved' = moved
      /\ sound' = sound /\ phase = "scanning" /\ phase' = "scanning" /\ rules' = rules
      /\ frame' = frame
  BY DEF Skip, tableVars, Hitting, Hits
<1>3. Passed' = Passed
  <2>1. next \notin Hitting /\ next' = next + 1 /\ next \in Nat
    BY DEF Skip, Hitting, MatchInv, TypeOK
  <2>2. Hitting \subseteq Nat
    BY DEF Hitting, MatchInv, TypeOK
  <2>3. \A k \in Hitting : k < next' <=> k < next
    BY <2>1, <2>2
  <2> QED BY <1>2, <2>3 DEF Passed
<1>4. ResultsPassed'
  BY <1>2, <1>3 DEF MatchInv, ResultsPassed
<1>5. ASSUME sound' PROVE BestWins'
  BY <1>2, <1>3, <1>5 DEF MatchInv, BestWins, ScoreAt
<1>6. UnsoundExplained'
  BY <1>2 DEF MatchInv, UnsoundExplained, ScoreAt
<1> QED BY <1>1, <1>2, <1>4, <1>5, <1>6 DEF MatchInv, HighestScoreWins

(* Any two rules that match are two matches, and one that matches now is   *)
(* another than those that were passed.                                    *)
LEMMA SecondMatch ==
  ASSUME MatchInv, phase = "scanning", next \in Hitting, best # 0
  PROVE  \E j, k \in Hitting : j # k
<1>1. best \in DOMAIN results
  BY DEF MatchInv, TypeOK
<1>2. results[best].rule \in Hitting /\ results[best].rule < next
  BY <1>1 DEF MatchInv, ResultsPassed, Passed
<1>3. results[best].rule \in Nat /\ next \in Nat
  BY <1>2 DEF Hitting, MatchInv, TypeOK
<1> QED BY <1>2, <1>3

LEMMA ScoresAreInts ==
  ASSUME TypeOK, NEW k \in Hitting
  PROVE  ScoreAt(k) \in Int
<1>1. Priority \subseteq Int /\ FramePriority \subseteq Int
  BY TableAssumption
<1>2. rules[k] \in Rule
  BY DEF Hitting, TypeOK
<1>3. rules[k].priority \in Int
  BY <1>1, <1>2 DEF Rule
<1>4. frame.priority \in Int
  BY <1>1 DEF TypeOK, Frame
<1> QED BY <1>3, <1>4 DEF ScoreAt

(* The sum of the two priorities is an integer, and an int unless it is    *)
(* too large.                                                              *)
LEMMA MatchTypes ==
  ASSUME MatchInv, Match
  PROVE  /\ phase = "scanning" /\ next \in Hitting /\ next \in Nat
         /\ rules[next].priority \in Int /\ frame.priority \in Nat
         /\ ScoreAt(next) \in Int /\ Scores(next) \subseteq Int
<1>1. phase = "scanning" /\ next \in DOMAIN rules /\ Hits(next)
  BY DEF Match, MatchInv, TypeOK
<1>2. next \in Hitting /\ next \in Nat
  BY <1>1 DEF Hitting, MatchInv, TypeOK
<1>3. rules[next] \in Rule
  BY <1>1 DEF MatchInv, TypeOK
<1>4. rules[next].priority \in Int
  <2>1. Priority \subseteq Int
    BY TableAssumption
  <2> QED BY <1>3, <2>1 DEF Rule
<1>5. frame.priority \in Nat
  <2>1. FramePriority \subseteq Nat
    BY TableAssumption
  <2> QED BY <2>1 DEF MatchInv, TypeOK, Frame
<1>6. ScoreAt(next) \in Int
  BY <1>4, <1>5 DEF ScoreAt
<1>7. Scores(next) \subseteq Int
  BY <1>6, TableAssumption DEF Scores
<1> QED BY <1>1, <1>2, <1>4, <1>5, <1>6, <1>7

(* The rule is passed, and its match is the last.                          *)
LEMMA MatchedType ==
  ASSUME MatchInv, Match
  PROVE  TypeOK' /\ ResultsPassed' /\ Hitting' = Hitting
         /\ Passed' = Passed \cup {next}
<1>1. PICK score \in Scores(next), b \in {best, Len(results)} :
        /\ results' = Append(results, [rule |-> next, score |-> score,
                                       priority |-> rules[next].priority])
        /\ best' \in {Len(results) + 1, b}
        /\ (moved' => best # 0) /\ moved' \in BOOLEAN /\ sound' \in BOOLEAN
  BY ZenonT(60) DEF Match
<1>2. UNCHANGED <<rules, capacity, added, status, phase, frame, out>> /\ next' = next + 1
  BY DEF Match, tableVars
<1> DEFINE new == [rule |-> next, score |-> score, priority |-> rules[next].priority]
<1>3. new \in Result /\ new.rule = next
  BY MatchTypes DEF Result, Score
<1> HIDE DEF new
<1>4. /\ results \in Seq(Result) /\ results' = Append(results, new)
      /\ results' \in Seq(Result) /\ Len(results') = Len(results) + 1
      /\ Len(results) \in Nat
  BY <1>1, <1>3 DEF new, MatchInv, TypeOK
<1>5. TypeOK'
  <2>1. best \in 0 .. Len(results) /\ next \in 1 .. Len(rules)
    BY DEF MatchInv, TypeOK, Match
  <2>2. best' \in 0 .. Len(results')
    BY <1>1, <1>4, <2>1
  <2>3. next' \in 1 .. Len(rules') + 1
    BY <1>2, <2>1 DEF MatchInv, TypeOK
  <2> QED BY <1>1, <1>2, <1>4, <2>2, <2>3 DEF MatchInv, TypeOK
<1>6. Hitting' = Hitting
  BY <1>2 DEF Hitting, Hits
<1>7. Passed' = Passed \cup {next}
  <2>1. Hitting \subseteq Nat
    BY DEF Hitting, MatchInv, TypeOK
  <2>2. \A k \in Hitting : k < next' <=> k < next \/ k = next
    BY <1>2, <2>1, MatchTypes
  <2> QED BY <1>6, <2>2, MatchTypes DEF Passed
<1>8. ASSUME NEW i \in DOMAIN results' PROVE results'[i].rule \in Passed'
  <2>1. CASE i = Len(results')
    BY <1>3, <1>4, <1>7, <2>1
  <2>2. CASE i # Len(results')
    <3>1. i \in DOMAIN results /\ results'[i] = results[i]
      BY <1>4, <2>2
    <3> QED BY <1>7, <3>1, MatchTypes DEF MatchInv, ResultsPassed
  <2> QED BY <2>1, <2>2
<1>9. moved' => \E j, k \in Hitting' : j # k
  BY <1>1, <1>6, MatchTypes, SecondMatch
<1> QED BY <1>5, <1>6, <1>7, <1>8, <1>9 DEF ResultsPassed

(* The new match is compared with the best of those before it, whichever   *)
(* way best went: when the rule's priority alone exceeds the best score,   *)
(* its score does, for a frame's priority is not negative.                 *)
LEMMA MatchedBest ==
  ASSUME MatchInv, Match, sound'
  PROVE  BestWins'
<1>0. TypeOK' /\ ResultsPassed' /\ Hitting' = Hitting /\ Passed' = Passed \cup {next}
  BY MatchedType
<1>1. PICK was \in ScoresRead(best, moved), moves \in BOOLEAN, score \in Scores(next) :
       LET last == best # 0 /\ rules[next].priority > was
           b == IF last THEN Len(results) ELSE best
           stale == best # 0 /\ (moves \/ (moved /\ ~last))
       IN \E now \in ScoresRead(b, stale) :
            /\ results' = Append(results, [rule |-> next, score |-> score,
                                           priority |-> rules[next].priority])
            /\ best' = IF Better(b, score, now) THEN Len(results) + 1 ELSE b
            /\ moved' = (stale /\ ~Better(b, score, now))
            /\ sound' = (sound /\ ~moved /\ ~stale /\ ScoreAt(next) <= IntMax)
  BY DEF Match
<1> DEFINE last == best # 0 /\ rules[next].priority > was
           b == IF last THEN Len(results) ELSE best
           stale == best # 0 /\ (moves \/ (moved /\ ~last))
           new == [rule |-> next, score |-> score, priority |-> rules[next].priority]
<1>2. PICK now \in ScoresRead(b, stale) :
        /\ results' = Append(results, new)
        /\ best' = IF Better(b, score, now) THEN Len(results) + 1 ELSE b
        /\ moved' = (stale /\ ~Better(b, score, now))
        /\ sound' = (sound /\ ~moved /\ ~stale /\ ScoreAt(next) <= IntMax)
  BY <1>1
<1>3. sound /\ ~moved /\ ~stale /\ ScoreAt(next) <= IntMax
  BY <1>2
<1>4. BestWins /\ ~moved'
  BY <1>2, <1>3, MatchTypes DEF MatchInv
<1>5. score = ScoreAt(next)
  BY <1>3 DEF Scores
<1>6. now = (IF b = 0 THEN 0 ELSE results[b].score)
      /\ was = (IF best = 0 THEN 0 ELSE results[best].score)
  BY <1>3 DEF ScoresRead
<1>7. UNCHANGED <<rules, frame>> /\ next' = next + 1
  BY DEF Match, tableVars
<1>8. /\ results \in Seq(Result) /\ Len(results) \in Nat /\ best \in 0 .. Len(results)
      /\ \A i \in DOMAIN results : results'[i] = results[i]
      /\ results'[Len(results) + 1] = new /\ DOMAIN results' = 1 .. Len(results) + 1
      /\ DOMAIN results = 1 .. Len(results)
  BY <1>2 DEF MatchInv, TypeOK
<1>9. new.rule = next /\ new.score = score /\ new.priority = rules[next].priority
  OBVIOUS
<1>10. \A k : ScoreAt(k)' = ScoreAt(k)
  BY <1>7 DEF ScoreAt
<1>11. \A i \in DOMAIN results : results[i].score \in Int /\ results[i].rule \in Hitting
                                /\ results[i].rule < next /\ results[i].rule \in Nat
  <2>1. \A i \in DOMAIN results : results[i] \in Result
    BY <1>8
  <2> QED BY <2>1, MatchTypes DEF Result, Score, MatchInv, ResultsPassed, Passed
<1>12. score \in Int /\ rules[next].priority <= score
  BY <1>5, MatchTypes DEF ScoreAt
<1> DEFINE old == results[best]
<1>13. best # 0 => /\ best \in DOMAIN results /\ Len(results) \in DOMAIN results
                   /\ old.score = ScoreAt(old.rule)
                   /\ \A i \in DOMAIN results : results[i].score <= old.score
                   /\ \A j \in Passed : ScoreAt(j) < ScoreAt(old.rule)
                        \/ (ScoreAt(j) = ScoreAt(old.rule) /\ old.rule <= j)
  BY <1>4, <1>8 DEF BestWins
<1>14. best # 0 => old.priority = rules[old.rule].priority
  BY <1>4 DEF BestWins
<1> HIDE DEF new, stale
<1>15. CASE best = 0
  <2>1. best' = Len(results) + 1 /\ results = <<>>
    <3>1. b = 0
      BY <1>15
    <3>2. Passed = {}
      BY <1>4, <1>15 DEF BestWins
    <3>3. DOMAIN results = {}
      BY <3>2 , MatchTypes DEF MatchInv, ResultsPassed
    <3> QED BY <1>2, <1>8, <3>1, <3>3 DEF Better
  <2>2. Len(results) = 0 /\ best' = 1 /\ results'[1] = new /\ DOMAIN results' = {1}
    BY <1>8, <2>1
  <2>3. Passed' = {next}
    BY <1>0, <1>4, <1>15 DEF BestWins
  <2>4. results'[best'] = new /\ best' # 0
    BY <2>2
  <2> QED BY <1>4, <1>5, <1>7, <1>9, <1>10, <1>12, <2>2, <2>3, <2>4, MatchTypes DEF BestWins
<1>16. CASE best # 0 /\ score > old.score
  <2>1. best' = Len(results) + 1
    <3>1. b \in DOMAIN results /\ b # 0
      BY <1>8, <1>13, <1>16
    <3>2. results[b].score < score
      BY <1>11, <1>12, <1>13, <1>16, <3>1
    <3>3. Better(b, score, now)
      BY <1>6, <1>11, <1>12, <3>1, <3>2 DEF Better
    <3> QED BY <1>2, <3>3
  <2>2. results'[best'] = new /\ best' # 0
    BY <1>8, <2>1
  <2>3. \A i \in DOMAIN results' : results'[i].score <= score
    BY <1>8, <1>9, <1>11, <1>12, <1>13, <1>16
  <2>4. ASSUME NEW j \in Passed'
        PROVE  ScoreAt(j) < score \/ (ScoreAt(j) = score /\ next <= j)
    <3>1. CASE j \in Passed
      <4>1. ScoreAt(j) \in Int /\ old.score \in Int
        BY <1>11, <1>13, <1>16, <3>1, ScoresAreInts DEF MatchInv, Passed
      <4> QED BY <1>12, <1>13, <1>16, <3>1, <4>1
    <3>2. CASE j = next
      BY <1>5, <1>12, <3>2, MatchTypes
    <3> QED BY <1>0, <2>4, <3>1, <3>2
  <2> QED BY <1>4, <1>5, <1>7, <1>9, <1>10, <2>2, <2>3, <2>4 DEF BestWins
<1>17. CASE best # 0 /\ ~(score > old.score)
  <2>1. ~last
    <3>1. old.score \in Int /\ was = old.score
      BY <1>6, <1>11, <1>13, <1>17
    <3>2. ~(rules[next].priority > was)
      BY <1>12, <1>17, <3>1, MatchTypes
    <3> QED BY <3>2
  <2>2. b = best
    BY <2>1
  <2>3. best' = best
    BY <1>2, <1>6, <1>17, <2>2 DEF Better
  <2>4. results'[best'] = old /\ best' # 0
    BY <1>8, <1>13, <1>17, <2>3
  <2>5. \A i \in DOMAIN results' : results'[i].score <= old.score
    BY <1>8, <1>9, <1>11, <1>12, <1>13, <1>17
  <2>6. old.rule < next /\ old.rule \in Nat
    BY <1>11, <1>13, <1>17
  <2>7. ASSUME NEW j \in Passed'
        PROVE  ScoreAt(j) < ScoreAt(old.rule)
               \/ (ScoreAt(j) = ScoreAt(old.rule) /\ old.rule <= j)
    <3>1. CASE j \in Passed
      BY <1>13, <1>17, <3>1
    <3>2. CASE j = next
      BY <1>5, <1>11, <1>12, <1>13, <1>17, <2>6, <3>2, MatchTypes
    <3> QED BY <1>0, <2>7, <3>1, <3>2
  <2> HIDE DEF old
  <2> QED BY <1>4, <1>7, <1>10, <1>13, <1>14, <1>17, <2>4, <2>5, <2>7 DEF BestWins
<1> QED BY <1>15, <1>16, <1>17

(* A scan goes wrong only behind a second match, or on a sum that no int   *)
(* holds.                                                                  *)
LEMMA MatchInvKept ==
  ASSUME MatchInv, Match
  PROVE  MatchInv'
<1>1. TypeOK' /\ ResultsPassed' /\ Hitting' = Hitting
  BY MatchedType
<1>2. phase' = "scanning" /\ UNCHANGED <<rules, frame>>
  BY DEF Match, tableVars
<1>3. UnsoundExplained'
  <2>1. \/ sound' \/ ~sound \/ best # 0 \/ ~(ScoreAt(next) <= IntMax) \/ moved
    BY DEF Match
  <2>2. moved => \E j, k \in Hitting : j # k
    BY MatchTypes DEF MatchInv, ResultsPassed
  <2>3. ~(ScoreAt(next) <= IntMax) => \E k \in Hitting : ScoreAt(k) > IntMax
    <3>1. IntMax \in Nat
      BY TableAssumption
    <3> QED BY <3>1, MatchTypes
  <2>4. best # 0 => \E j, k \in Hitting : j # k
    BY MatchTypes, SecondMatch
  <2>5. \A k : ScoreAt(k)' = ScoreAt(k)
    BY <1>2 DEF ScoreAt
  <2> QED BY <1>1, <2>1, <2>2, <2>3, <2>4, <2>5 DEF MatchInv, UnsoundExplained
<1>4. sound' => BestWins'
  BY MatchedBest
<1> QED BY <1>1, <1>2, <1>3, <1>4 DEF MatchInv, HighestScoreWins

LEMMA MatchRefusedInv ==
  ASSUME MatchInv, MatchRefused
  PROVE  MatchInv'
<1>1. UNCHANGED <<rules, capacity, added>> /\ status' = "IPMB_ERR_ALLOC" /\ NoScan
  BY DEF MatchRefused, tableVars
<1>2. TypeOK /\ rules' \in Seq(Rule) /\ capacity' \in Nat /\ Len(rules') <= capacity'
      /\ added' \in Seq(Rule)
  BY <1>1 DEF MatchInv, TypeOK
<1> QED BY <1>1, <1>2, NoScanInv

(* The best match is what is answered, and it wins among all rules, which  *)
(* have been passed by then.                                               *)
LEMMA AnswerInv ==
  ASSUME MatchInv, Answer
  PROVE  MatchInv'
<1>1. /\ phase = "scanning" /\ phase' = "answered" /\ next > Len(rules)
      /\ UNCHANGED <<rules, capacity, added, frame>>
      /\ next' = 1 /\ results' = <<>> /\ best' = 0 /\ ~moved' /\ moved' \in BOOLEAN
      /\ sound' = (sound /\ ~moved)
      /\ \/ best = 0 /\ status' = "IPMB_ERR_NOT_FOUND" /\ out' = out
         \/ best # 0 /\ status' = "IPMB_OK" /\ out' \in Outcomes
  BY DEF Answer, tableVars
<1>2. best # 0 => best \in DOMAIN results /\ results[best] \in Result
  BY DEF MatchInv, TypeOK
<1>3. out' \in Result
  <2>1. [rule : {0}, priority : Junk, score : Junk] \subseteq Result
    <3>1. Junk \subseteq Int /\ 0 \in Nat
      BY TableAssumption
    <3> QED BY <3>1 DEF Result, Score
  <2>2. best # 0 => Outcomes \subseteq Result
    BY <1>2, <2>1 DEF Outcomes
  <2> QED BY <1>1, <2>2 DEF MatchInv, TypeOK
<1>4. TypeOK'
  <2>1. results' \in Seq(Result) /\ Len(results') = 0
    BY <1>1
  <2>2. sound' \in BOOLEAN
    BY <1>1 DEF MatchInv, TypeOK
  <2>3. status' \in {"IPMB_OK", "IPMB_ERR_ALLOC", "IPMB_ERR_NOT_FOUND"}
    BY <1>1
  <2>4. rules' \in Seq(Rule) /\ Len(rules') \in Nat /\ capacity' \in Nat
        /\ Len(rules') <= capacity' /\ added' \in Seq(Rule) /\ frame' \in Frame
    BY <1>1 DEF MatchInv, TypeOK
  <2> QED BY <1>1, <1>3, <2>1, <2>2, <2>3, <2>4 DEF TypeOK
<1>5. Hitting' = Hitting /\ (\A k : ScoreAt(k)' = ScoreAt(k))
  BY <1>1 DEF Hitting, Hits, ScoreAt
<1>6. Passed = Hitting
  <2>1. Hitting \subseteq 1 .. Len(rules) /\ Len(rules) \in Nat /\ next \in Nat
    BY DEF Hitting, MatchInv, TypeOK
  <2>2. \A k \in Hitting : k < next
    BY <1>1, <2>1
  <2> QED BY <2>2 DEF Passed
<1>7. UnsoundExplained'
  BY <1>1, <1>5 DEF MatchInv, ResultsPassed, UnsoundExplained
<1>8. HighestScoreWins'
  <2> SUFFICES ASSUME sound'
               PROVE  HighestScoreWins'
    BY DEF HighestScoreWins
  <2>1. BestWins /\ ~moved
    BY <1>1 DEF MatchInv
  <2>2. CASE best = 0
    BY <1>1, <1>5, <1>6, <2>1, <2>2 DEF BestWins, HighestScoreWins
  <2>3. CASE best # 0
    <3>1. out' = results[best]
      BY <1>1, <2>1, <2>3 DEF Outcomes
    <3>2. results[best].rule \in Hitting
      BY <1>1, <1>2, <1>6, <2>3 DEF MatchInv, ResultsPassed
    <3> DEFINE w == results[best]
    <3>3. /\ w.score = ScoreAt(w.rule) /\ w.priority = rules[w.rule].priority
          /\ \A j \in Hitting : ScoreAt(j) < ScoreAt(w.rule)
                \/ (ScoreAt(j) = ScoreAt(w.rule) /\ w.rule <= j)
      BY <1>6, <2>1, <2>3 DEF BestWins
    <3> HIDE DEF w
    <3>4. out' = w /\ w.rule \in Hitting
      BY <3>1, <3>2 DEF w
    <3>5. Wins(out.rule)'
      BY <1>5, <3>3, <3>4 DEF Wins
    <3>6. (out.score = ScoreAt(out.rule) /\ out.priority = rules[out.rule].priority)'
      BY <1>1, <1>5, <3>3, <3>4
    <3> QED BY <1>1, <1>5, <2>3, <3>4, <3>5, <3>6 DEF HighestScoreWins
  <2> QED BY <2>2, <2>3
<1> QED BY <1>1, <1>4, <1>7, <1>8 DEF MatchInv

LEMMA CrashInv ==
  ASSUME MatchInv, Crash
  PROVE  MatchInv'
<1>1. /\ phase = "scanning" /\ phase' = "crashed" /\ best # 0 /\ sound' = FALSE
      /\ UNCHANGED <<rules, capacity, added, status, frame, next, results, best, moved, out>>
      /\ (next \in DOMAIN rules /\ Hits(next)) \/ moved
  BY DEF Crash, tableVars, MatchInv, TypeOK
<1>2. TypeOK'
  BY <1>1 DEF MatchInv, TypeOK
<1>3. \E j, k \in Hitting : j # k
  <2>1. CASE next \in Hitting
    BY <1>1, <2>1, SecondMatch
  <2>2. CASE moved
    BY <1>1, <2>2 DEF MatchInv, ResultsPassed
  <2> QED BY <1>1, <2>1, <2>2 DEF Hitting
<1>4. Hitting' = Hitting
  BY <1>1 DEF Hitting, Hits
<1> QED BY <1>1, <1>2, <1>3, <1>4 DEF MatchInv, UnsoundExplained, HighestScoreWins

LEMMA MatchNextInv == MatchInv /\ [Next]_vars => MatchInv'
<1> SUFFICES ASSUME MatchInv, [Next]_vars
             PROVE  MatchInv'
  OBVIOUS
<1>1. TypeOK
  BY DEF MatchInv
<1>2. ASSUME UNCHANGED vars
      PROVE  MatchInv'
  BY <1>2 DEF vars, tableVars, scanVars, MatchInv, TypeOK, ResultsPassed, BestWins, Passed,
              Hitting, Hits, ScoreAt, UnsoundExplained, HighestScoreWins, Wins
<1> QED BY <1>1, <1>2, AddInv, FreeTableInv, BeginInv, SkipInv, MatchInvKept,
           MatchRefusedInv, AnswerInv, CrashInv
        DEF Next, Stopped

LEMMA MatchAlways == Spec => []MatchInv
  BY MatchInitInv, MatchNextInv, PTL DEF Spec

(* The table, the results and the answer are well typed.                   *)
THEOREM TypeCorrect == Spec => []TypeOK
<1>1. MatchInv => TypeOK
  BY DEF MatchInv
<1> QED BY <1>1, MatchAlways, PTL

(* Of any number of rules, the scan that reads through no stale pointer    *)
(* answers with the first of those with the highest score.                 *)
THEOREM HighestScoreWinsAlways == Spec => []HighestScoreWins
<1>1. MatchInv => HighestScoreWins
  BY DEF MatchInv
<1> QED BY <1>1, MatchAlways, PTL

(* A scan of any table goes wrong only where two rules match its frame, or *)
(* one whose score no int holds.                                           *)
THEOREM UnsoundExplainedAlways == Spec => []UnsoundExplained
<1>1. MatchInv => UnsoundExplained
  BY DEF MatchInv
<1> QED BY <1>1, MatchAlways, PTL

-----------------------------------------------------------------------------

(***************************************************************************)
(* What was added.  A rule's rank is the number of rules up to it that     *)
(* have a code: it is the same in every table that begins with these.      *)
(***************************************************************************)

LEMMA CodedIsFinite ==
  \A n \in Nat : IsFiniteSet(Coded(n)) /\ Cardinality(Coded(n)) \in Nat
<1> SUFFICES ASSUME NEW n \in Nat
             PROVE  IsFiniteSet(Coded(n)) /\ Cardinality(Coded(n)) \in Nat
  OBVIOUS
<1>1. IsFiniteSet(1 .. n) /\ Coded(n) \in SUBSET (1 .. n)
  BY FS_Interval DEF Coded
<1> QED BY <1>1, FS_Subset, FS_CardinalityType

LEMMA CodedUpTo ==
  ASSUME NEW n \in Nat, NEW k \in Coded(n)
  PROVE  /\ k \in 1 .. n
         /\ Cardinality(Coded(k)) \in 1 .. Cardinality(Coded(n))
<1>1. k \in 1 .. n /\ Coded(k) \in SUBSET Coded(n) /\ k \in Coded(k)
  BY DEF Coded
<1>2. /\ IsFiniteSet(Coded(n)) /\ Cardinality(Coded(n)) \in Nat
      /\ IsFiniteSet(Coded(k)) /\ Cardinality(Coded(k)) \in Nat
  BY <1>1, CodedIsFinite
<1>3. Cardinality(Coded(k)) <= Cardinality(Coded(n))
  BY <1>1, <1>2, FS_Subset
<1>4. Cardinality(Coded(k)) # 0
  BY <1>1, <1>2, FS_EmptySet
<1> QED BY <1>1, <1>2, <1>3, <1>4

(* The rules and their ranks after one rule more. *)
LEMMA CodedNext ==
  ASSUME TypeOK, NEW r \in Rule, rules' = Append(rules, r), NEW n, n = Len(rules)
  PROVE  /\ n \in Nat /\ Len(rules') = n + 1 /\ rules'[n + 1] = r
         /\ \A k \in 1 .. n : rules'[k] = rules[k]
         /\ \A k \in 0 .. n : Coded(k)' = Coded(k)
         /\ Coded(n + 1)' = IF r.code = NULL THEN Coded(n) ELSE Coded(n) \cup {n + 1}
<1>1. /\ n \in Nat /\ Len(rules') = n + 1 /\ rules'[n + 1] = r
      /\ \A k \in 1 .. n : rules'[k] = rules[k]
  BY DEF TypeOK
<1>2. \A k \in 0 .. n : Coded(k)' = Coded(k)
  BY <1>1 DEF Coded
<1>3. Coded(n + 1)' = IF r.code = NULL THEN Coded(n) ELSE Coded(n) \cup {n + 1}
  <2>1. \A k : k \in 1 .. n + 1 <=> k \in 1 .. n \/ k = n + 1
    BY <1>1
  <2>2. Coded(n + 1)' = {k \in 1 .. n + 1 : rules'[k].code # NULL}
    BY DEF Coded
  <2>3. Coded(n) = {k \in 1 .. n : rules[k].code # NULL}
    BY DEF Coded
  <2>4. ASSUME NEW k
        PROVE  k \in Coded(n + 1)' <=>
                 k \in Coded(n) \/ (k = n + 1 /\ r.code # NULL)
    <3>1. k \in 1 .. n => rules'[k] = rules[k] /\ k # n + 1
      BY <1>1
    <3> QED BY <1>1, <2>1, <2>2, <2>3, <3>1
  <2> HIDE DEF Coded
  <2>5. CASE r.code = NULL
    BY <2>4, <2>5
  <2>6. CASE r.code # NULL
    BY <2>4, <2>6
  <2> QED BY <2>5, <2>6
<1> QED BY <1>1, <1>2, <1>3

LEMMA ClonedKeepsAdded ==
  ASSUME TypeOK, AddedRulesMatch,
         NEW rule \in [priority : Priority, code : Code], Cloned(rule)
  PROVE  AddedRulesMatch'
<1>0. PICK n : n = Len(rules)
  OBVIOUS
<1>1. PICK clone \in Clones(rule.code) :
        /\ rules' = Append(rules, [rule EXCEPT !.code = clone])
        /\ IF clone = NULL THEN UNCHANGED added ELSE added' = Append(added, rule)
  BY DEF Cloned
<1> DEFINE r == [rule EXCEPT !.code = clone]
<1>2. clone \in {rule.code, NULL} /\ rule.code # NULL
  BY TableAssumption DEF Clones
<1>3. r \in Rule /\ r.code = clone /\ (clone # NULL => r = rule)
  <2>1. rule \in Rule /\ clone \in Code \cup {NULL}
    BY <1>2 DEF Rule
  <2> QED BY <1>2, <2>1 DEF Rule
<1>4. /\ n \in Nat /\ Len(rules') = n + 1 /\ rules'[n + 1] = r
      /\ \A k \in 1 .. n : rules'[k] = rules[k]
      /\ \A k \in 0 .. n : Coded(k)' = Coded(k)
      /\ Coded(n + 1)' = IF clone = NULL THEN Coded(n) ELSE Coded(n) \cup {n + 1}
  <2> HIDE DEF r
  <2> QED BY <1>0, <1>1, <1>3, CodedNext DEF r
<1>5. added \in Seq(Rule) /\ rule \in Rule
  BY DEF TypeOK, Rule
<1>6. /\ Len(added) = Cardinality(Coded(n))
      /\ \A k \in Coded(n) : /\ k \in 1 .. n
                             /\ added[Cardinality(Coded(k))] = rules[k]
                             /\ Cardinality(Coded(k)) \in 1 .. Len(added)
  BY <1>0, <1>4, CodedUpTo DEF AddedRulesMatch
<1> HIDE DEF r
<1>7. CASE clone = NULL
  <2>1. Coded(n + 1)' = Coded(n) /\ added' = added
    BY <1>1, <1>4, <1>7
  <2>2. \A k \in Coded(n) : added'[Cardinality(Coded(k)')] = rules'[k]
    BY <1>4, <1>6, <2>1
  <2> QED BY <1>4, <1>6, <2>1, <2>2 DEF AddedRulesMatch
<1>8. CASE clone # NULL
  <2>1. added' = Append(added, rule) /\ Coded(n + 1)' = Coded(n) \cup {n + 1}
    BY <1>1, <1>4, <1>8
  <2>2. /\ Len(added') = Len(added) + 1 /\ added'[Len(added) + 1] = rule
        /\ \A i \in 1 .. Len(added) : added'[i] = added[i]
    BY <1>5, <2>1
  <2>3. Cardinality(Coded(n + 1)') = Cardinality(Coded(n)) + 1
    <3>1. n + 1 \notin Coded(n) /\ IsFiniteSet(Coded(n))
      BY <1>4, <1>6, CodedIsFinite
    <3> QED BY <2>1, <3>1, FS_AddElement
  <2>4. \A k \in Coded(n) : added'[Cardinality(Coded(k)')] = rules'[k]
    <3> TAKE k \in Coded(n)
    <3>1. Coded(k)' = Coded(k) /\ rules'[k] = rules[k]
      BY <1>4, <1>6
    <3> QED BY <1>6, <2>2, <3>1
  <2>5. added'[Cardinality(Coded(n + 1)')] = rules'[n + 1]
    BY <1>3, <1>4, <1>6, <1>8, <2>2, <2>3
  <2> QED BY <1>4, <1>6, <2>1, <2>2, <2>3, <2>4, <2>5 DEF AddedRulesMatch
<1> QED BY <1>7, <1>8

LEMMA AddedNext ==
  MatchInv /\ AddedRulesMatch /\ [Next]_vars => AddedRulesMatch'
<1> SUFFICES ASSUME MatchInv, AddedRulesMatch, [Next]_vars
             PROVE  AddedRulesMatch'
  OBVIOUS
<1>1. TypeOK
  BY DEF MatchInv
<1>2. ASSUME UNCHANGED <<rules, added>>
      PROVE  AddedRulesMatch'
  BY <1>2 DEF AddedRulesMatch, Coded
<1>3. ASSUME NEW rule \in [priority : Priority, code : Code], Add(rule)
      PROVE  AddedRulesMatch'
  <2>1. CASE Cloned(rule)
    BY <1>1, <2>1, ClonedKeepsAdded
  <2> QED BY <1>2, <1>3, <2>1 DEF Add
<1>4. CASE FreeTable
  <2>1. rules' = <<>> /\ added' = <<>>
    BY <1>4 DEF FreeTable
  <2>2. Coded(Len(rules))' = {}
    BY <2>1 DEF Coded
  <2> QED BY <2>1, <2>2, FS_EmptySet DEF AddedRulesMatch
<1> QED BY <1>2, <1>3, <1>4
        DEF Next, Begin, Skip, Match, MatchRefused, Answer, Crash, Stopped,
            vars, tableVars

(* The rules that can match, of any number, are those that were added, in  *)
(* their order.                                                            *)
THEOREM AddedRulesMatchAlways == Spec => []AddedRulesMatch
<1>1. Init => AddedRulesMatch
  <2> SUFFICES ASSUME Init PROVE AddedRulesMatch
    OBVIOUS
  <2>1. rules = <<>> /\ added = <<>>
    BY DEF Init
  <2>2. Coded(Len(rules)) = {}
    BY <2>1 DEF Coded
  <2> QED BY <2>1, <2>2, FS_EmptySet DEF AddedRulesMatch
<1> QED BY <1>1, AddedNext, MatchAlways, PTL DEF Spec

=============================================================================
