------------------------------ MODULE MatchTable ------------------------------
(***************************************************************************)
(* The match table (src/routing/match_table.c): a growing array of rules,  *)
(* and the scan that picks the rule with the highest score for a frame.    *)
(*                                                                         *)
(* The scan collects its matches in an array that it reallocates at every  *)
(* match, and keeps a pointer to the best of them.  A realloc that moves   *)
(* the array leaves that pointer where the array was: what is then read    *)
(* through it is the old bytes or any others, or the read does not return. *)
(*                                                                         *)
(* A rule's name is its place in the table, and whether its code matches a *)
(* frame is a property of the frame: the virtual machine is modelled       *)
(* elsewhere.  sound and added are auxiliary: the code keeps neither.      *)
(***************************************************************************)
EXTENDS Integers, Sequences, FiniteSets

CONSTANTS
  Code,            \* bytecodes
  NULL,            \* no bytecode
  Priority,        \* priorities of rules
  FramePriority,   \* priorities of frames
  IntMax,          \* the largest int
  Junk,            \* ints that memory nobody wrote may hold
  FirstCapacity,   \* rules the first growth makes room for (4 in the code)
  MaxRules,        \* bound: rules of a table
  AllocMayFail     \* whether malloc and realloc may return NULL

Rule == [priority : Priority, code : Code \cup {NULL}]

ASSUME TableAssumption ==
  /\ NULL \notin Code
  /\ IntMax \in Nat
  /\ Priority \subseteq -IntMax - 1 .. IntMax
  /\ FramePriority \subseteq 0 .. IntMax
  /\ Junk \subseteq Int
  /\ FirstCapacity \in Nat \ {0}
  /\ MaxRules \in Nat
  /\ AllocMayFail \in BOOLEAN

VARIABLES
  rules,      \* table->rules[0 .. table->count - 1]
  capacity,   \* table->capacity
  status,     \* what the last call that returns a status returned
  phase,      \* "idle", "scanning", "answered", or "crashed" on an invalid read
  frame,      \* the frame of the last scan: its priority, the codes it matches
  next,       \* the rule the scan looks at next
  results,    \* results[0 .. count - 1]
  best,       \* the place best points to, 0 when it is NULL
  moved,      \* whether the array was moved since best was set
  out,        \* *out, zeroed by the caller before each scan
  added,      \* auxiliary: what the calls of add that succeeded were given
  sound       \* auxiliary: the scan read through no stale pointer and no
              \* score of its was out of range

tableVars == <<rules, capacity, added>>
scanVars == <<frame, next, results, best, moved, out, sound>>
vars == <<tableVars, status, phase, scanVars>>

Frame == [priority : FramePriority, matches : SUBSET Code]
Score == Int
Result == [rule : Nat, priority : Int, score : Score]

NoResult == [rule |-> 0, priority |-> 0, score |-> 0]

TypeOK ==
  /\ rules \in Seq(Rule)
  /\ capacity \in Nat
  /\ Len(rules) <= capacity
  /\ status \in {"IPMB_OK", "IPMB_ERR_ALLOC", "IPMB_ERR_NOT_FOUND"}
  /\ phase \in {"idle", "scanning", "answered", "crashed"}
  /\ frame \in Frame
  /\ next \in 1 .. Len(rules) + 1
  /\ results \in Seq(Result)
  /\ best \in 0 .. Len(results)
  /\ moved \in BOOLEAN
  /\ out \in Result
  /\ added \in Seq(Rule)
  /\ sound \in BOOLEAN

Init ==
  /\ rules = <<>>
  /\ capacity = 0
  /\ status = "IPMB_OK"
  /\ phase = "idle"
  /\ frame \in [priority : FramePriority, matches : {{}}]
  /\ next = 1
  /\ results = <<>>
  /\ best = 0
  /\ moved = FALSE
  /\ out = NoResult
  /\ added = <<>>
  /\ sound = TRUE

-----------------------------------------------------------------------------

Between == phase \in {"idle", "answered"}

(* A scan leaves nothing behind but its answer. *)
NoScan ==
  /\ phase' = "idle"
  /\ next' = 1
  /\ results' = <<>>
  /\ best' = 0
  /\ moved' = FALSE
  /\ out' = NoResult
  /\ sound' = TRUE
  /\ UNCHANGED frame

(* Mutant: the code is shared, then cloned. *)
ClonedShared(rule) ==
  \/ /\ rules' = Append(rules, rule)
     /\ added' = Append(added, rule)
     /\ status' = "IPMB_OK"
  \/ /\ AllocMayFail
     /\ rules' = Append(rules, rule)
     /\ status' = "IPMB_ERR_ALLOC"
     /\ UNCHANGED added

(* What ipmb_rule_bytecode_clone leaves in *dst. *)
Clones(code) == {code} \cup (IF AllocMayFail THEN {NULL} ELSE {})

(* The rule is counted, then its code is cloned; when that fails the rule  *)
(* stays, with no code.                                                    *)
Cloned(rule) ==
  \E clone \in Clones(rule.code) :
    /\ rules' = Append(rules, [rule EXCEPT !.code = clone])
    /\ IF clone = NULL
         THEN status' = "IPMB_ERR_ALLOC" /\ UNCHANGED added
         ELSE status' = "IPMB_OK" /\ added' = Append(added, rule)

Full == Len(rules) = capacity

Grown == IF capacity = 0 THEN FirstCapacity ELSE 2 * capacity

(* ipmb_match_table_add. *)
Add(rule) ==
  /\ Between
  /\ Len(rules) < MaxRules
  /\ \/ /\ Cloned(rule)
        /\ capacity' = IF Full THEN Grown ELSE capacity
     \/ /\ Full
        /\ AllocMayFail
        /\ status' = "IPMB_ERR_ALLOC"
        /\ UNCHANGED <<rules, capacity, added>>
  /\ NoScan

(* ipmb_match_table_free. *)
FreeTable ==
  /\ Between
  /\ rules' = <<>>
  /\ capacity' = 0
  /\ added' = <<>>
  /\ UNCHANGED status
  /\ NoScan

-----------------------------------------------------------------------------

(* ipmb_match_table_evaluate, one action per turn of its loop. *)
Begin(f) ==
  /\ Between
  /\ phase' = "scanning"
  /\ frame' = f
  /\ next' = 1
  /\ results' = <<>>
  /\ best' = 0
  /\ moved' = FALSE
  /\ out' = NoResult
  /\ sound' = TRUE
  /\ UNCHANGED <<tableVars, status>>

(* Whether the code of rule k matches the frame: a rule without code does  *)
(* not evaluate, which counts as no match.                                 *)
Hits(k) == rules[k].code \in frame.matches

ScoreAt(k) == rules[k].priority + frame.priority

(* The int the sum is, when an int can hold it. *)
Scores(k) == IF ScoreAt(k) <= IntMax THEN {ScoreAt(k)} ELSE Junk

(* What may be read as best->score, b being the place it points to. *)
ScoresRead(b, stale) ==
  IF b = 0 THEN {0}
  ELSE {results[b].score} \cup (IF stale THEN Junk ELSE {})

Skip ==
  /\ phase = "scanning"
  /\ next <= Len(rules)
  /\ ~Hits(next)
  /\ next' = next + 1
  /\ UNCHANGED <<tableVars, status, phase, frame, results, best, moved, out, sound>>

(* Mutant: a later rule wins a tie. *)
WinsTies(b, score, now) == b = 0 \/ score >= now

(* The new match is better than the one best points to. *)
Better(b, score, now) == b = 0 \/ score > now

(* Mutant: best is set to the place of the new match before the array is   *)
(* reallocated.                                                            *)
MatchEarly ==
  /\ phase = "scanning"
  /\ next <= Len(rules)
  /\ Hits(next)
  /\ \E was \in ScoresRead(best, moved), moves \in BOOLEAN, score \in Scores(next) :
       LET better == Better(best, score, was)
       IN /\ results' = Append(results, [rule |-> next, score |-> score,
                                         priority |-> rules[next].priority])
          /\ best' = IF better THEN Len(results) + 1 ELSE best
          /\ moved' = (moves \/ (moved /\ ~better))
          /\ sound' = (sound /\ ~moved /\ ScoreAt(next) <= IntMax)
  /\ next' = next + 1
  /\ UNCHANGED <<tableVars, status, phase, frame, out>>

(* A rule matches: best is first set to the last match when the rule's     *)
(* priority exceeds its score, then the array is reallocated, then the new *)
(* match is compared with best.                                            *)
Match ==
  /\ phase = "scanning"
  /\ next <= Len(rules)
  /\ Hits(next)
  /\ \E was \in ScoresRead(best, moved), moves \in BOOLEAN, score \in Scores(next) :
       LET last == best # 0 /\ rules[next].priority > was
           b == IF last THEN Len(results) ELSE best
           stale == best # 0 /\ (moves \/ (moved /\ ~last))
       IN \E now \in ScoresRead(b, stale) :
            /\ results' = Append(results, [rule |-> next, score |-> score,
                                           priority |-> rules[next].priority])
            /\ best' = IF Better(b, score, now) THEN Len(results) + 1 ELSE b
            /\ moved' = (stale /\ ~Better(b, score, now))
            /\ sound' = (sound /\ ~moved /\ ~stale /\ ScoreAt(next) <= IntMax)
  /\ next' = next + 1
  /\ UNCHANGED <<tableVars, status, phase, frame, out>>

MatchRefused ==
  /\ phase = "scanning"
  /\ next <= Len(rules)
  /\ Hits(next)
  /\ AllocMayFail
  /\ status' = "IPMB_ERR_ALLOC"
  /\ UNCHANGED tableVars
  /\ NoScan

(* What *out may be: the match best points to, or what its place holds now. *)
Outcomes ==
  {results[best]} \cup
  (IF moved THEN [rule : {0}, priority : Junk, score : Junk] ELSE {})

Answer ==
  /\ phase = "scanning"
  /\ next > Len(rules)
  /\ \/ /\ best = 0
        /\ status' = "IPMB_ERR_NOT_FOUND"
        /\ UNCHANGED out
     \/ /\ best # 0
        /\ status' = "IPMB_OK"
        /\ out' \in Outcomes
  /\ sound' = (sound /\ ~moved)
  /\ phase' = "answered"
  /\ next' = 1
  /\ results' = <<>>
  /\ best' = 0
  /\ moved' = FALSE
  /\ UNCHANGED <<tableVars, frame>>

(* A read through a stale pointer does not have to return. *)
Crash ==
  /\ phase = "scanning"
  /\ best # 0
  /\ \/ next <= Len(rules) /\ Hits(next)
     \/ next > Len(rules) /\ moved
  /\ phase' = "crashed"
  /\ sound' = FALSE
  /\ UNCHANGED <<tableVars, status, frame, next, results, best, moved, out>>

Stopped == phase = "crashed" /\ UNCHANGED vars

Next ==
  \/ \E rule \in [priority : Priority, code : Code] : Add(rule)
  \/ FreeTable
  \/ \E f \in Frame : Begin(f)
  \/ Skip
  \/ Match
  \/ MatchRefused
  \/ Answer
  \/ Crash
  \/ Stopped

Spec == Init /\ [][Next]_vars

-----------------------------------------------------------------------------

Hitting == {k \in DOMAIN rules : Hits(k)}

(* Rule k has the highest score of the rules that match, and is the first  *)
(* of those that have it.                                                  *)
Wins(k) ==
  /\ k \in Hitting
  /\ \A j \in Hitting : ScoreAt(j) < ScoreAt(k) \/ (ScoreAt(j) = ScoreAt(k) /\ k <= j)

(* As long as the array stays where it is and scores are ints, a scan      *)
(* answers with the first of the matching rules that have the highest      *)
(* score, and says so exactly when there is one: the detour over the last  *)
(* match does not change the choice.                                       *)
HighestScoreWins ==
  (phase = "answered" /\ sound) =>
    IF Hitting = {} THEN status = "IPMB_ERR_NOT_FOUND"
    ELSE /\ status = "IPMB_OK"
         /\ Wins(out.rule)
         /\ out.score = ScoreAt(out.rule)
         /\ out.priority = rules[out.rule].priority

(* It takes two rules that match one frame, or a priority close to the     *)
(* largest int, for a scan to go wrong: a scan with one match never reads  *)
(* through a stale pointer, wherever realloc puts the array.               *)
UnsoundExplained ==
  ~sound =>
    \/ \E j, k \in Hitting : j # k
    \/ \E k \in Hitting : ScoreAt(k) > IntMax

(* The first n rules, those with a code. *)
Coded(n) == {k \in 1 .. n : rules[k].code # NULL}

(* The rules that can match are those that add reported as added, in their *)
(* order: a rule whose code could not be cloned stays in the table but     *)
(* matches no frame.                                                       *)
AddedRulesMatch ==
  /\ Len(added) = Cardinality(Coded(Len(rules)))
  /\ \A k \in Coded(Len(rules)) : added[Cardinality(Coded(k))] = rules[k]

=============================================================================
