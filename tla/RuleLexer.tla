------------------------------- MODULE RuleLexer -------------------------------
(***************************************************************************)
(* Splitting the text of a rule into tokens (src/routing/rule_lexer.c): at *)
(* white space, at most MaxTokens of them, each cut to what its array has  *)
(* room for beside the 0 that ends it.  The text is its characters up to   *)
(* that 0.                                                                 *)
(***************************************************************************)
EXTENDS Naturals, Sequences, SequencesExt, FiniteSets

CONSTANTS
  Blank,        \* characters isspace says yes to
  MaxTokens,    \* tokens of a rule at most (10)
  MaxToken,     \* characters of a token at most (31)
  RuleText      \* texts, as sequences of characters

ASSUME LexerAssumption ==
  /\ MaxTokens \in Nat
  /\ MaxToken \in Nat \ {0}
  /\ \A t \in RuleText : t \in Seq(UNION {{s[i] : i \in DOMAIN s} : s \in RuleText})

VARIABLES
  ruleText,     \* text
  at,           \* p, the place in it
  tokens,       \* tokens[0 .. count - 1]
  lexing        \* "idle", "lexing" or "ended"

lexVars == <<ruleText, at, tokens, lexing>>

LexInit ==
  /\ ruleText = <<>>
  /\ at = 1
  /\ tokens = <<>>
  /\ lexing = "idle"

(* ipmb_rule_lex is called. *)
LexStart ==
  /\ lexing = "idle"
  /\ ruleText' \in RuleText
  /\ at' = 1
  /\ tokens' = <<>>
  /\ lexing' = "lexing"

-----------------------------------------------------------------------------

IsBlank(i) == ruleText[i] \in Blank

(* Where the next word starts, or the text ends, from place i on. *)
WordFrom(i) == Min({k \in i .. Len(ruleText) : ~IsBlank(k)} \cup {Len(ruleText) + 1})

(* Where it is over. *)
WordOver(i) == Min({k \in i .. Len(ruleText) : IsBlank(k)} \cup {Len(ruleText) + 1})

(* What of it is copied. *)
CopyOver(i) == Min({WordOver(i), i + MaxToken})

(* Mutant: after a word that was cut the next token is the rest of it. *)
NextPlaceAfterCopy(i) == CopyOver(i)

(* The whole word is passed over. *)
NextPlace(i) == WordOver(i)

LexToken ==
  /\ lexing = "lexing"
  /\ at <= Len(ruleText)
  /\ Len(tokens) < MaxTokens
  /\ LET start == WordFrom(at)
     IN IF start > Len(ruleText)
          THEN lexing' = "ended" /\ UNCHANGED <<at, tokens>>
          ELSE /\ tokens' = Append(tokens, SubSeq(ruleText, start, CopyOver(start) - 1))
               /\ at' = NextPlace(start)
               /\ UNCHANGED lexing
  /\ UNCHANGED ruleText

LexDone ==
  /\ lexing = "lexing"
  /\ at > Len(ruleText) \/ Len(tokens) = MaxTokens
  /\ lexing' = "ended"
  /\ UNCHANGED <<ruleText, at, tokens>>

LexNext == LexStart \/ LexToken \/ LexDone

LexSpec == LexInit /\ [][LexNext]_lexVars

-----------------------------------------------------------------------------

(* The places where a word of the text starts. *)
Starts ==
  {i \in 1 .. Len(ruleText) : ~IsBlank(i) /\ (i = 1 \/ IsBlank(i - 1))}

(* The word that starts at place i. *)
Word(i) ==
  LET over == CHOOSE k \in i + 1 .. Len(ruleText) + 1 :
                /\ k = Len(ruleText) + 1 \/ IsBlank(k)
                /\ \A j \in i .. k - 1 : ~IsBlank(j)
  IN SubSeq(ruleText, i, over - 1)

(* The tokens are the first words of the text, in order and none twice,    *)
(* each as much of it as fits; a word that was cut does not come back as   *)
(* a token of its rest, and words are left out only behind the last token  *)
(* there is room for.                                                      *)
WordsInOrder ==
  /\ Len(tokens) <= Min({MaxTokens, Cardinality(Starts)})
  /\ \A k \in DOMAIN tokens :
       \E i \in Starts :
         /\ Cardinality({j \in Starts : j < i}) = k - 1
         /\ Len(tokens[k]) <= MaxToken
         /\ tokens[k] = SubSeq(Word(i), 1, Min({MaxToken, Len(Word(i))}))
  /\ lexing = "ended" => Len(tokens) = Min({MaxTokens, Cardinality(Starts)})

=============================================================================
