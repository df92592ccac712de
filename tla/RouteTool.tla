------------------------------ MODULE RouteTool ------------------------------
(***************************************************************************)
(* What ipmb-route does with its rule (apps/ipmb-route/main.c): the text   *)
(* is parsed (src/routing/rule_parser.c), compiled                         *)
(* (src/routing/rule_compiler.c) and evaluated on the first frame of the   *)
(* message.                                                                *)
(*                                                                         *)
(* A text is its sequence of tokens.  The code is a sequence of places: an *)
(* int operand stands in the first of its places, the others hold 0.       *)
(***************************************************************************)
EXTENDS RouteVM

CONSTANTS
  Text,           \* rules, as sequences of tokens
  Number,         \* what strtol makes of a token, 0 when it is no number
  MaxRuleCode,    \* IPMB_MAX_RULE_CODE
  AllocMayFail    \* whether realloc may return NULL

(* Field names by number, as field_id of the compiler knows them. *)
FieldName == <<"type", "flags", "source", "dest", "priority", "ttl", "payload_len">>

RuleOp == {"EQ", "GT", "LT", "RANGE"}

ASSUME ToolAssumption ==
  /\ Text \subseteq Seq(DOMAIN Number)
  /\ Number \in [DOMAIN Number -> Int32]
  /\ MaxRuleCode \in Nat
  /\ AllocMayFail \in BOOLEAN
  /\ IntBytes = 4

VARIABLES
  text,     \* argv[1]
  ast,      \* the rule, or NoRule before it is parsed
  code,     \* bc->code, NoCode when there is none
  status,   \* rc
  phase     \* "parsing", "compiling", "running", "ended"

toolVars == <<vmVars, text, ast, code, status, phase>>

NoRule == [field |-> "", op |-> "EQ", value |-> 0, high |-> 0]
NoCode == <<>>

ToolInit ==
  /\ text \in Text
  /\ frame \in Frames
  /\ VMInit
  /\ len = 0
  /\ ast = NoRule
  /\ code = NoCode
  /\ status = "IPMB_OK"
  /\ phase = "parsing"

-----------------------------------------------------------------------------

(* parse_op: a token that is no operator is an equality. *)
ParseOp(token) ==
  CASE token \in {">", "gt"} -> "GT"
    [] token \in {"<", "lt"} -> "LT"
    [] OTHER -> "EQ"

IsRange == text[1] = "range"

(* ipmb_rule_parse.  The action and the priority of the rule decide        *)
(* nothing later and are left out.                                         *)
Parsed ==
  IF IsRange
    THEN [field |-> text[2], op |-> "RANGE",
          value |-> Number[text[3]], high |-> Number[text[4]]]
    ELSE [field |-> text[1], op |-> ParseOp(text[2]),
          value |-> Number[text[3]], high |-> 0]

Parse ==
  /\ phase = "parsing"
  /\ IF Len(text) < 3 \/ (IsRange /\ Len(text) < 4)
       THEN /\ status' = "IPMB_ERR_INVALID"
            /\ phase' = "ended"
            /\ UNCHANGED ast
       ELSE /\ ast' = Parsed
            /\ phase' = "compiling"
            /\ UNCHANGED status
  /\ UNCHANGED <<vmVars, text, code>>

FieldIds(name) == {id \in FieldId : FieldName[id] = name}

IntAt(v) == <<PUSH_INT, v>> \o [i \in 1 .. IntBytes - 1 |-> 0]

(* Mutant: the bounds of a range are pushed in the wrong order. *)
RangeCodeSwapped(id) ==
  <<LOAD_FIELD, id>> \o IntAt(ast.high) \o IntAt(ast.value) \o <<RANGE, AND, END>>

RangeCode(id) ==
  <<LOAD_FIELD, id>> \o IntAt(ast.value) \o IntAt(ast.high) \o <<RANGE, AND, END>>

CompareCode(id) ==
  LET op == CASE ast.op = "GT" -> CMP_GT [] ast.op = "LT" -> CMP_LT [] OTHER -> CMP_EQ
  IN <<LOAD_FIELD, id>> \o IntAt(ast.value) \o <<op, END>>

CodeOf(id) == IF ast.op = "RANGE" THEN RangeCode(id) ELSE CompareCode(id)

(* emit stores all of these bytes, or one of its calls fails. *)
Emitted(bytes) == Len(bytes) <= MaxRuleCode

EmitFails(bytes) == AllocMayFail \/ Len(bytes) > MaxRuleCode

(* ipmb_rule_compile: when any of the bytes cannot be stored, all of them  *)
(* are freed, and the error is the same whatever emit returned.            *)
Compile ==
  /\ phase = "compiling"
  /\ \/ /\ FieldIds(ast.field) = {}
        /\ status' = "IPMB_ERR_INVALID"
        /\ phase' = "ended"
        /\ UNCHANGED <<code, len>>
     \/ \E id \in FieldIds(ast.field) :
          /\ Emitted(CodeOf(id))
          /\ code' = CodeOf(id)
          /\ len' = Len(code')
          /\ phase' = "running"
          /\ UNCHANGED status
     \/ /\ \E id \in FieldIds(ast.field) : EmitFails(CodeOf(id))
        /\ status' = "IPMB_ERR_ALLOC"
        /\ phase' = "ended"
        /\ UNCHANGED <<code, len>>
  /\ UNCHANGED <<text, ast, frame, pc, stack, matched, result, reach>>

(* The machine runs this code. *)
Run ==
  /\ phase = "running"
  /\ \/ FallOff
     \/ LET at(n) == IF n <= len THEN code[n] ELSE 0
        IN Execute(at(pc + 1), at(pc + 2), at(pc + 2))
  /\ UNCHANGED <<text, ast, code, status, phase>>

(* The code is freed, and the answer is printed. *)
Report ==
  /\ phase = "running"
  /\ result # "running"
  /\ status' = result
  /\ code' = NoCode
  /\ len' = 0
  /\ phase' = "ended"
  /\ UNCHANGED <<text, ast, frame, pc, stack, matched, result, reach>>

Ended == phase = "ended" /\ UNCHANGED toolVars

ToolNext == Parse \/ Compile \/ Run \/ Report \/ Ended

ToolSpec == ToolInit /\ [][ToolNext]_toolVars

-----------------------------------------------------------------------------

(* The names that the symbol table has (src/routing/symbol_table.c), a     *)
(* second list of the fields, and ipmb_symbol_field_id.                    *)
SymbolName == <<"type", "flags", "source", "dest", "priority", "ttl", "payload_len">>

SymbolFieldId(name) ==
  IF name \in {SymbolName[i] : i \in 1 .. 7}
    THEN CHOOSE i \in 1 .. 7 : SymbolName[i] = name ELSE 0

(* The field of the frame that the rule names. *)
Value == frame[SymbolFieldId(ast.field)]

(* What a rule says of a frame, in integers. *)
Means ==
  CASE ast.op = "EQ" -> Value = ast.value
    [] ast.op = "GT" -> Value > ast.value
    [] ast.op = "LT" -> Value < ast.value
    [] ast.op = "RANGE" -> ast.value <= Value /\ Value <= ast.high

(* A rule that compiled has been evaluated. *)
Decided == phase = "ended" /\ result # "running"

(* A rule that parses compiles unless there is no memory, or the symbol    *)
(* table has no field of that name: none is too long.  Once it compiled it *)
(* is decided, and its evaluation never fails: as it reads, of the field   *)
(* the symbol table has under that name, as long as that is less than      *)
(* 2^31; and from there on, where the field is a negative number to the    *)
(* machine, a comparison is still one of the bits: an address equals the   *)
(* number that has its bits, and every such address is below every one     *)
(* that is not.                                                            *)
DecidesAsWritten ==
  /\ (phase = "ended" /\ ast # NoRule /\ ~Decided) =>
       IF SymbolFieldId(ast.field) = 0 THEN status = "IPMB_ERR_INVALID"
       ELSE status = "IPMB_ERR_ALLOC" /\ AllocMayFail
  /\ Decided =>
       /\ status = "IPMB_OK"
       /\ Value < Half => (matched <=> Means)
       /\ Value \in Half .. Word - 1 =>
            /\ ast.op = "EQ" => (matched <=> Value = ast.value % Word)
            /\ ast.op = "GT" /\ ast.value >= 0 => ~matched
            /\ ast.op = "LT" /\ ast.value >= 0 => matched

=============================================================================
