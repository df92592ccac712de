---------------------------- MODULE ProgramProofs ----------------------------
(***************************************************************************)
(* Proofs about programs: the codes of the route machine, for codes,       *)
(* stacks and operands of any size; ipmb-route's rules, for any rule and   *)
(* frame; and the tools and fuzz targets, for files of any length.         *)
(*                                                                         *)
(* The three invariants of the machine are inductive together: what an     *)
(* instruction reads is bounded by the checks in front of it, and the      *)
(* answer by the value that END found on the stack.  That of ipmb-route    *)
(* says at which instruction of the rule's code the machine is, and what   *)
(* the ones before it left on the stack.  That of the programs says that   *)
(* what is left to do is safe; it is proved program by program.            *)
(***************************************************************************)
EXTENDS RouteTool, Drivers, TLAPS

VMInv == TypeOK /\ StaysInside /\ AnswersAtEnd

-----------------------------------------------------------------------------

(* The truths are ints. *)
LEMMA TruthInt == {0, 1} \subseteq Int32
BY VMAssumption DEF Int32

(* Any unsigned value, reinterpreted, is an int of 32 bits. *)
LEMMA SignedInt == \A n \in Nat : Signed(n) \in Int32
<1> SUFFICES ASSUME NEW n \in Nat PROVE Signed(n) \in Int32
  OBVIOUS
<1>1. Half \in Nat /\ Half > 1 /\ Word = 2 * Half
  BY VMAssumption DEF Word
<1>2. n % Word \in 0 .. Word - 1
  BY <1>1
<1>3. QED
  BY <1>1, <1>2 DEF Signed, Int32

(* So is what LOAD_FIELD pushes. *)
LEMMA LoadInt == TypeOK => \A id \in Nat : Load(id) \in Int32
<1> SUFFICES ASSUME TypeOK, NEW id \in Nat PROVE Load(id) \in Int32
  OBVIOUS
<1>1. CASE id \in FieldId
  <2>1. frame[id] \in Nat
    BY <1>1, VMAssumption DEF TypeOK
  <2>2. QED
    BY <1>1, <2>1, SignedInt DEF Load
<1>2. CASE id \notin FieldId
  BY <1>2, VMAssumption DEF Load, Int32
<1>3. QED
  BY <1>1, <1>2

(* What is left of a stack when n values are popped. *)
LEMMA PoppedType ==
  ASSUME TypeOK, NEW n \in 0 .. sp
  PROVE  Popped(n) \in Seq(Int32) /\ Len(Popped(n)) = sp - n
BY DEF TypeOK, Popped, sp

(* A call starts with an empty stack. *)
LEMMA InitInv == Init => VMInv
<1> SUFFICES ASSUME Init PROVE VMInv
  OBVIOUS
<1>1. /\ len \in 0 .. MaxLen /\ frame \in Frames /\ pc = 0 /\ stack = <<>>
      /\ matched = FALSE /\ result = "running" /\ reach = 0
  BY DEF Init, VMInit
<1>2. TypeOK
  <2>1. <<>> \in Seq(Int32)
    OBVIOUS
  <2>2. QED
    BY <1>1, <2>1 DEF TypeOK
<1>3. StaysInside
  BY <1>1, VMAssumption DEF StaysInside, sp
<1>4. AnswersAtEnd
  BY <1>1 DEF AnswersAtEnd
<1>5. QED
  BY <1>2, <1>3, <1>4 DEF VMInv

-----------------------------------------------------------------------------

(* An instruction that goes on: it must leave a stack that fits, and have  *)
(* read nothing behind the code.                                           *)
LEMMA RunsInv ==
  ASSUME VMInv, result = "running", NEW width \in Nat, NEW values \in Seq(Int32),
         Len(values) <= StackSize, reach' \in Nat, reach' <= len,
         Runs(width, values), UNCHANGED <<len, frame>>
  PROVE  VMInv'
BY DEF VMInv, TypeOK, StaysInside, AnswersAtEnd, Runs, sp

(* One that fails has at least read its opcode. *)
LEMMA FailsInv ==
  ASSUME VMInv, result = "running", reach' \in Nat, reach' <= len,
         Fails, UNCHANGED <<len, frame>>
  PROVE  VMInv'
BY DEF VMInv, TypeOK, StaysInside, AnswersAtEnd, Fails, sp

(* One turn of the loop, instruction by instruction. *)
LEMMA ExecuteInv ==
  ASSUME VMInv, NEW op \in Byte, NEW b \in Byte, NEW v \in Literal, Execute(op, v, b)
  PROVE  VMInv'
<1>1. /\ VMInv /\ TypeOK /\ 1 \in Nat /\ 2 \in Nat
      /\ result = "running" /\ UNCHANGED <<len, frame>>
      /\ pc \in Nat /\ len \in Nat /\ pc + 1 \in Nat /\ pc + 1 <= len
      /\ stack \in Seq(Int32) /\ sp \in Nat /\ sp <= StackSize
      /\ StackSize \in Nat /\ IntBytes \in Nat /\ b \in Nat /\ v \in Int32
  BY VMAssumption DEF VMInv, Execute, TypeOK, StaysInside, sp
<1>2. CASE PushInt(op, v)
  <2>1. CASE NoInt \/ StackFull
    <3>1. Fails /\ reach' = pc + 1
      BY <1>2, <2>1 DEF PushInt
    <3>2. QED
      BY <1>1, <3>1, FailsInv
  <2>2. CASE ~(NoInt \/ StackFull)
    <3>1. Append(stack, v) \in Seq(Int32) /\ Len(Append(stack, v)) <= StackSize
      BY <1>1, <2>2 DEF StackFull, sp
    <3>2. pc + 1 + IntBytes <= len /\ pc + 1 + IntBytes \in Nat /\ 1 + IntBytes \in Nat
      BY <1>1, <2>2 DEF NoInt
    <3>3. Runs(1 + IntBytes, Append(stack, v)) /\ reach' = pc + 1 + IntBytes
      BY <1>2, <2>2 DEF PushInt
    <3>4. QED
      BY <1>1, <3>1, <3>2, <3>3, RunsInv
  <2>3. QED
    BY <2>1, <2>2
<1>3. CASE LoadField(op, b)
  <2>1. CASE pc + 1 >= len \/ StackFull
    <3>1. Fails /\ reach' = pc + 1
      BY <1>3, <2>1 DEF LoadField
    <3>2. QED
      BY <1>1, <3>1, FailsInv
  <2>2. CASE ~(pc + 1 >= len \/ StackFull)
    <3>1. Load(b) \in Int32
      BY <1>1, LoadInt
    <3>2. Append(stack, Load(b)) \in Seq(Int32) /\ Len(Append(stack, Load(b))) <= StackSize
      BY <1>1, <2>2, <3>1 DEF StackFull, sp
    <3>3. Runs(2, Append(stack, Load(b))) /\ reach' = pc + 2
      BY <1>1, <1>3, <2>2 DEF LoadField
    <3>4. reach' \in Nat /\ reach' <= len
      BY <1>1, <2>2, <3>3
    <3>5. QED
      BY <1>1, <3>2, <3>3, <3>4, RunsInv
  <2>3. QED
    BY <2>1, <2>2
<1>4. CASE Compare(op)
  <2>1. CASE sp < 2
    <3>1. Fails /\ reach' = pc + 1
      BY <1>4, <2>1 DEF Compare
    <3>2. QED
      BY <1>1, <3>1, FailsInv
  <2>2. CASE ~(sp < 2)
    <3>1. Popped(2) \in Seq(Int32) /\ Len(Popped(2)) = sp - 2
      <4>1. 2 \in 0 .. sp
        BY <1>1, <2>2
      <4>2. QED
        BY <1>1, <4>1, PoppedType
    <3>2. Truth(Compared(op)) \in Int32
      BY TruthInt DEF Truth
    <3>3. /\ Append(Popped(2), Truth(Compared(op))) \in Seq(Int32)
          /\ Len(Append(Popped(2), Truth(Compared(op)))) <= StackSize
      BY <1>1, <3>1, <3>2
    <3>4. Runs(1, Append(Popped(2), Truth(Compared(op)))) /\ reach' = pc + 1
      BY <1>4, <2>2 DEF Compare
    <3>5. reach' \in Nat /\ reach' <= len
      BY <1>1, <2>2, <3>4
    <3>6. QED
      BY <1>1, <3>3, <3>4, <3>5, RunsInv
  <2>3. QED
    BY <2>1, <2>2
<1>5. CASE Range(op)
  <2>1. CASE sp < 3 \/ StackFull
    <3>1. Fails /\ reach' = pc + 1
      BY <1>5, <2>1 DEF Range
    <3>2. QED
      BY <1>1, <3>1, FailsInv
  <2>2. CASE ~(sp < 3 \/ StackFull)
    <3> DEFINE truths == <<Truth(Top(2) >= Top(1)), Truth(Top(2) <= Top(0))>>
    <3>1. Popped(3) \in Seq(Int32) /\ Len(Popped(3)) = sp - 3
      <4>1. 3 \in 0 .. sp
        BY <1>1, <2>2
      <4>2. QED
        BY <1>1, <4>1, PoppedType
    <3>2. truths \in Seq(Int32) /\ Len(truths) = 2
      <4>1. Truth(Top(2) >= Top(1)) \in Int32 /\ Truth(Top(2) <= Top(0)) \in Int32
        BY TruthInt DEF Truth
      <4>2. QED
        BY <4>1
    <3>3. Popped(3) \o truths \in Seq(Int32) /\ Len(Popped(3) \o truths) <= StackSize
      BY <1>1, <3>1, <3>2
    <3>4. Runs(1, Popped(3) \o truths) /\ reach' = pc + 1
      BY <1>5, <2>2 DEF Range
    <3> HIDE DEF truths
    <3>5. QED
      BY <1>1, <3>3, <3>4, RunsInv
  <2>3. QED
    BY <2>1, <2>2
<1>6. CASE Connect(op)
  <2>1. CASE sp < 2
    <3>1. Fails /\ reach' = pc + 1
      BY <1>6, <2>1 DEF Connect
    <3>2. QED
      BY <1>1, <3>1, FailsInv
  <2>2. CASE ~(sp < 2)
    <3>1. Popped(2) \in Seq(Int32) /\ Len(Popped(2)) = sp - 2
      <4>1. 2 \in 0 .. sp
        BY <1>1, <2>2
      <4>2. QED
        BY <1>1, <4>1, PoppedType
    <3>2. Truth(Connected(op)) \in Int32
      BY TruthInt DEF Truth
    <3>3. /\ Append(Popped(2), Truth(Connected(op))) \in Seq(Int32)
          /\ Len(Append(Popped(2), Truth(Connected(op)))) <= StackSize
      BY <1>1, <3>1, <3>2
    <3>4. Runs(1, Append(Popped(2), Truth(Connected(op)))) /\ reach' = pc + 1
      BY <1>6, <2>2 DEF Connect
    <3>5. reach' \in Nat /\ reach' <= len
      BY <1>1, <2>2, <3>4
    <3>6. QED
      BY <1>1, <3>3, <3>4, <3>5, RunsInv
  <2>3. QED
    BY <2>1, <2>2
<1>7. CASE Negate(op)
  <2>1. CASE sp < 1
    <3>1. Fails /\ reach' = pc + 1
      BY <1>7, <2>1 DEF Negate
    <3>2. QED
      BY <1>1, <3>1, FailsInv
  <2>2. CASE ~(sp < 1)
    <3>1. Popped(1) \in Seq(Int32) /\ Len(Popped(1)) = sp - 1
      <4>1. 1 \in 0 .. sp
        BY <1>1, <2>2
      <4>2. QED
        BY <1>1, <4>1, PoppedType
    <3>2. Truth(Top(0) = 0) \in Int32
      BY TruthInt DEF Truth
    <3>3. /\ Append(Popped(1), Truth(Top(0) = 0)) \in Seq(Int32)
          /\ Len(Append(Popped(1), Truth(Top(0) = 0))) <= StackSize
      BY <1>1, <3>1, <3>2
    <3>4. Runs(1, Append(Popped(1), Truth(Top(0) = 0))) /\ reach' = pc + 1
      BY <1>7, <2>2 DEF Negate
    <3>5. reach' \in Nat /\ reach' <= len
      BY <1>1, <2>2, <3>4
    <3>6. QED
      BY <1>1, <3>3, <3>4, <3>5, RunsInv
  <2>3. QED
    BY <2>1, <2>2
<1>8. CASE SkipOver(op, b)
  <2>1. CASE pc + 1 >= len
    <3>1. Fails /\ reach' = pc + 1
      BY <1>8, <2>1 DEF SkipOver
    <3>2. QED
      BY <1>1, <3>1, FailsInv
  <2>2. CASE ~(pc + 1 >= len)
    <3>1. Runs(b + 2, stack) /\ reach' = pc + 2
      BY <1>1, <1>8, <2>2 DEF SkipOver, SkippedTo, Runs
    <3>2. reach' \in Nat /\ reach' <= len
      BY <1>1, <2>2, <3>1
    <3>3. QED
      BY <1>1, <2>2, <3>1, <3>2, RunsInv DEF sp
  <2>3. QED
    BY <2>1, <2>2
<1>9. CASE End(op)
  <2>1. CASE sp = 0
    <3>1. Fails /\ reach' = pc + 1
      BY <1>9, <2>1 DEF End
    <3>2. QED
      BY <1>1, <3>1, FailsInv
  <2>2. CASE sp # 0
    <3>1. /\ result' = "IPMB_OK" /\ matched' = (Top(0) # 0)
          /\ UNCHANGED <<pc, stack>> /\ reach' = pc + 1
      BY <1>9, <2>2 DEF End
    <3>2. TypeOK'
      BY <1>1, <3>1 DEF TypeOK
    <3>3. StaysInside'
      BY <1>1, <3>1 DEF StaysInside, sp
    <3>4. AnswersAtEnd'
      <4>1. sp' = sp /\ Top(0)' = Top(0) /\ sp > 0 /\ pc < len
        BY <1>1, <2>2, <3>1 DEF sp, Top
      <4>2. matched' <=> Top(0)' # 0
        BY <3>1, <4>1
      <4>3. result' = "IPMB_OK" /\ sp' > 0 /\ pc' < len' /\ reach' = pc' + 1
        BY <1>1, <3>1, <4>1
      <4>4. QED
        BY <4>2, <4>3, Zenon DEF AnswersAtEnd
    <3>5. QED
      BY <3>2, <3>3, <3>4 DEF VMInv
  <2>3. QED
    BY <2>1, <2>2
<1>10. CASE BadOpcode(op)
  <2>1. Fails /\ reach' = pc + 1
    BY <1>10 DEF BadOpcode
  <2>2. QED
    BY <1>1, <2>1, FailsInv
<1>11. QED
  BY <1>2, <1>3, <1>4, <1>5, <1>6, <1>7, <1>8, <1>9, <1>10 DEF Execute

(* Every step of the machine. *)
LEMMA NextInv == VMInv /\ [Next]_vmVars => VMInv'
<1> SUFFICES ASSUME VMInv, [Next]_vmVars PROVE VMInv'
  OBVIOUS
<1>1. CASE \E op, b \in Byte, v \in Literal : Execute(op, v, b)
  BY <1>1, ExecuteInv
<1>2. CASE FallOff
  BY <1>2, FailsInv DEF FallOff, VMInv, TypeOK, StaysInside
<1>3. CASE UNCHANGED vmVars
  BY <1>3 DEF VMInv, TypeOK, StaysInside, AnswersAtEnd, vmVars, sp, Top
<1>4. QED
  BY <1>1, <1>2, <1>3 DEF Next, Returned

-----------------------------------------------------------------------------

(* Every code keeps the machine's state well typed, the values on its      *)
(* stack ints of 32 bits among them.                                       *)
THEOREM VMTypeCorrect == Spec => []TypeOK
<1>1. VMInv => TypeOK
  BY DEF VMInv
<1>2. QED
  BY InitInv, NextInv, <1>1, PTL DEF Spec

(* No code, however malformed, makes ipmb_vm_evaluate write outside of its *)
(* stack or read outside of the code.                                      *)
THEOREM StaysInsideAlways == Spec => []StaysInside
<1>1. VMInv => StaysInside
  BY DEF VMInv
<1>2. QED
  BY InitInv, NextInv, <1>1, PTL DEF Spec

(* ipmb_vm_evaluate answers with the value an END found on top of the      *)
(* stack, and has matched nothing when it fails.                           *)
THEOREM AnswersAtEndAlways == Spec => []AnswersAtEnd
<1>1. VMInv => AnswersAtEnd
  BY DEF VMInv
<1>2. QED
  BY InitInv, NextInv, <1>1, PTL DEF Spec

-----------------------------------------------------------------------------
(***************************************************************************)
(* A measure for the machine's loop.                                       *)
(***************************************************************************)

(* A bound on the turns the loop still takes: one for each byte of code    *)
(* that is left, and one to notice that the code has no END.               *)
TurnsLeft ==
  IF result # "running" THEN 0 ELSE IF pc < len THEN len - pc + 1 ELSE 1

(* They are a natural number, and no more than that. *)
TurnsBound == TurnsLeft \in 0 .. MaxLen + 1

(* Every turn of the loop takes from the turns that are left, an operand   *)
(* that takes pc past the code among them.                                 *)
EndsSooner == [][TurnsLeft' < TurnsLeft]_vmVars

(* What the invariant says of the code and the place in it. *)
LEMMA MachineTypes ==
  ASSUME VMInv
  PROVE  /\ pc \in Nat
         /\ len \in 0 .. MaxLen
         /\ MaxLen \in Nat
         /\ IntBytes \in Nat
BY VMAssumption DEF VMInv, TypeOK

(* The bound holds in every state of the invariant. *)
LEMMA BoundHolds == VMInv => TurnsBound
BY MachineTypes DEF TurnsBound, TurnsLeft

(* An instruction returns, or goes on behind its opcode.                   *)
LEMMA ExecuteGoesOn ==
  ASSUME VMInv, NEW op \in Byte, NEW b \in Byte, NEW v \in Literal, Execute(op, v, b)
  PROVE  result' = "IPMB_ERR_EVAL" \/ result' = "IPMB_OK"
         \/ (result' = result /\ pc' \in Nat /\ pc < pc')
<1>1. pc \in Nat /\ IntBytes \in Nat /\ b \in Nat
  BY MachineTypes, VMAssumption
<1>2. ASSUME NEW width \in Nat \ {0}, NEW values, Runs(width, values)
      PROVE  result' = result /\ pc' \in Nat /\ pc < pc'
  BY <1>1, <1>2 DEF Runs
<1>3. ASSUME Fails
      PROVE  result' = "IPMB_ERR_EVAL"
  BY <1>3 DEF Fails
<1>4. 1 + IntBytes \in Nat \ {0} /\ 1 \in Nat \ {0} /\ 2 \in Nat \ {0}
  BY <1>1
<1>5. CASE PushInt(op, v)
  BY <1>2, <1>3, <1>4, <1>5, Zenon DEF PushInt
<1>6. CASE LoadField(op, b)
  BY <1>2, <1>3, <1>4, <1>6, Zenon DEF LoadField
<1>7. CASE Compare(op)
  BY <1>2, <1>3, <1>4, <1>7, Zenon DEF Compare
<1>8. CASE Range(op)
  BY <1>2, <1>3, <1>4, <1>8, Zenon DEF Range
<1>9. CASE Connect(op)
  BY <1>2, <1>3, <1>4, <1>9, Zenon DEF Connect
<1>10. CASE Negate(op)
  BY <1>2, <1>3, <1>4, <1>10, Zenon DEF Negate
<1>11. CASE SkipOver(op, b)
  <2>1. SkippedTo(b) \in Nat /\ pc < SkippedTo(b)
    BY <1>1 DEF SkippedTo
  <2>2. QED
    BY <1>3, <1>11, <2>1, Zenon DEF SkipOver
<1>12. CASE End(op)
  BY <1>3, <1>12, Zenon DEF End
<1>13. CASE BadOpcode(op)
  BY <1>3, <1>13, Zenon DEF BadOpcode
<1>14. QED
  BY <1>5, <1>6, <1>7, <1>8, <1>9, <1>10, <1>11, <1>12, <1>13 DEF Execute

(* Less of the code is left behind a later place. *)
LEMMA FewerLeft ==
  ASSUME NEW l \in Int, NEW p \in Nat, NEW q \in Nat, p < q
  PROVE  l - q + 1 < l - p + 1
OBVIOUS

(* A step that is not a stutter takes from the turns that are left. *)
LEMMA NextEndsSooner ==
  VMInv /\ [Next]_vmVars => [TurnsLeft' < TurnsLeft]_vmVars
<1> SUFFICES ASSUME VMInv, Next, ~UNCHANGED vmVars PROVE TurnsLeft' < TurnsLeft
  OBVIOUS
<1>1. CASE \E op, b \in Byte, v \in Literal : Execute(op, v, b)
  <2>1. PICK op, b \in Byte, v \in Literal : Execute(op, v, b)
    BY <1>1
  <2>2. result = "running" /\ pc < len /\ len' = len
    BY <2>1 DEF Execute
  <2>3. result' = "IPMB_ERR_EVAL" \/ result' = "IPMB_OK"
        \/ (result' = result /\ pc' \in Nat /\ pc < pc')
    BY <2>1, ExecuteGoesOn
  <2>4. pc \in Nat /\ len \in Int /\ TurnsLeft = len - pc + 1
    BY <2>2, MachineTypes DEF TurnsLeft
  <2>5. CASE result' # "running"
    <3>1. TurnsLeft' = 0
      BY <2>5 DEF TurnsLeft
    <3>2. QED
      BY <2>2, <2>4, <3>1
  <2>6. CASE result' = result /\ pc' \in Nat /\ pc < pc'
    <3>1. CASE pc' < len
      <4>1. TurnsLeft' = len - pc' + 1
        BY <2>2, <2>6, <3>1 DEF TurnsLeft
      <4>2. len - pc' + 1 < len - pc + 1
        BY <2>4, <2>6, FewerLeft
      <4>3. QED
        BY <2>4, <4>1, <4>2, Zenon
    <3>2. CASE ~(pc' < len)
      <4>1. TurnsLeft' = 1
        BY <2>2, <2>6, <3>2 DEF TurnsLeft
      <4>2. QED
        BY <2>2, <2>4, <4>1
    <3>3. QED
      BY <3>1, <3>2
  <2>7. QED
    BY <2>3, <2>5, <2>6
<1>2. CASE FallOff
  <2>1. TurnsLeft = 1 /\ TurnsLeft' = 0
    BY <1>2, MachineTypes DEF FallOff, Fails, TurnsLeft
  <2>2. QED
    BY <2>1
<1>3. QED
  BY <1>1, <1>2 DEF Next, Returned

(* ipmb_vm_evaluate takes at most one turn more than the code has bytes,   *)
(* whatever the code: no instruction takes pc back.                        *)
THEOREM EndsSoonerAlways == Spec => []TurnsBound /\ EndsSooner
BY InitInv, NextInv, BoundHolds, NextEndsSooner, PTL DEF Spec, EndsSooner

-----------------------------------------------------------------------------
(***************************************************************************)
(* ipmb-route.                                                             *)
(***************************************************************************)

Rule == [field : DOMAIN Number, op : RuleOp, value : Int32, high : Int32]

(* What a compiled comparison answers, of what LOAD_FIELD pushes. *)
Says(v) ==
  CASE ast.op = "RANGE" -> ast.value <= v /\ v <= ast.high
    [] ast.op = "GT" -> v > ast.value
    [] ast.op = "LT" -> v < ast.value
    [] OTHER -> v = ast.value

(* The machine is at an instruction of the code, with what the ones before *)
(* it left on the stack; v is what the first pushes.                       *)
AtCompare(v) ==
  \/ pc = 0 /\ stack = <<>>
  \/ pc = 2 /\ stack = <<v>>
  \/ pc = 7 /\ stack = <<v, ast.value>>
  \/ pc = 8 /\ stack = <<Truth(Says(v))>>

AtRange(v) ==
  \/ pc = 0 /\ stack = <<>>
  \/ pc = 2 /\ stack = <<v>>
  \/ pc = 7 /\ stack = <<v, ast.value>>
  \/ pc = 12 /\ stack = <<v, ast.value, ast.high>>
  \/ pc = 13 /\ stack = <<Truth(v >= ast.value), Truth(v <= ast.high)>>
  \/ pc = 14 /\ stack = <<Truth(Says(v))>>

(* What the code of the rule is, and where the machine is in it. *)
Running(id) ==
  /\ code = CodeOf(id)
  /\ len = Len(code)
  /\ IF ast.op = "RANGE" THEN AtRange(Load(id)) ELSE AtCompare(Load(id))
  /\ result \in {"running", "IPMB_OK"}
  /\ result = "IPMB_OK" => (matched <=> Says(Load(id)))

Idle == pc = 0 /\ stack = <<>> /\ result = "running"

ToolInv ==
  /\ text \in Seq(DOMAIN Number)
  /\ frame \in [FieldId -> Nat]
  /\ phase \in {"parsing", "compiling", "running", "ended"}
  /\ phase = "parsing" => Idle /\ ast = NoRule
  /\ phase = "compiling" => Idle /\ ast \in Rule
  /\ phase = "running" => ast \in Rule /\ \E id \in FieldIds(ast.field) : Running(id)
  /\ phase = "ended" /\ result # "running" =>
       /\ status = "IPMB_OK"
       /\ ast \in Rule
       /\ \E id \in FieldIds(ast.field) : matched <=> Says(Load(id))
  /\ phase = "ended" /\ result = "running" /\ ast # NoRule =>
       IF FieldIds(ast.field) = {} THEN status = "IPMB_ERR_INVALID"
       ELSE status = "IPMB_ERR_ALLOC" /\ AllocMayFail

LEMMA ToolInitInv == ToolInit => ToolInv
<1> SUFFICES ASSUME ToolInit PROVE ToolInv
  OBVIOUS
<1>1. /\ text \in Text /\ frame \in Frames /\ phase = "parsing" /\ ast = NoRule
      /\ pc = 0 /\ stack = <<>> /\ result = "running"
  BY DEF ToolInit, VMInit
<1>2. text \in Seq(DOMAIN Number) /\ frame \in [FieldId -> Nat]
  BY <1>1, ToolAssumption, VMAssumption
<1>3. QED
  BY <1>1, <1>2 DEF ToolInv, Idle

LEMMA ToolParseKeeps == ToolInv /\ Parse => ToolInv'
<1> SUFFICES ASSUME ToolInv, Parse PROVE ToolInv'
  OBVIOUS
<1>1. /\ phase = "parsing" /\ Idle /\ ast = NoRule
      /\ UNCHANGED <<pc, stack, result, frame, text>>
  BY DEF Parse, ToolInv, vmVars
<1>2. Idle' /\ text \in Seq(DOMAIN Number) /\ frame \in [FieldId -> Nat]
  BY <1>1 DEF Idle, ToolInv
<1>3. CASE Len(text) < 3 \/ (IsRange /\ Len(text) < 4)
  <2>1. phase' = "ended" /\ ast' = NoRule /\ result' = "running"
    BY <1>1, <1>3 DEF Parse, Idle
  <2>2. QED
    BY <1>1, <1>2, <2>1 DEF ToolInv
<1>4. CASE ~(Len(text) < 3 \/ (IsRange /\ Len(text) < 4))
  <2>1. phase' = "compiling" /\ ast' = Parsed
    BY <1>4 DEF Parse
  <2>2. /\ text[1] \in DOMAIN Number /\ text[2] \in DOMAIN Number
        /\ text[3] \in DOMAIN Number
        /\ IsRange => text[4] \in DOMAIN Number
    BY <1>2, <1>4
  <2>3. /\ Number[text[3]] \in Int32
        /\ IsRange => Number[text[4]] \in Int32
        /\ 0 \in Int32
    BY <2>2, ToolAssumption, TruthInt
  <2>4. ParseOp(text[2]) \in RuleOp /\ "RANGE" \in RuleOp
    BY DEF ParseOp, RuleOp
  <2>5. Parsed \in Rule
    BY <2>2, <2>3, <2>4 DEF Parsed, Rule
  <2>6. QED
    BY <1>1, <1>2, <2>1, <2>5 DEF ToolInv
<1>5. QED
  BY <1>3, <1>4

(* What is put together of two pieces. *)
Joins(S, p, q, c) ==
  /\ c \in Seq(S)
  /\ Len(p) \in Nat /\ Len(q) \in Nat
  /\ Len(c) = Len(p) + Len(q)
  /\ \A i \in 1 .. Len(p) : c[i] = p[i]
  /\ \A i \in 1 .. Len(q) : c[i + Len(p)] = q[i]

LEMMA ConcatIs ==
  ASSUME NEW S, NEW p \in Seq(S), NEW q \in Seq(S)
  PROVE  Joins(S, p, q, p \o q)
<1>1. p \o q \in Seq(S) /\ Len(p) \in Nat /\ Len(q) \in Nat
  OBVIOUS
<1>2. Len(p \o q) = Len(p) + Len(q)
  OBVIOUS
<1>3. \A i \in 1 .. Len(p) : (p \o q)[i] = p[i]
  OBVIOUS
<1>4. \A i \in 1 .. Len(q) : (p \o q)[i + Len(p)] = q[i]
  OBVIOUS
<1>5. QED
  BY <1>1, <1>2, <1>3, <1>4 DEF Joins

(* An int operand is four places. *)
LEMMA IntIs ==
  ASSUME NEW v
  PROVE  /\ IntAt(v) \in Seq({PUSH_INT, v, 0}) /\ Len(IntAt(v)) = 5
         /\ IntAt(v)[1] = PUSH_INT /\ IntAt(v)[2] = v
<1> DEFINE S == {PUSH_INT, v, 0}
           zeros == [i \in 1 .. IntBytes - 1 |-> 0]
           p == <<PUSH_INT, v>>
<1>1. zeros \in Seq(S) /\ Len(zeros) = 3
  BY ToolAssumption
<1>2. p \in Seq(S) /\ Len(p) = 2 /\ p[1] = PUSH_INT /\ p[2] = v
  OBVIOUS
<1>3. IntAt(v) = p \o zeros
  BY DEF IntAt
<1> HIDE DEF p, S, zeros
<1>4. /\ p \o zeros \in Seq(S) /\ Len(p \o zeros) = Len(p) + Len(zeros)
      /\ \A i \in 1 .. Len(p) : (p \o zeros)[i] = p[i]
  <2>1. Joins(S, p, zeros, p \o zeros)
    BY <1>1, <1>2, ConcatIs
  <2>2. QED
    BY <2>1 DEF Joins
<1>5. Len(p \o zeros) = 5 /\ (p \o zeros)[1] = p[1] /\ (p \o zeros)[2] = p[2]
  BY <1>1, <1>2, <1>4
<1>6. QED
  BY <1>2, <1>3, <1>4, <1>5 DEF S

(* Of an instruction with a byte, one with an int, and more. *)
Pieces(S, p, q, r, c) ==
  /\ c \in Seq(S) /\ Len(c) = 7 + Len(r)
  /\ \A i \in 1 .. 2 : c[i] = p[i]
  /\ \A i \in 1 .. 5 : c[i + 2] = q[i]
  /\ \A i \in 1 .. Len(r) : c[i + 7] = r[i]

LEMMA PiecesAt ==
  ASSUME NEW S, NEW p \in Seq(S), NEW q \in Seq(S), NEW r \in Seq(S),
         Len(p) = 2, Len(q) = 5
  PROVE  Pieces(S, p, q, r, (p \o q) \o r)
<1> DEFINE s == p \o q
<1>1. /\ s \in Seq(S) /\ Len(s) = Len(p) + Len(q)
      /\ \A i \in 1 .. Len(p) : s[i] = p[i]
      /\ \A i \in 1 .. Len(q) : s[i + Len(p)] = q[i]
  <2>1. Joins(S, p, q, s)
    BY ConcatIs
  <2> HIDE DEF s
  <2>2. QED
    BY <2>1 DEF Joins
<1> HIDE DEF s
<1>2. Len(s) = 7 /\ Len(r) \in Nat
  BY <1>1
<1>3. /\ s \o r \in Seq(S) /\ Len(s \o r) = Len(s) + Len(r)
      /\ \A i \in 1 .. Len(s) : (s \o r)[i] = s[i]
      /\ \A i \in 1 .. Len(r) : (s \o r)[i + Len(s)] = r[i]
  <2>1. Joins(S, s, r, s \o r)
    BY <1>1, ConcatIs
  <2>2. QED
    BY <2>1 DEF Joins
<1> DEFINE c == s \o r
<1> HIDE DEF c
<1>4. /\ \A i \in 1 .. 7 : c[i] = s[i]
      /\ \A i \in 1 .. Len(r) : c[i + 7] = r[i]
      /\ c \in Seq(S) /\ Len(c) = 7 + Len(r)
  BY <1>2, <1>3 DEF c
<1>5. /\ \A i \in 1 .. 2 : s[i] = p[i]
      /\ \A i \in 1 .. 5 : s[i + 2] = q[i]
  BY <1>1
<1>6. \A i \in 1 .. 2 : c[i] = p[i]
  BY <1>4, <1>5
<1>7. \A i \in 1 .. 5 : c[i + 2] = q[i]
  <2>1. \A i \in 1 .. 5 : i + 2 \in 1 .. 7
    OBVIOUS
  <2>2. QED
    BY <1>4, <1>5, <2>1
<1>8. QED
  BY <1>4, <1>6, <1>7 DEF c, s, Pieces

LEMMA CompareCodeIs ==
  ASSUME NEW id, ast.op # "RANGE"
  PROVE  \E op \in {CMP_EQ, CMP_GT, CMP_LT} :
           LET c == CodeOf(id)
           IN /\ Len(c) = 9
              /\ c[1] = LOAD_FIELD /\ c[2] = id /\ c[3] = PUSH_INT /\ c[4] = ast.value
              /\ c[8] = op /\ c[9] = END
              /\ op = CMP_GT <=> ast.op = "GT"
              /\ op = CMP_LT <=> ast.op = "LT"
<1> DEFINE op == CASE ast.op = "GT" -> CMP_GT [] ast.op = "LT" -> CMP_LT [] OTHER -> CMP_EQ
           p == <<LOAD_FIELD, id>>
           q == IntAt(ast.value)
           r == <<op, END>>
           S == {LOAD_FIELD, id, PUSH_INT, ast.value, 0, op, END}
<1>1. /\ op \in {CMP_EQ, CMP_GT, CMP_LT}
      /\ op = CMP_GT <=> ast.op = "GT"
      /\ op = CMP_LT <=> ast.op = "LT"
  BY DEF CMP_EQ, CMP_GT, CMP_LT
<1>2. CodeOf(id) = (p \o q) \o r
  BY DEF CodeOf, CompareCode
<1> HIDE DEF op
<1>3. /\ p \in Seq(S) /\ Len(p) = 2 /\ p[1] = LOAD_FIELD /\ p[2] = id
      /\ r \in Seq(S) /\ Len(r) = 2 /\ r[1] = op /\ r[2] = END
  OBVIOUS
<1>4. q \in Seq(S) /\ Len(q) = 5 /\ q[1] = PUSH_INT /\ q[2] = ast.value
  <2> DEFINE R == {PUSH_INT, ast.value, 0}
  <2>1. R \subseteq S
    OBVIOUS
  <2>2. q \in Seq(R) /\ Len(q) = 5 /\ q[1] = PUSH_INT /\ q[2] = ast.value
    BY IntIs
  <2> HIDE DEF R, S, q
  <2>3. QED
    BY <2>1, <2>2
<1> HIDE DEF p, q, r, S
<1> DEFINE c == (p \o q) \o r
<1>5. /\ Len(c) = 9
      /\ \A i \in 1 .. 2 : c[i] = p[i]
      /\ \A i \in 1 .. 5 : c[i + 2] = q[i]
      /\ \A i \in 1 .. 2 : c[i + 7] = r[i]
  <2>1. Pieces(S, p, q, r, c)
    BY <1>3, <1>4, PiecesAt
  <2> HIDE DEF c
  <2>2. QED
    BY <1>3, <2>1 DEF Pieces
<1> HIDE DEF c
<1>6. c[1] = p[1] /\ c[2] = p[2] /\ c[3] = q[1] /\ c[4] = q[2] /\ c[8] = r[1] /\ c[9] = r[2]
  <2>1. 1 + 2 = 3 /\ 2 + 2 = 4 /\ 1 + 7 = 8 /\ 2 + 7 = 9
    OBVIOUS
  <2>2. QED
    BY <1>5, <2>1
<1>7. QED
  BY <1>1, <1>2, <1>3, <1>4, <1>5, <1>6 DEF c

LEMMA RangeCodeIs ==
  ASSUME NEW id, ast.op = "RANGE"
  PROVE  LET c == CodeOf(id)
         IN /\ Len(c) = 15
            /\ c[1] = LOAD_FIELD /\ c[2] = id /\ c[3] = PUSH_INT /\ c[4] = ast.value
            /\ c[8] = PUSH_INT /\ c[9] = ast.high
            /\ c[13] = RANGE /\ c[14] = AND /\ c[15] = END
<1> DEFINE p == <<LOAD_FIELD, id>>
           q == IntAt(ast.value)
           h == IntAt(ast.high)
           e == <<RANGE, AND, END>>
           S == {LOAD_FIELD, id, PUSH_INT, ast.value, ast.high, 0, RANGE, AND, END}
<1>1. CodeOf(id) = ((p \o q) \o h) \o e
  BY DEF CodeOf, RangeCode
<1>2. /\ p \in Seq(S) /\ Len(p) = 2 /\ p[1] = LOAD_FIELD /\ p[2] = id
      /\ e \in Seq(S) /\ Len(e) = 3 /\ e[1] = RANGE /\ e[2] = AND /\ e[3] = END
  OBVIOUS
<1>3. /\ q \in Seq(S) /\ Len(q) = 5 /\ q[1] = PUSH_INT /\ q[2] = ast.value
      /\ h \in Seq(S) /\ Len(h) = 5 /\ h[1] = PUSH_INT /\ h[2] = ast.high
  <2> DEFINE R == {PUSH_INT, ast.value, 0}
             T == {PUSH_INT, ast.high, 0}
  <2>1. R \subseteq S /\ T \subseteq S
    OBVIOUS
  <2>2. /\ q \in Seq(R) /\ Len(q) = 5 /\ q[1] = PUSH_INT /\ q[2] = ast.value
        /\ h \in Seq(T) /\ Len(h) = 5 /\ h[1] = PUSH_INT /\ h[2] = ast.high
    BY IntIs
  <2> HIDE DEF R, T, S, q, h
  <2>3. QED
    BY <2>1, <2>2
<1> HIDE DEF p, q, h, e, S
<1> DEFINE d == (p \o q) \o h
<1>4. /\ d \in Seq(S) /\ Len(d) = 12
      /\ \A i \in 1 .. 2 : d[i] = p[i]
      /\ \A i \in 1 .. 5 : d[i + 2] = q[i]
      /\ \A i \in 1 .. 5 : d[i + 7] = h[i]
  <2>1. Pieces(S, p, q, h, d)
    BY <1>2, <1>3, PiecesAt
  <2> HIDE DEF d
  <2>2. QED
    BY <1>3, <2>1 DEF Pieces
<1> HIDE DEF d
<1>5. d[1] = p[1] /\ d[2] = p[2] /\ d[3] = q[1] /\ d[4] = q[2] /\ d[8] = h[1] /\ d[9] = h[2]
  <2>1. 1 + 2 = 3 /\ 2 + 2 = 4 /\ 1 + 7 = 8 /\ 2 + 7 = 9
    OBVIOUS
  <2>2. QED
    BY <1>4, <2>1
<1> DEFINE c == d \o e
<1>6. Joins(S, d, e, c)
  BY <1>2, <1>4, ConcatIs
<1>7. CodeOf(id) = c
  BY <1>1 DEF d
<1> HIDE DEF c
<1>8. /\ Len(c) = 15
      /\ \A i \in 1 .. 12 : c[i] = d[i]
      /\ \A i \in 1 .. 3 : c[i + 12] = e[i]
  BY <1>2, <1>4, <1>6 DEF Joins
<1>9. c[13] = e[1] /\ c[14] = e[2] /\ c[15] = e[3]
  <2>1. 1 + 12 = 13 /\ 2 + 12 = 14 /\ 3 + 12 = 15
    OBVIOUS
  <2>2. QED
    BY <1>8, <2>1
<1>10. c[1] = d[1] /\ c[2] = d[2] /\ c[3] = d[3] /\ c[4] = d[4] /\ c[8] = d[8] /\ c[9] = d[9]
  BY <1>8
<1>11. QED
  BY <1>2, <1>3, <1>5, <1>7, <1>8, <1>9, <1>10

LEMMA ToolCompileKeeps ==
  ASSUME MaxRuleCode >= 15, ToolInv, Compile
  PROVE  ToolInv'
<1>1. /\ phase = "compiling" /\ Idle /\ ast \in Rule
      /\ UNCHANGED <<text, ast, frame, pc, stack, result>>
      /\ text \in Seq(DOMAIN Number) /\ frame \in [FieldId -> Nat]
  BY DEF Compile, ToolInv
<1>2. Idle' /\ FieldIds(ast.field)' = FieldIds(ast.field)
  BY <1>1 DEF Idle, FieldIds
<1>3. ASSUME NEW id
      PROVE  Len(CodeOf(id)) \in 0 .. 15
  <2>1. CASE ast.op = "RANGE"
    BY <2>1, RangeCodeIs
  <2>2. CASE ast.op # "RANGE"
    BY <2>2, CompareCodeIs
  <2>3. QED
    BY <2>1, <2>2
<1>4. CASE FieldIds(ast.field) = {} /\ status' = "IPMB_ERR_INVALID" /\ phase' = "ended"
  BY <1>1, <1>2, <1>4 DEF ToolInv, Idle
<1>5. ASSUME NEW id \in FieldIds(ast.field), code' = CodeOf(id), len' = Len(code'),
             phase' = "running"
      PROVE  ToolInv'
  <2>1. Running(id)'
    <3>1. CodeOf(id)' = CodeOf(id)
      BY <1>1 DEF CodeOf, RangeCode, CompareCode
    <3>2. pc' = 0 /\ stack' = <<>> /\ result' = "running"
      BY <1>2 DEF Idle
    <3>3. AtRange(Load(id))' /\ AtCompare(Load(id))'
      BY <3>2 DEF AtRange, AtCompare
    <3>4. QED
      BY <1>5, <3>1, <3>2, <3>3 DEF Running
  <2>2. QED
    BY <1>1, <1>2, <1>5, <2>1 DEF ToolInv, Idle
<1>6. CASE /\ \E id \in FieldIds(ast.field) : EmitFails(CodeOf(id))
           /\ status' = "IPMB_ERR_ALLOC"
           /\ phase' = "ended"
  <2>1. AllocMayFail /\ FieldIds(ast.field) # {}
    <3>1. PICK id \in FieldIds(ast.field) : EmitFails(CodeOf(id))
      BY <1>6
    <3>2. ~(Len(CodeOf(id)) > MaxRuleCode)
      <4> DEFINE n == Len(CodeOf(id))
      <4>1. n \in 0 .. 15
        BY <1>3
      <4> HIDE DEF n
      <4>2. ~(n > MaxRuleCode)
        BY <4>1, ToolAssumption
      <4>3. QED
        BY <4>2 DEF n
    <3>3. QED
      BY <3>1, <3>2 DEF EmitFails
  <2>2. QED
    BY <1>1, <1>2, <1>6, <2>1 DEF ToolInv, Idle
<1>7. QED
  BY <1>4, <1>5, <1>6 DEF Compile

(* The instruction at pc, by the opcode: no other disjunct of Execute has  *)
(* it.                                                                     *)
LEMMA OneOpcode ==
  ASSUME NEW op, NEW v, NEW b, Execute(op, v, b)
  PROVE  /\ result = "running" /\ pc < len /\ UNCHANGED <<len, frame>>
         /\ op = LOAD_FIELD => LoadField(op, b)
         /\ op = PUSH_INT => PushInt(op, v)
         /\ op \in {CMP_EQ, CMP_GT, CMP_LT} => Compare(op)
         /\ op = RANGE => Range(op)
         /\ op = AND => Connect(op)
         /\ op = END => End(op)
<1> USE DEF PUSH_INT, LOAD_FIELD, CMP_EQ, CMP_GT, CMP_LT, RANGE, AND, OR, NOT, FORWARD, TAG, END
<1>1. /\ result = "running" /\ pc < len /\ UNCHANGED <<len, frame>>
      /\ \/ PushInt(op, v) \/ LoadField(op, b) \/ Compare(op) \/ Range(op) \/ Connect(op)
         \/ Negate(op) \/ SkipOver(op, b) \/ End(op) \/ BadOpcode(op)
  BY DEF Execute
<1>2. /\ PushInt(op, v) => op = 1
      /\ LoadField(op, b) => op = 3
      /\ Compare(op) => op \in {4, 5, 6}
      /\ Range(op) => op = 7
      /\ Connect(op) => op \in {8, 9}
      /\ Negate(op) => op = 10
      /\ SkipOver(op, b) => op \in {11, 12}
      /\ End(op) => op = 13
      /\ BadOpcode(op) => op \notin {1, 3, 4, 5, 6, 7, 8, 9, 10, 11, 12, 13}
  BY DEF PushInt, LoadField, Compare, Range, Connect, Negate, SkipOver, End, BadOpcode, Known
<1>3. QED
  BY <1>1, <1>2

(* A step of the machine leaves the rule, its code and its frame. *)
LEMMA CodeStays ==
  ASSUME NEW id, Running(id), UNCHANGED <<ast, code, len, frame>>
  PROVE  /\ code' = CodeOf(id)' /\ len' = Len(code') /\ Load(id)' = Load(id)
         /\ \A v : Says(v)' = Says(v)
BY DEF Running, CodeOf, RangeCode, CompareCode, Load, Says

(* The instruction after pc of the code. *)
At(n) == IF n <= len THEN code[n] ELSE 0

LEMMA CompareRuns ==
  ASSUME ast \in Rule, NEW id \in FieldId, Load(id) \in Int32, ast.op # "RANGE",
         Running(id), StackSize >= 4, UNCHANGED <<ast, code>>,
         Execute(At(pc + 1), At(pc + 2), At(pc + 2))
  PROVE  Running(id)'
<1> DEFINE v == Load(id)
           x == ast.value
<1>1. PICK op \in {CMP_EQ, CMP_GT, CMP_LT} :
        /\ Len(code) = 9
        /\ code[1] = LOAD_FIELD /\ code[2] = id /\ code[3] = PUSH_INT /\ code[4] = x
        /\ code[8] = op /\ code[9] = END
        /\ op = CMP_GT <=> ast.op = "GT"
        /\ op = CMP_LT <=> ast.op = "LT"
  BY CompareCodeIs DEF Running
<1>2. len = 9
  BY <1>1 DEF Running
<1>3. /\ result = "running" /\ UNCHANGED <<len, frame, ast, code>>
  BY OneOpcode
<1>4. /\ code' = CodeOf(id)' /\ len' = Len(code') /\ Load(id)' = v
      /\ \A u : Says(u)' = Says(u)
  BY <1>3, CodeStays
<1>5. v \in Int32 /\ x \in Int32 /\ v \in Int /\ x \in Int
  BY VMAssumption DEF Rule, Int32
<1>6. AtCompare(v)
  BY DEF Running
<1>7. Truth(Compared(op)) = Truth(Says(v)) \/ ~(stack = <<v, x>>)
  <2> SUFFICES ASSUME stack = <<v, x>>
               PROVE  Compared(op) <=> Says(v)
    BY DEF Truth
  <2>1. Top(0) = x /\ Top(1) = v
    BY DEF Top, sp
  <2> HIDE DEF v, x
  <2>2. ast.op \in {"EQ", "GT", "LT"}
    BY DEF Rule, RuleOp
  <2>3. QED
    BY <1>1, <1>5, <2>1, <2>2 DEF Compared, Says, x, CMP_EQ, CMP_GT, CMP_LT
<1> HIDE DEF v, x
<1>8. CASE pc = 0 /\ stack = <<>>
  <2>1. LoadField(LOAD_FIELD, id)
    <3>1. At(pc + 1) = LOAD_FIELD /\ At(pc + 2) = id
      BY <1>1, <1>2, <1>8 DEF At
    <3>2. QED
      BY <3>1, OneOpcode
  <2>2. pc' = 2 /\ stack' = <<v>> /\ result' = "running"
    BY <1>2, <1>3, <1>8, <2>1, VMAssumption DEF LoadField, Runs, StackFull, sp, v
  <2>3. QED
    BY <1>4, <2>2 DEF Running, AtCompare
<1>9. CASE pc = 2 /\ stack = <<v>>
  <2>1. PushInt(PUSH_INT, x)
    <3>1. At(pc + 1) = PUSH_INT /\ At(pc + 2) = x
      BY <1>1, <1>2, <1>9 DEF At
    <3>2. QED
      BY <3>1, OneOpcode
  <2>2. ~NoInt /\ ~StackFull
    BY <1>2, <1>9, VMAssumption, ToolAssumption DEF NoInt, StackFull, sp
  <2>3. pc' = 7 /\ stack' = <<v, x>> /\ result' = "running"
    BY <1>3, <1>9, <2>1, <2>2, ToolAssumption DEF PushInt, Runs
  <2>4. QED
    BY <1>3, <1>4, <2>3 DEF Running, AtCompare, x
<1>10. CASE pc = 7 /\ stack = <<v, x>>
  <2>1. Compare(op)
    <3>1. At(pc + 1) = op
      BY <1>1, <1>2, <1>10 DEF At
    <3>2. QED
      BY <3>1, OneOpcode
  <2>2. sp = 2 /\ Popped(2) = <<>>
    BY <1>10 DEF sp, Popped
  <2>3. pc' = 8 /\ stack' = <<Truth(Says(v))>> /\ result' = "running"
    BY <1>3, <1>7, <1>10, <2>1, <2>2 DEF Compare, Runs
  <2>4. QED
    BY <1>3, <1>4, <2>3 DEF Running, AtCompare
<1>11. CASE pc = 8 /\ stack = <<Truth(Says(v))>>
  <2>1. End(END)
    <3>1. At(pc + 1) = END
      BY <1>1, <1>2, <1>11 DEF At
    <3>2. QED
      BY <3>1, OneOpcode
  <2>2. sp = 1 /\ Top(0) = Truth(Says(v))
    BY <1>11 DEF sp, Top
  <2>3. result' = "IPMB_OK" /\ matched' = (Top(0) # 0) /\ UNCHANGED <<pc, stack>>
    BY <2>1, <2>2 DEF End
  <2>4. matched' <=> Says(v)
    <3>1. Truth(Says(v)) # 0 <=> Says(v)
      BY DEF Truth
    <3>2. Top(0) # 0 <=> Says(v)
      BY <2>2, <3>1
    <3>3. QED
      BY <2>3, <3>2, Zenon
  <2>5. QED
    BY <1>3, <1>4, <1>11, <2>3, <2>4 DEF Running, AtCompare
<1>12. QED
  BY <1>6, <1>8, <1>9, <1>10, <1>11 DEF AtCompare, x

LEMMA RangeRuns ==
  ASSUME ast \in Rule, NEW id \in FieldId, Load(id) \in Int32, ast.op = "RANGE",
         Running(id), StackSize >= 4, UNCHANGED <<ast, code>>,
         Execute(At(pc + 1), At(pc + 2), At(pc + 2))
  PROVE  Running(id)'
<1> DEFINE v == Load(id)
           x == ast.value
           y == ast.high
<1>1. /\ Len(code) = 15
      /\ code[1] = LOAD_FIELD /\ code[2] = id /\ code[3] = PUSH_INT /\ code[4] = x
      /\ code[8] = PUSH_INT /\ code[9] = y
      /\ code[13] = RANGE /\ code[14] = AND /\ code[15] = END
  BY RangeCodeIs DEF Running
<1>2. len = 15
  BY <1>1 DEF Running
<1>3. /\ result = "running" /\ UNCHANGED <<len, frame, ast, code>>
  BY OneOpcode
<1>4. /\ code' = CodeOf(id)' /\ len' = Len(code') /\ Load(id)' = v
      /\ \A u : Says(u)' = Says(u)
  BY <1>3, CodeStays
<1>5. v \in Int /\ x \in Int /\ y \in Int
  BY VMAssumption DEF Rule, Int32
<1>6. AtRange(v)
  BY DEF Running
<1>7. Says(v) <=> v >= x /\ v <= y
  <2>1. Says(v) <=> x <= v /\ v <= y
    BY DEF Says
  <2> HIDE DEF v, x, y
  <2>2. QED
    BY <1>5, <2>1
<1> HIDE DEF v, x, y
<1>8. CASE pc = 0 /\ stack = <<>>
  <2>1. LoadField(LOAD_FIELD, id)
    <3>1. At(pc + 1) = LOAD_FIELD /\ At(pc + 2) = id
      BY <1>1, <1>2, <1>8 DEF At
    <3>2. QED
      BY <3>1, OneOpcode
  <2>2. pc' = 2 /\ stack' = <<v>> /\ result' = "running"
    BY <1>2, <1>3, <1>8, <2>1, VMAssumption DEF LoadField, Runs, StackFull, sp, v
  <2>3. QED
    BY <1>4, <2>2 DEF Running, AtRange
<1>9. CASE pc = 2 /\ stack = <<v>>
  <2>1. PushInt(PUSH_INT, x)
    <3>1. At(pc + 1) = PUSH_INT /\ At(pc + 2) = x
      BY <1>1, <1>2, <1>9 DEF At
    <3>2. QED
      BY <3>1, OneOpcode
  <2>2. ~NoInt /\ ~StackFull
    BY <1>2, <1>9, VMAssumption, ToolAssumption DEF NoInt, StackFull, sp
  <2>3. pc' = 7 /\ stack' = <<v, x>> /\ result' = "running"
    BY <1>3, <1>9, <2>1, <2>2, ToolAssumption DEF PushInt, Runs
  <2>4. QED
    BY <1>3, <1>4, <2>3 DEF Running, AtRange, x
<1>10. CASE pc = 7 /\ stack = <<v, x>>
  <2>1. PushInt(PUSH_INT, y)
    <3>1. At(pc + 1) = PUSH_INT /\ At(pc + 2) = y
      BY <1>1, <1>2, <1>10 DEF At
    <3>2. QED
      BY <3>1, OneOpcode
  <2>2. ~NoInt /\ ~StackFull
    BY <1>2, <1>10, VMAssumption, ToolAssumption DEF NoInt, StackFull, sp
  <2>3. pc' = 12 /\ stack' = <<v, x, y>> /\ result' = "running"
    BY <1>3, <1>10, <2>1, <2>2, ToolAssumption DEF PushInt, Runs
  <2>4. QED
    BY <1>3, <1>4, <2>3 DEF Running, AtRange, x, y
<1>11. CASE pc = 12 /\ stack = <<v, x, y>>
  <2>1. Range(RANGE)
    <3>1. At(pc + 1) = RANGE
      BY <1>1, <1>2, <1>11 DEF At
    <3>2. QED
      BY <3>1, OneOpcode
  <2>2. sp = 3 /\ Popped(3) = <<>> /\ ~StackFull /\ Top(0) = y /\ Top(1) = x /\ Top(2) = v
    BY <1>11, VMAssumption DEF sp, Popped, StackFull, Top
  <2>3. pc' = 13 /\ stack' = <<>> \o <<Truth(v >= x), Truth(v <= y)>> /\ result' = "running"
    BY <1>3, <1>11, <2>1, <2>2 DEF Range, Runs
  <2>4. stack' = <<Truth(v >= x), Truth(v <= y)>>
    BY <2>3
  <2>5. QED
    BY <1>3, <1>4, <2>3, <2>4 DEF Running, AtRange, x, y
<1>12. CASE pc = 13 /\ stack = <<Truth(v >= x), Truth(v <= y)>>
  <2>1. Connect(AND)
    <3>1. At(pc + 1) = AND
      BY <1>1, <1>2, <1>12 DEF At
    <3>2. QED
      BY <3>1, OneOpcode
  <2>2. sp = 2 /\ Popped(2) = <<>> /\ Top(0) = Truth(v <= y) /\ Top(1) = Truth(v >= x)
    BY <1>12 DEF sp, Popped, Top
  <2>3. Connected(AND) <=> Says(v)
    BY <1>7, <2>2 DEF Connected, Truth, AND, OR
  <2>4. Truth(Connected(AND)) = Truth(Says(v))
    BY <2>3 DEF Truth
  <2>5. pc' = 14 /\ stack' = <<Truth(Says(v))>> /\ result' = "running"
    BY <1>3, <1>12, <2>1, <2>2, <2>4 DEF Connect, Runs
  <2>6. QED
    BY <1>3, <1>4, <2>5 DEF Running, AtRange
<1>13. CASE pc = 14 /\ stack = <<Truth(Says(v))>>
  <2>1. End(END)
    <3>1. At(pc + 1) = END
      BY <1>1, <1>2, <1>13 DEF At
    <3>2. QED
      BY <3>1, OneOpcode
  <2>2. sp = 1 /\ Top(0) = Truth(Says(v))
    BY <1>13 DEF sp, Top
  <2>3. result' = "IPMB_OK" /\ matched' = (Top(0) # 0) /\ UNCHANGED <<pc, stack>>
    BY <2>1, <2>2 DEF End
  <2>4. matched' <=> Says(v)
    <3>1. Truth(Says(v)) # 0 <=> Says(v)
      BY DEF Truth
    <3>2. Top(0) # 0 <=> Says(v)
      BY <2>2, <3>1
    <3>3. QED
      BY <2>3, <3>2, Zenon
  <2>5. QED
    BY <1>3, <1>4, <1>13, <2>3, <2>4 DEF Running, AtRange
<1>14. QED
  BY <1>6, <1>8, <1>9, <1>10, <1>11, <1>12, <1>13 DEF AtRange, x, y

(* The code never ends without END. *)
LEMMA InsideCode ==
  ASSUME ast \in Rule, NEW id \in FieldId, Running(id)
  PROVE  pc < len
<1>1. CASE ast.op = "RANGE"
  <2>1. Len(code) = 15 /\ pc \in {0, 2, 7, 12, 13, 14}
    BY <1>1, RangeCodeIs DEF Running, AtRange
  <2>2. QED
    BY <2>1 DEF Running
<1>2. CASE ast.op # "RANGE"
  <2>1. Len(code) = 9 /\ pc \in {0, 2, 7, 8}
    BY <1>2, CompareCodeIs DEF Running, AtCompare
  <2>2. QED
    BY <2>1 DEF Running
<1>3. QED
  BY <1>1, <1>2

LEMMA FieldLoads ==
  ASSUME frame \in [FieldId -> Nat], NEW id \in FieldIds(ast.field)
  PROVE  id \in FieldId /\ Load(id) = Signed(frame[id]) /\ Load(id) \in Int32
<1>1. id \in FieldId
  BY DEF FieldIds
<1>2. QED
  BY <1>1, SignedInt DEF Load

LEMMA ToolRunKeeps ==
  ASSUME StackSize >= 4, ToolInv, Run
  PROVE  ToolInv'
<1>1. /\ phase = "running" /\ UNCHANGED <<text, ast, code, status, phase>> /\ ast \in Rule
      /\ frame \in [FieldId -> Nat]
  BY DEF Run, ToolInv
<1>2. PICK id \in FieldIds(ast.field) : Running(id)
  BY <1>1 DEF ToolInv
<1>3. id \in FieldId /\ Load(id) \in Int32
  BY <1>1, FieldLoads
<1>4. Execute(At(pc + 1), At(pc + 2), At(pc + 2))
  <2>1. ~FallOff
    <3>1. pc < len
      BY <1>1, <1>2, <1>3, InsideCode
    <3>2. pc \in Nat /\ len \in Nat
      <4>1. CASE ast.op = "RANGE"
        <5>1. Len(code) = 15
          BY <4>1, <1>2, RangeCodeIs DEF Running
        <5>2. QED
          BY <1>2, <4>1, <5>1 DEF Running, AtRange
      <4>2. CASE ast.op # "RANGE"
        <5>1. Len(code) = 9
          BY <4>2, <1>2, CompareCodeIs DEF Running
        <5>2. QED
          BY <1>2, <4>2, <5>1 DEF Running, AtCompare
      <4>3. QED
        BY <4>1, <4>2
    <3>3. QED
      BY <3>1, <3>2 DEF FallOff
  <2>2. QED
    BY <2>1 DEF Run, At
<1>5. Running(id)'
  <2>1. CASE ast.op = "RANGE"
    BY <1>1, <1>2, <1>3, <1>4, <2>1, RangeRuns
  <2>2. CASE ast.op # "RANGE"
    BY <1>1, <1>2, <1>3, <1>4, <2>2, CompareRuns
  <2>3. QED
    BY <2>1, <2>2
<1>6. FieldIds(ast.field)' = FieldIds(ast.field) /\ frame' = frame
  BY <1>1, <1>4, OneOpcode DEF FieldIds
<1>7. QED
  BY <1>1, <1>2, <1>5, <1>6 DEF ToolInv

LEMMA ToolReportKeeps ==
  ASSUME ToolInv, Report
  PROVE  ToolInv'
<1>1. /\ phase = "running" /\ result # "running" /\ status' = result /\ phase' = "ended"
      /\ UNCHANGED <<text, ast, frame, pc, stack, matched, result>> /\ ast \in Rule
  BY DEF Report, ToolInv
<1>2. PICK id \in FieldIds(ast.field) : Running(id)
  BY <1>1 DEF ToolInv
<1>3. status' = "IPMB_OK" /\ (matched <=> Says(Load(id)))
  BY <1>1, <1>2 DEF Running
<1>4. (matched <=> Says(Load(id)))'
  BY <1>1, <1>3 DEF Says, Load
<1>5. FieldIds(ast.field)' = FieldIds(ast.field)
  BY <1>1 DEF FieldIds
<1>6. QED
  BY <1>1, <1>2, <1>3, <1>4, <1>5 DEF ToolInv

LEMMA ToolStays ==
  ASSUME ToolInv, UNCHANGED toolVars
  PROVE  ToolInv'
<1>1. UNCHANGED <<text, ast, code, status, phase, len, frame, pc, stack, matched, result>>
  BY DEF toolVars, vmVars
<1>2. /\ FieldIds(ast.field)' = FieldIds(ast.field)
      /\ \A id : Running(id)' = Running(id)
      /\ \A id : Says(Load(id))' = Says(Load(id))
  BY <1>1 DEF FieldIds, Running, Says, Load, CodeOf, RangeCode, CompareCode, AtRange, AtCompare
<1>3. Idle' = Idle
  BY <1>1 DEF Idle
<1>4. QED
  BY <1>1, <1>2, <1>3 DEF ToolInv

LEMMA ToolNextInv ==
  ASSUME StackSize >= 4, MaxRuleCode >= 15
  PROVE  ToolInv /\ [ToolNext]_toolVars => ToolInv'
<1> SUFFICES ASSUME ToolInv, [ToolNext]_toolVars PROVE ToolInv'
  OBVIOUS
<1>1. QED
  BY ToolParseKeeps, ToolCompileKeeps, ToolRunKeeps, ToolReportKeeps, ToolStays
    DEF ToolNext, Ended

(* The two lists have the same names, each of them once. *)
LEMMA SameNames ==
  ASSUME NEW name
  PROVE  IF SymbolFieldId(name) = 0 THEN FieldIds(name) = {}
         ELSE FieldIds(name) = {SymbolFieldId(name)}
<1>1. \A i, j \in 1 .. 7 : SymbolName[i] = SymbolName[j] => i = j
  BY DEF SymbolName
<1>2. \A i \in 1 .. 7 : FieldName[i] = SymbolName[i]
  BY DEF FieldName, SymbolName
<1>3. CASE name \in {SymbolName[i] : i \in 1 .. 7}
  <2> DEFINE i == CHOOSE i \in 1 .. 7 : SymbolName[i] = name
  <2>1. i \in 1 .. 7 /\ SymbolName[i] = name
    BY <1>3
  <2>2. SymbolFieldId(name) = i
    BY <1>3 DEF SymbolFieldId
  <2> HIDE DEF i
  <2>3. FieldIds(name) = {i}
    BY <1>1, <1>2, <2>1 DEF FieldIds, FieldId
  <2>4. QED
    BY <2>1, <2>2, <2>3
<1>4. CASE name \notin {SymbolName[i] : i \in 1 .. 7}
  <2>1. SymbolFieldId(name) = 0
    BY <1>4 DEF SymbolFieldId
  <2>2. FieldIds(name) = {}
    BY <1>2, <1>4 DEF FieldIds, FieldId
  <2>3. QED
    BY <2>1, <2>2
<1>5. QED
  BY <1>3, <1>4

(* What an unsigned field is to the machine. *)
LEMMA SignOf ==
  ASSUME NEW n \in Nat
  PROVE  /\ n < Half => Signed(n) = n
         /\ n \in Half .. Word - 1 => Signed(n) = n - Word /\ Signed(n) < 0
<1>1. Half \in Nat /\ Half > 1 /\ Word = 2 * Half
  BY VMAssumption DEF Word
<1>2. n < Word => n % Word = n
  BY <1>1
<1>3. QED
  BY <1>1, <1>2 DEF Signed

LEMMA BitsOfInt ==
  ASSUME NEW x \in Int32
  PROVE  IF x < 0 THEN x % Word = x + Word ELSE x % Word = x
<1>1. Half \in Nat /\ Half > 1 /\ Word = 2 * Half
  BY VMAssumption DEF Word
<1>2. -Half <= x /\ x < Half /\ x \in Int
  BY <1>1 DEF Int32
<1>3. QED
  BY <1>1, <1>2

LEMMA ToolTells == ToolInv => DecidesAsWritten
<1> SUFFICES ASSUME ToolInv PROVE DecidesAsWritten
  OBVIOUS
<1>1. ASSUME phase = "ended", ast # NoRule, ~Decided
      PROVE  IF SymbolFieldId(ast.field) = 0 THEN status = "IPMB_ERR_INVALID"
             ELSE status = "IPMB_ERR_ALLOC" /\ AllocMayFail
  <2>1. result = "running"
    BY <1>1 DEF Decided
  <2>2. IF FieldIds(ast.field) = {} THEN status = "IPMB_ERR_INVALID"
        ELSE status = "IPMB_ERR_ALLOC" /\ AllocMayFail
    BY <1>1, <2>1 DEF ToolInv
  <2>3. QED
    BY <2>2, SameNames
<1>2. ASSUME Decided
      PROVE  /\ status = "IPMB_OK"
             /\ Value < Half => (matched <=> Means)
             /\ Value \in Half .. Word - 1 =>
                  /\ ast.op = "EQ" => (matched <=> Value = ast.value % Word)
                  /\ ast.op = "GT" /\ ast.value >= 0 => ~matched
                  /\ ast.op = "LT" /\ ast.value >= 0 => matched
  <2>1. status = "IPMB_OK" /\ ast \in Rule /\ frame \in [FieldId -> Nat]
    BY <1>2 DEF Decided, ToolInv
  <2>2. PICK id \in FieldIds(ast.field) : matched <=> Says(Load(id))
    BY <1>2 DEF Decided, ToolInv
  <2>3. id = SymbolFieldId(ast.field)
    BY SameNames
  <2>4. id \in FieldId /\ Load(id) = Signed(frame[id]) /\ Value = frame[id]
    BY <2>1, <2>3, FieldLoads DEF Value
  <2> DEFINE u == frame[id]
             v == Load(id)
  <2>5. u \in Nat /\ Value = u /\ v = Signed(u)
    BY <2>1, <2>4
  <2>6. /\ u < Half => v = u
        /\ u \in Half .. Word - 1 => v = u - Word /\ v < 0
    BY <2>5, SignOf
  <2>7. ast.op \in {"EQ", "GT", "LT", "RANGE"} /\ ast.value \in Int32 /\ ast.high \in Int32
    BY <2>1 DEF Rule, RuleOp
  <2>8. ast.value \in Int /\ ast.high \in Int /\ Word \in Nat /\ ast.value < Half /\ Word = 2 * Half
    BY <2>7, VMAssumption DEF Int32, Word
  <2>9. IF ast.value < 0 THEN ast.value % Word = ast.value + Word
        ELSE ast.value % Word = ast.value
    BY <2>7, BitsOfInt
  <2> HIDE DEF u, v
  <2>10. Value < Half => (matched <=> Means)
    <3> SUFFICES ASSUME Value < Half
                 PROVE  Says(v) <=> Means
      BY <2>2 DEF v
    <3>1. Value = v
      BY <2>5, <2>6
    <3>2. QED
      BY <2>5, <2>7, <2>8, <3>1 DEF Means, Says
  <2>11. ASSUME Value \in Half .. Word - 1, ast.op = "EQ"
         PROVE  matched <=> Value = ast.value % Word
    <3>1. v = Value - Word /\ Value \in Int /\ Value >= Half
      BY <2>5, <2>6, <2>11
    <3>2. Says(v) <=> v = ast.value
      BY <2>11 DEF Says
    <3>3. v = ast.value <=> Value = ast.value % Word
      <4> DEFINE m == ast.value % Word
      <4>1. IF ast.value < 0 THEN m = ast.value + Word ELSE m = ast.value
        BY <2>9
      <4>2. v < 0
        BY <2>5, <2>6, <2>11
      <4> HIDE DEF m
      <4>3. CASE ast.value < 0
        <5>1. m = ast.value + Word
          BY <4>1, <4>3
        <5>2. v = ast.value <=> Value = m
          BY <2>8, <3>1, <5>1
        <5>3. QED
          BY <5>2 DEF m
      <4>4. CASE ast.value >= 0
        <5>1. m = ast.value
          BY <2>8, <4>1, <4>4
        <5>2. v # ast.value /\ Value # m
          <6>1. v # ast.value
            BY <2>8, <4>2, <4>4
          <6>2. Half \in Int /\ Value \in Int /\ ast.value < Half /\ Half <= Value
            BY <2>8, <3>1, VMAssumption
          <6>3. Value # ast.value
            BY <2>8, <6>2
          <6>4. QED
            BY <5>1, <6>1, <6>3
        <5>3. QED
          BY <5>2 DEF m
      <4>5. QED
        BY <2>8, <4>3, <4>4
    <3>4. QED
      BY <2>2, <3>2, <3>3 DEF v
  <2>12. ASSUME Value \in Half .. Word - 1, ast.op = "GT", ast.value >= 0
         PROVE  ~matched
    <3>1. v < 0 /\ v \in Int
      BY <2>5, <2>6, <2>8, <2>12
    <3>2. Says(v) <=> v > ast.value
      BY <2>12 DEF Says
    <3>3. QED
      BY <2>2, <2>8, <2>12, <3>1, <3>2 DEF v
  <2>13. ASSUME Value \in Half .. Word - 1, ast.op = "LT", ast.value >= 0
         PROVE  matched
    <3>1. v < 0 /\ v \in Int
      BY <2>5, <2>6, <2>8, <2>13
    <3>2. Says(v) <=> v < ast.value
      BY <2>13 DEF Says
    <3>3. v < ast.value
      BY <2>8, <2>13, <3>1
    <3>4. QED
      BY <2>2, <3>2, <3>3 DEF v
  <2>14. QED
    BY <2>1, <2>10, <2>11, <2>12, <2>13
<1>3. QED
  BY <1>1, <1>2 DEF DecidesAsWritten

(* A rule that parses and compiles is decided as it reads, for every text, *)
(* number and frame: the compiler's code of at most fifteen bytes takes no *)
(* more than four places of the stack, and leaves what the rule says of    *)
(* the field as an int.                                                    *)
THEOREM DecidesAsWrittenAlways ==
  ASSUME StackSize >= 4, MaxRuleCode >= 15
  PROVE  ToolSpec => []DecidesAsWritten
<1>1. QED
  BY ToolInitInv, ToolNextInv, ToolTells, PTL DEF ToolSpec

(***************************************************************************)
(* The programs around the library.  A program is proved by rules for the  *)
(* triples {A} q {B}, one for each kind of step, one for sequences and one *)
(* for loops; the invariant is that what is left to do is safe.            *)
(***************************************************************************)

IsSeq(q) == \E S : q \in Seq(S)

(* What the steps of a program depend on beside what is left to do: what   *)
(* it owns, whether the buffer is a whole file, and whether the file could *)
(* be measured.                                                            *)
Condition == [held |-> held, whole |-> (arrived = measured), seen |-> (measured # -1)]

(* The conditions in which one of the sets in H is owned. *)
Owning(H, W, S) == [held : H, whole : W, seen : S]

(* What a step of a program may make of a condition: what is to be done in *)
(* its place, and the condition after it.                                  *)
Does(i, c) ==
  CASE i.do = "try"  -> {<<i.yes, [c EXCEPT !.held = @ \cup {i.what}]>>, <<i.no, c>>}
    [] i.do = "use"  -> {<< <<>>, c>>}
    [] i.do = "grow" -> {<< <<>>, c>>, << <<>>, [c EXCEPT !.held = @ \cup {i.what}]>>}
    [] i.do \in {"free", "drop"} -> {<< <<>>, [c EXCEPT !.held = @ \ {i.what}]>>}
    [] i.do = "one"  -> {<<i.yes, c>>, <<i.no, c>>}
    [] i.do = "any"  -> {<< <<>>, c>>, <<Append(i.body, i), c>>}
    [] i.do = "measure" ->
         {<< <<>>, [held |-> c.held, whole |-> w, seen |-> TRUE]>> : w \in BOOLEAN}
           \cup {<<i.fails, [held |-> c.held, whole |-> FALSE, seen |-> FALSE]>>}
    [] i.do = "read" ->
         {<<i.yes, [held |-> c.held, whole |-> TRUE, seen |-> c.seen]>>,
          <<i.no, [held |-> c.held, whole |-> FALSE, seen |-> c.seen]>>}
    [] OTHER -> {}

(* What program p may own when it returns n. *)
MayLeave(p, n, owned) ==
  owned = {} \/ (p = "ipmb_route" /\ n = 1 /\ owned = {"message"})

(* A step of p is one it may take. *)
FineAt(p, i, c) ==
  /\ i.do \in {"use", "free"} => i.what \in c.held
  /\ i.do = "try" => i.what \notin c.held
  /\ i.do = "use" /\ i.what = "buffer" => c.whole = TRUE
  /\ i.do = "read" /\ p \in Tools => c.seen = TRUE
  /\ i.do = "exit" => i.status # -1 /\ MayLeave(p, i.status, c.held)

(* A state is what is left to do, and the condition. *)
Fine(p, s) == s[1] # <<>> /\ FineAt(p, Head(s[1]), s[2])
Succ(s) == {<<d[1] \o Tail(s[1]), d[2]>> : d \in Does(Head(s[1]), s[2])}

(* From s on, p takes only steps it may take until it is in a state of X,  *)
(* if it ever is: the states before are in a set closed under steps.       *)
Closes(p, X, R) == \A r \in R : r \in X \/ (Fine(p, r) /\ Succ(r) \subseteq R)
SafeTo(p, X, s) == \E R : s \in R /\ Closes(p, X, R)
Way(p, X, s) == CHOOSE R : s \in R /\ Closes(p, X, R)

(* The triple {A} q {B}: in a condition of A, p takes only steps it may    *)
(* take until q is done, and then is in a condition of B, whatever is left *)
(* to do behind q.  Led is the same of what one step leaves.               *)
Leads(p, q, A, B) ==
  /\ IsSeq(q)
  /\ \A t : IsSeq(t) => \A a \in A : SafeTo(p, {t} \X B, <<q \o t, a>>)
Led(p, d, B) == Leads(p, d[1], {d[2]}, B)

(* The program is safe from where it is until it exits, and has left       *)
(* nothing behind once it has.                                             *)
DriversInv ==
  /\ measured \in Nat \cup {-1} /\ arrived \in Nat
  /\ arrived <= Room \/ (measured = -1 /\ program \notin Tools)
  /\ exit = -1 => SafeTo(program, {}, <<todo, Condition>>)
  /\ exit # -1 => todo = <<>> /\ MayLeave(program, exit, held)

-----------------------------------------------------------------------------

LEMMA WayIs ==
  ASSUME NEW p, NEW X, NEW s, SafeTo(p, X, s)
  PROVE  s \in Way(p, X, s) /\ Closes(p, X, Way(p, X, s))
BY DEF SafeTo, Way

(* A program that from each state of Y steps safely to X or Y is safe to X. *)
LEMMA Loop ==
  ASSUME NEW p, NEW X, NEW Y,
         \A y \in Y : Fine(p, y) /\ \A s \in Succ(y) : SafeTo(p, X \cup Y, s)
  PROVE  \A y \in Y : SafeTo(p, X, y)
<1> DEFINE Z == UNION {Succ(y) : y \in Y}
           R == Y \cup UNION {Way(p, X \cup Y, s) : s \in Z}
<1>1. \A s \in Z : s \in Way(p, X \cup Y, s) /\ Closes(p, X \cup Y, Way(p, X \cup Y, s))
  BY WayIs
<1>2. ASSUME NEW y \in Y
      PROVE  Fine(p, y) /\ Succ(y) \subseteq R
  <2>1. Succ(y) \subseteq Z
    OBVIOUS
  <2>2. QED
    BY <1>1, <2>1
<1>3. ASSUME NEW s \in Z, NEW r \in Way(p, X \cup Y, s)
      PROVE  r \in X \/ (Fine(p, r) /\ Succ(r) \subseteq R)
  <2>1. r \in X \/ r \in Y \/ (Fine(p, r) /\ Succ(r) \subseteq Way(p, X \cup Y, s))
    BY <1>1, <1>3 DEF Closes
  <2>2. Way(p, X \cup Y, s) \subseteq R
    OBVIOUS
  <2>3. QED
    BY <1>2, <2>1, <2>2
<1>4. Closes(p, X, R)
  BY <1>2, <1>3 DEF Closes
<1>5. QED
  BY <1>4 DEF SafeTo

(* Safe to where it is safe on. *)
LEMMA Onward ==
  ASSUME NEW p, NEW X, NEW Y, NEW s, SafeTo(p, Y, s), \A y \in Y : SafeTo(p, X, y)
  PROVE  SafeTo(p, X, s)
<1> DEFINE R == Way(p, Y, s) \cup UNION {Way(p, X, y) : y \in Y}
<1>1. s \in Way(p, Y, s) /\ Closes(p, Y, Way(p, Y, s))
  BY WayIs
<1>2. \A y \in Y : y \in Way(p, X, y) /\ Closes(p, X, Way(p, X, y))
  BY WayIs
<1>3. ASSUME NEW y \in Y, NEW r \in Way(p, X, y)
      PROVE  r \in X \/ (Fine(p, r) /\ Succ(r) \subseteq R)
  <2>1. r \in X \/ (Fine(p, r) /\ Succ(r) \subseteq Way(p, X, y))
    BY <1>2, <1>3 DEF Closes
  <2>2. Way(p, X, y) \subseteq R
    OBVIOUS
  <2>3. QED
    BY <2>1, <2>2
<1>4. ASSUME NEW r \in Way(p, Y, s)
      PROVE  r \in X \/ (Fine(p, r) /\ Succ(r) \subseteq R)
  <2>1. r \in Y \/ (Fine(p, r) /\ Succ(r) \subseteq Way(p, Y, s))
    BY <1>1, <1>4 DEF Closes
  <2>2. CASE r \in Y
    BY <1>2, <1>3, <2>2
  <2>3. QED
    BY <2>1, <2>2
<1>5. Closes(p, X, R)
  BY <1>3, <1>4 DEF Closes
<1>6. QED
  BY <1>1, <1>5 DEF SafeTo

LEMMA There ==
  ASSUME NEW p, NEW X, NEW s \in X
  PROVE  SafeTo(p, X, s)
<1>1. Closes(p, X, {s})
  BY DEF Closes
<1>2. QED
  BY <1>1 DEF SafeTo

(* Safe before a step if safe after it. *)
LEMMA OneStep ==
  ASSUME NEW p, NEW X, NEW s, Fine(p, s), \A r \in Succ(s) : SafeTo(p, X, r)
  PROVE  SafeTo(p, X, s)
<1>1. \A y \in X : SafeTo(p, X \cup {s}, y)
  BY There
<1>2. \A r \in Succ(s) : SafeTo(p, X \cup {s}, r)
  BY <1>1, Onward
<1>3. \A y \in {s} : SafeTo(p, X, y)
  <2>1. \A y \in {s} : Fine(p, y) /\ \A r \in Succ(y) : SafeTo(p, X \cup {s}, r)
    BY <1>2
  <2>2. QED
    BY <2>1, Loop
<1>4. QED
  BY <1>3

-----------------------------------------------------------------------------

(* Sequences of anything. *)
LEMMA Concat ==
  ASSUME NEW q, NEW r, NEW t, IsSeq(q), IsSeq(r), IsSeq(t)
  PROVE  IsSeq(q \o r) /\ (q \o r) \o t = q \o (r \o t)
<1>1. PICK S1, S2, S3 : q \in Seq(S1) /\ r \in Seq(S2) /\ t \in Seq(S3)
  BY DEF IsSeq
<1> DEFINE S == S1 \cup S2 \cup S3
<1>2. q \in Seq(S) /\ r \in Seq(S) /\ t \in Seq(S)
  BY <1>1
<1> HIDE DEF S
<1>3. q \o r \in Seq(S)
  BY <1>2
<1>4. (q \o r) \o t = q \o (r \o t)
  BY <1>2
<1>5. QED
  BY <1>3, <1>4 DEF IsSeq

LEMMA Single ==
  ASSUME NEW i, NEW t, IsSeq(t)
  PROVE  /\ IsSeq(<<i>>)
         /\ <<i>> \o t # <<>>
         /\ Head(<<i>> \o t) = i
         /\ Tail(<<i>> \o t) = t
<1>1. PICK T : t \in Seq(T)
  BY DEF IsSeq
<1> DEFINE S == T \cup {i}
<1>2. t \in Seq(S) /\ <<i>> \in Seq(S)
  BY <1>1
<1> HIDE DEF S
<1>3. <<i>> \o t \in Seq(S) /\ Len(<<i>> \o t) = 1 + Len(t)
  BY <1>2
<1>4. Head(<<i>> \o t) = i /\ <<i>> \o t # <<>>
  BY <1>2, <1>3
<1>5. Tail(<<i>> \o t) = t
  BY <1>2, <1>3
<1>6. QED
  BY <1>2, <1>4, <1>5 DEF IsSeq

LEMMA Empty ==
  /\ IsSeq(<<>>)
  /\ \A t : IsSeq(t) => <<>> \o t = t
<1>1. <<>> \in Seq({})
  OBVIOUS
<1>2. ASSUME NEW t, IsSeq(t)
      PROVE  <<>> \o t = t
  <2>1. PICK T : t \in Seq(T)
    BY <1>2 DEF IsSeq
  <2>2. QED
    BY <2>1
<1>3. QED
  BY <1>1, <1>2 DEF IsSeq

LEMMA Appended ==
  ASSUME NEW q, NEW i, IsSeq(q)
  PROVE  Append(q, i) = q \o <<i>>
<1>1. PICK T : q \in Seq(T)
  BY DEF IsSeq
<1> DEFINE S == T \cup {i}
<1>2. q \in Seq(S) /\ i \in S
  BY <1>1
<1> HIDE DEF S
<1>3. QED
  BY <1>2

-----------------------------------------------------------------------------

(* The rules: nothing, weakening, sequences, and any step but a loop. *)
LEMMA Nothing ==
  ASSUME NEW p, NEW A, NEW B, A \subseteq B
  PROVE  Leads(p, <<>>, A, B)
<1>1. ASSUME NEW t, IsSeq(t), NEW a \in A
      PROVE  SafeTo(p, {t} \X B, << <<>> \o t, a>>)
  <2>1. <<t, a>> \in {t} \X B
    OBVIOUS
  <2>2. QED
    BY <1>1, <2>1, There, Empty
<1>2. QED
  BY <1>1, Empty DEF Leads

LEMMA Weaker ==
  ASSUME NEW p, NEW q, NEW A, NEW B, NEW A2, NEW B2,
         Leads(p, q, A, B), A2 \subseteq A, B \subseteq B2
  PROVE  Leads(p, q, A2, B2)
<1>1. ASSUME NEW t, IsSeq(t), NEW a \in A2
      PROVE  SafeTo(p, {t} \X B2, <<q \o t, a>>)
  <2>1. SafeTo(p, {t} \X B, <<q \o t, a>>)
    BY <1>1 DEF Leads
  <2>2. \A y \in {t} \X B : SafeTo(p, {t} \X B2, y)
    <3>1. {t} \X B \subseteq {t} \X B2
      OBVIOUS
    <3>2. QED
      BY <3>1, There
  <2>3. QED
    BY <2>1, <2>2, Onward
<1>2. QED
  BY <1>1 DEF Leads

LEMMA Then ==
  ASSUME NEW p, NEW q, NEW r, NEW A, NEW B, NEW C,
         Leads(p, q, A, B), Leads(p, r, B, C)
  PROVE  Leads(p, q \o r, A, C)
<1>1. IsSeq(q) /\ IsSeq(r)
  BY DEF Leads
<1>2. ASSUME NEW t, IsSeq(t), NEW a \in A
      PROVE  SafeTo(p, {t} \X C, <<(q \o r) \o t, a>>)
  <2>1. IsSeq(r \o t) /\ (q \o r) \o t = q \o (r \o t)
    BY <1>1, <1>2, Concat
  <2>2. SafeTo(p, {r \o t} \X B, <<q \o (r \o t), a>>)
    BY <1>2, <2>1 DEF Leads
  <2>3. \A y \in {r \o t} \X B : SafeTo(p, {t} \X C, y)
    <3>1. ASSUME NEW y \in {r \o t} \X B
          PROVE  SafeTo(p, {t} \X C, y)
      <4>1. PICK b \in B : y = <<r \o t, b>>
        OBVIOUS
      <4>2. SafeTo(p, {t} \X C, <<r \o t, b>>)
        BY <1>2 DEF Leads
      <4>3. QED
        BY <4>1, <4>2
    <3>2. QED
      BY <3>1
  <2>4. SafeTo(p, {t} \X C, <<q \o (r \o t), a>>)
    BY <2>2, <2>3, Onward
  <2>5. QED
    BY <2>1, <2>4
<1>3. IsSeq(q \o r)
  BY <1>1, Empty, Concat
<1>4. QED
  BY <1>2, <1>3 DEF Leads

LEMMA Instruction ==
  ASSUME NEW p, NEW i, NEW A, NEW B,
         \A a \in A : FineAt(p, i, a) /\ \A d \in Does(i, a) : Led(p, d, B)
  PROVE  Leads(p, <<i>>, A, B)
<1>1. ASSUME NEW t, IsSeq(t), NEW a \in A
      PROVE  SafeTo(p, {t} \X B, <<<<i>> \o t, a>>)
  <2> DEFINE s == <<<<i>> \o t, a>>
  <2>1. s[1] # <<>> /\ Head(s[1]) = i /\ Tail(s[1]) = t /\ s[2] = a
    BY <1>1, Single
  <2>2. Fine(p, s)
    BY <2>1 DEF Fine
  <2>3. ASSUME NEW r \in Succ(s)
        PROVE  SafeTo(p, {t} \X B, r)
    <3>1. PICK d \in Does(Head(s[1]), s[2]) : r = <<d[1] \o Tail(s[1]), d[2]>>
      BY <2>3 DEF Succ
    <3>2. d \in Does(i, a) /\ r = <<d[1] \o t, d[2]>>
      BY <2>1, <3>1
    <3>3. Leads(p, d[1], {d[2]}, B)
      BY <3>2 DEF Led
    <3>4. SafeTo(p, {t} \X B, <<d[1] \o t, d[2]>>)
      BY <1>1, <3>3 DEF Leads
    <3>5. QED
      BY <3>2, <3>4
  <2>4. QED
    BY <2>2, <2>3, OneStep
<1>2. IsSeq(<<i>>)
  BY Single, Empty
<1>3. QED
  BY <1>1, <1>2 DEF Leads

LEMMA GoesOn ==
  ASSUME NEW p, NEW q, NEW c, NEW A, NEW B, Leads(p, q, A, B), c \in A
  PROVE  Led(p, <<q, c>>, B)
<1>1. {c} \subseteq A
  OBVIOUS
<1>2. Leads(p, q, {c}, B)
  BY <1>1, Weaker
<1>3. QED
  BY <1>2 DEF Led

LEMMA GoesPast ==
  ASSUME NEW p, NEW c, NEW B, c \in B
  PROVE  Led(p, << <<>>, c>>, B)
BY Nothing, GoesOn

-----------------------------------------------------------------------------

(* The rules for each kind of step. *)
LEMMA Uses ==
  ASSUME NEW p, NEW x, NEW H, NEW W, NEW S,
         \A h \in H : x \in h, x = "buffer" => W = {TRUE}
  PROVE  Leads(p, <<Use(x)>>, Owning(H, W, S), Owning(H, W, S))
<1> DEFINE A == Owning(H, W, S)
<1>1. ASSUME NEW a \in A
      PROVE  FineAt(p, Use(x), a) /\ Does(Use(x), a) = {<< <<>>, a>>}
  <2>1. a.held \in H /\ a.whole \in W
    BY DEF Owning
  <2>2. QED
    BY <2>1 DEF FineAt, Does, Use
<1>2. \A a \in A : Led(p, << <<>>, a>>, A)
  BY GoesPast
<1>3. QED
  BY <1>1, <1>2, Instruction

LEMMA Tries ==
  ASSUME NEW p, NEW x, NEW yes, NEW no, NEW H, NEW G, NEW W, NEW S, NEW B,
         \A h \in H : x \notin h /\ h \cup {x} \in G,
         Leads(p, yes, Owning(G, W, S), B),
         Leads(p, no, Owning(H, W, S), B)
  PROVE  Leads(p, <<Try(x, yes, no)>>, Owning(H, W, S), B)
<1> DEFINE A == Owning(H, W, S)
           i == Try(x, yes, no)
           Gain(a) == [a EXCEPT !.held = @ \cup {x}]
<1>1. ASSUME NEW a \in A
      PROVE  /\ FineAt(p, i, a)
             /\ Does(i, a) = {<<yes, Gain(a)>>, <<no, a>>}
             /\ Gain(a) \in Owning(G, W, S)
  <2>1. a.held \in H
    BY DEF Owning
  <2>2. FineAt(p, i, a) /\ Does(i, a) = {<<yes, Gain(a)>>, <<no, a>>}
    BY <2>1 DEF FineAt, Does, Try
  <2>3. Gain(a) \in Owning(G, W, S)
    BY <2>1 DEF Owning
  <2>4. QED
    BY <2>2, <2>3
<1> HIDE DEF i, Gain
<1>2. \A a \in A : Led(p, <<yes, Gain(a)>>, B) /\ Led(p, <<no, a>>, B)
  BY <1>1, GoesOn
<1>3. \A a \in A : FineAt(p, i, a) /\ \A d \in Does(i, a) : Led(p, d, B)
  BY <1>1, <1>2
<1>4. Leads(p, <<i>>, A, B)
  BY <1>3, Instruction
<1>5. QED
  BY <1>4 DEF i

LEMMA Frees ==
  ASSUME NEW p, NEW x, NEW H, NEW G, NEW W, NEW S,
         \A h \in H : x \in h /\ h \ {x} \in G
  PROVE  Leads(p, <<Free(x)>>, Owning(H, W, S), Owning(G, W, S))
<1> DEFINE A == Owning(H, W, S)
           Loss(a) == [a EXCEPT !.held = @ \ {x}]
<1>1. ASSUME NEW a \in A
      PROVE  /\ FineAt(p, Free(x), a)
             /\ Does(Free(x), a) = {<< <<>>, Loss(a)>>}
             /\ Loss(a) \in Owning(G, W, S)
  <2>1. a.held \in H
    BY DEF Owning
  <2>2. FineAt(p, Free(x), a) /\ Does(Free(x), a) = {<< <<>>, Loss(a)>>}
    BY <2>1 DEF FineAt, Does, Free
  <2>3. Loss(a) \in Owning(G, W, S)
    BY <2>1 DEF Owning
  <2>4. QED
    BY <2>2, <2>3
<1> HIDE DEF Loss
<1>2. \A a \in A : Led(p, << <<>>, Loss(a)>>, Owning(G, W, S))
  BY <1>1, GoesPast
<1>3. QED
  BY <1>1, <1>2, Instruction

LEMMA Drops ==
  ASSUME NEW p, NEW x, NEW H, NEW G, NEW W, NEW S,
         \A h \in H : h \ {x} \in G
  PROVE  Leads(p, <<Drop(x)>>, Owning(H, W, S), Owning(G, W, S))
<1> DEFINE A == Owning(H, W, S)
           Loss(a) == [a EXCEPT !.held = @ \ {x}]
<1>1. ASSUME NEW a \in A
      PROVE  /\ FineAt(p, Drop(x), a)
             /\ Does(Drop(x), a) = {<< <<>>, Loss(a)>>}
             /\ Loss(a) \in Owning(G, W, S)
  <2>1. a.held \in H
    BY DEF Owning
  <2>2. FineAt(p, Drop(x), a) /\ Does(Drop(x), a) = {<< <<>>, Loss(a)>>}
    BY <2>1 DEF FineAt, Does, Drop
  <2>3. Loss(a) \in Owning(G, W, S)
    BY <2>1 DEF Owning
  <2>4. QED
    BY <2>2, <2>3
<1> HIDE DEF Loss
<1>2. \A a \in A : Led(p, << <<>>, Loss(a)>>, Owning(G, W, S))
  BY <1>1, GoesPast
<1>3. QED
  BY <1>1, <1>2, Instruction

LEMMA Grows ==
  ASSUME NEW p, NEW x, NEW H, NEW G, NEW W, NEW S,
         \A h \in H : h \in G /\ h \cup {x} \in G
  PROVE  Leads(p, <<Grow(x)>>, Owning(H, W, S), Owning(G, W, S))
<1> DEFINE A == Owning(H, W, S)
           B == Owning(G, W, S)
           Gain(a) == [a EXCEPT !.held = @ \cup {x}]
<1>1. ASSUME NEW a \in A
      PROVE  /\ FineAt(p, Grow(x), a)
             /\ Does(Grow(x), a) = {<< <<>>, a>>, << <<>>, Gain(a)>>}
             /\ a \in B /\ Gain(a) \in B
  <2>1. a.held \in H
    BY DEF Owning
  <2>2. FineAt(p, Grow(x), a) /\ Does(Grow(x), a) = {<< <<>>, a>>, << <<>>, Gain(a)>>}
    BY <2>1 DEF FineAt, Does, Grow
  <2>3. a \in B /\ Gain(a) \in B
    BY <2>1 DEF Owning
  <2>4. QED
    BY <2>2, <2>3
<1> HIDE DEF Gain
<1>2. \A a \in A : Led(p, << <<>>, a>>, B) /\ Led(p, << <<>>, Gain(a)>>, B)
  BY <1>1, GoesPast
<1>3. QED
  BY <1>1, <1>2, Instruction

LEMMA Ones ==
  ASSUME NEW p, NEW yes, NEW no, NEW A, NEW B, Leads(p, yes, A, B), Leads(p, no, A, B)
  PROVE  Leads(p, <<One(yes, no)>>, A, B)
<1> DEFINE i == One(yes, no)
<1>1. ASSUME NEW a \in A
      PROVE  FineAt(p, i, a) /\ Does(i, a) = {<<yes, a>>, <<no, a>>}
  BY DEF FineAt, Does, One
<1>2. \A a \in A : Led(p, <<yes, a>>, B) /\ Led(p, <<no, a>>, B)
  BY GoesOn
<1> HIDE DEF i
<1>3. Leads(p, <<i>>, A, B)
  BY <1>1, <1>2, Instruction
<1>4. QED
  BY <1>3 DEF i

LEMMA Anys ==
  ASSUME NEW p, NEW body, NEW A, Leads(p, body, A, A)
  PROVE  Leads(p, <<Any(body)>>, A, A)
<1> DEFINE i == Any(body)
<1>1. ASSUME NEW a \in A
      PROVE  FineAt(p, i, a) /\ Does(i, a) = {<< <<>>, a>>, <<Append(body, i), a>>}
  BY DEF FineAt, Does, Any
<1> HIDE DEF i
<1>2. IsSeq(body) /\ IsSeq(<<i>>)
  BY Single, Empty DEF Leads
<1>3. ASSUME NEW t, IsSeq(t)
      PROVE  \A a \in A : SafeTo(p, {t} \X A, <<<<i>> \o t, a>>)
  <2> DEFINE X == {t} \X A
             Y == {<<i>> \o t} \X A
  <2>1. Head(<<i>> \o t) = i /\ Tail(<<i>> \o t) = t /\ <<i>> \o t # <<>>
    BY <1>3, Single
  <2>2. IsSeq(<<i>> \o t) /\ Append(body, i) \o t = body \o (<<i>> \o t) /\ <<>> \o t = t
    BY <1>2, <1>3, Concat, Empty, Appended
  <2>3. ASSUME NEW y \in Y
        PROVE  Fine(p, y) /\ \A s \in Succ(y) : SafeTo(p, X \cup Y, s)
    <3>1. PICK a \in A : y = <<<<i>> \o t, a>>
      BY <2>3
    <3>2. Fine(p, y)
      BY <1>1, <2>1, <3>1 DEF Fine
    <3>3. ASSUME NEW s \in Succ(y)
          PROVE  s = <<t, a>> \/ s = <<body \o (<<i>> \o t), a>>
      <4>1. PICK d \in Does(i, a) : s = <<d[1] \o t, d[2]>>
        BY <2>1, <3>1 DEF Succ
      <4>2. CASE d = << <<>>, a>>
        BY <2>2, <4>1, <4>2
      <4>3. CASE d = <<Append(body, i), a>>
        BY <2>2, <4>1, <4>3
      <4>4. QED
        BY <1>1, <4>2, <4>3
    <3>4. SafeTo(p, X \cup Y, <<t, a>>)
      BY There
    <3>5. SafeTo(p, X \cup Y, <<body \o (<<i>> \o t), a>>)
      <4>1. SafeTo(p, Y, <<body \o (<<i>> \o t), a>>)
        BY <2>2 DEF Leads
      <4>2. \A z \in Y : SafeTo(p, X \cup Y, z)
        BY There
      <4>3. QED
        BY <4>1, <4>2, Onward
    <3>6. QED
      BY <3>2, <3>3, <3>4, <3>5
  <2>4. \A y \in Y : SafeTo(p, X, y)
    BY <2>3, Loop
  <2>5. QED
    BY <2>4
<1>4. Leads(p, <<i>>, A, A)
  BY <1>2, <1>3 DEF Leads
<1>5. QED
  BY <1>4 DEF i

LEMMA Exits ==
  ASSUME NEW p, NEW n, n # -1, NEW A, NEW B, \A a \in A : MayLeave(p, n, a.held)
  PROVE  Leads(p, <<Exit(n)>>, A, B)
<1>1. ASSUME NEW a \in A
      PROVE  FineAt(p, Exit(n), a) /\ Does(Exit(n), a) = {}
  BY DEF FineAt, Does, Exit
<1>2. QED
  BY <1>1, Instruction

LEMMA Measures ==
  ASSUME NEW p, NEW fails, NEW H, NEW W, NEW S, NEW B,
         Owning(H, BOOLEAN, {TRUE}) \subseteq B,
         Leads(p, fails, Owning(H, {FALSE}, {FALSE}), B)
  PROVE  Leads(p, <<Measure(fails)>>, Owning(H, W, S), B)
<1> DEFINE i == Measure(fails)
           A == Owning(H, W, S)
           Seen(a, w) == [held |-> a.held, whole |-> w, seen |-> TRUE]
           Blind(a) == [held |-> a.held, whole |-> FALSE, seen |-> FALSE]
<1>1. ASSUME NEW a \in A
      PROVE  /\ FineAt(p, i, a)
             /\ Does(i, a) = {<< <<>>, Seen(a, w)>> : w \in BOOLEAN} \cup {<<fails, Blind(a)>>}
             /\ \A w \in BOOLEAN : Seen(a, w) \in B
             /\ Blind(a) \in Owning(H, {FALSE}, {FALSE})
  <2>1. a.held \in H
    BY DEF Owning
  <2>2. FineAt(p, i, a)
    BY DEF FineAt, Measure
  <2>3. Does(i, a) = {<< <<>>, Seen(a, w)>> : w \in BOOLEAN} \cup {<<fails, Blind(a)>>}
    BY DEF Does, Measure
  <2>4. /\ \A w \in BOOLEAN : Seen(a, w) \in B
        /\ Blind(a) \in Owning(H, {FALSE}, {FALSE})
    BY <2>1 DEF Owning
  <2>5. QED
    BY <2>2, <2>3, <2>4
<1> HIDE DEF i, Seen, Blind
<1>2. \A a \in A : /\ Led(p, <<fails, Blind(a)>>, B)
                   /\ \A w \in BOOLEAN : Led(p, << <<>>, Seen(a, w)>>, B)
  BY <1>1, GoesOn, GoesPast
<1>3. \A a \in A : FineAt(p, i, a) /\ \A d \in Does(i, a) : Led(p, d, B)
  BY <1>1, <1>2
<1>4. Leads(p, <<i>>, A, B)
  BY <1>3, Instruction
<1>5. QED
  BY <1>4 DEF i

LEMMA Reads ==
  ASSUME NEW p, NEW yes, NEW no, NEW H, NEW W, NEW S, NEW B,
         p \in Tools => S = {TRUE},
         Leads(p, yes, Owning(H, {TRUE}, S), B),
         Leads(p, no, Owning(H, {FALSE}, S), B)
  PROVE  Leads(p, <<Read(yes, no)>>, Owning(H, W, S), B)
<1> DEFINE i == Read(yes, no)
           A == Owning(H, W, S)
           Whole(a, w) == [held |-> a.held, whole |-> w, seen |-> a.seen]
<1>1. ASSUME NEW a \in A
      PROVE  /\ FineAt(p, i, a)
             /\ Does(i, a) = {<<yes, Whole(a, TRUE)>>, <<no, Whole(a, FALSE)>>}
             /\ Whole(a, TRUE) \in Owning(H, {TRUE}, S)
             /\ Whole(a, FALSE) \in Owning(H, {FALSE}, S)
  <2>1. a.seen \in S
    BY DEF Owning
  <2>2. FineAt(p, i, a)
    BY <2>1 DEF FineAt, Read
  <2>3. Does(i, a) = {<<yes, Whole(a, TRUE)>>, <<no, Whole(a, FALSE)>>}
    BY DEF Does, Read
  <2>4. /\ Whole(a, TRUE) \in Owning(H, {TRUE}, S)
        /\ Whole(a, FALSE) \in Owning(H, {FALSE}, S)
    BY DEF Owning
  <2>5. QED
    BY <2>2, <2>3, <2>4
<1> HIDE DEF i, Whole
<1>2. \A a \in A : Led(p, <<yes, Whole(a, TRUE)>>, B) /\ Led(p, <<no, Whole(a, FALSE)>>, B)
  BY <1>1, GoesOn
<1>3. \A a \in A : FineAt(p, i, a) /\ \A d \in Does(i, a) : Led(p, d, B)
  BY <1>1, <1>2
<1>4. Leads(p, <<i>>, A, B)
  BY <1>3, Instruction
<1>5. QED
  BY <1>4 DEF i

-----------------------------------------------------------------------------

(* A sequence is its first step, then the rest. *)
LEMMA ConsIs ==
  ASSUME NEW S, NEW a \in S, NEW q \in Seq(S), NEW r \in Seq(S),
         Len(r) = Len(q) + 1, r[1] = a, \A i \in 1 .. Len(q) : r[i + 1] = q[i]
  PROVE  <<a>> \o q = r
<1> DEFINE s == <<a>> \o q
<1>1. <<a>> \in Seq(S) /\ Len(<<a>>) = 1 /\ <<a>>[1] = a
  OBVIOUS
<1>2. s \in Seq(S) /\ Len(s) = Len(q) + 1
  BY <1>1
<1>3. ASSUME NEW i \in 1 .. Len(q) + 1
      PROVE  s[i] = r[i]
  <2>1. CASE i = 1
    BY <1>1, <2>1
  <2>2. CASE i # 1
    <3>1. i - 1 \in 1 .. Len(q)
      BY <2>2
    <3>2. s[i] = q[i - 1]
      BY <1>1, <2>2, <3>1
    <3>3. r[(i - 1) + 1] = q[i - 1]
      BY <3>1
    <3>4. QED
      BY <3>2, <3>3
  <2>3. QED
    BY <2>1, <2>2
<1> HIDE DEF s
<1>4. s = r
  BY <1>2, <1>3
<1>5. QED
  BY <1>4 DEF s

LEMMA First2 ==
  ASSUME NEW p, NEW a, NEW b, NEW A, NEW B, NEW C,
         Leads(p, <<a>>, A, B), Leads(p, <<b>>, B, C)
  PROVE  Leads(p, <<a, b>>, A, C)
<1>1. Leads(p, <<a>> \o <<b>>, A, C)
  BY Then
<1>2. <<a>> \o <<b>> = <<a, b>>
  <2> DEFINE S == {a, b}
             q == <<b>>
             r == <<a, b>>
  <2>1. q \in Seq(S) /\ r \in Seq(S) /\ a \in S
    OBVIOUS
  <2>2. Len(q) = 1 /\ Len(r) = 1 + 1 /\ r[1] = a /\ \A i \in 1 .. 1 : r[i + 1] = q[i]
    OBVIOUS
  <2> HIDE DEF S, q, r
  <2>3. <<a>> \o q = r
    BY <2>1, <2>2, ConsIs, ZenonT(60)
  <2>4. QED
    BY <2>3 DEF q, r
<1>3. QED
  BY <1>1, <1>2

LEMMA First3 ==
  ASSUME NEW p, NEW a, NEW b, NEW c, NEW A, NEW B, NEW C,
         Leads(p, <<a>>, A, B), Leads(p, <<b, c>>, B, C)
  PROVE  Leads(p, <<a, b, c>>, A, C)
<1>1. Leads(p, <<a>> \o <<b, c>>, A, C)
  BY Then
<1>2. <<a>> \o <<b, c>> = <<a, b, c>>
  <2> DEFINE S == {a, b, c}
             q == <<b, c>>
             r == <<a, b, c>>
  <2>1. q \in Seq(S) /\ r \in Seq(S) /\ a \in S
    OBVIOUS
  <2>2. Len(q) = 2 /\ Len(r) = 2 + 1 /\ r[1] = a /\ \A i \in 1 .. 2 : r[i + 1] = q[i]
    OBVIOUS
  <2> HIDE DEF S, q, r
  <2>3. <<a>> \o q = r
    BY <2>1, <2>2, ConsIs, ZenonT(60)
  <2>4. QED
    BY <2>3 DEF q, r
<1>3. QED
  BY <1>1, <1>2

LEMMA First4 ==
  ASSUME NEW p, NEW a, NEW b, NEW c, NEW d, NEW A, NEW B, NEW C,
         Leads(p, <<a>>, A, B), Leads(p, <<b, c, d>>, B, C)
  PROVE  Leads(p, <<a, b, c, d>>, A, C)
<1>1. Leads(p, <<a>> \o <<b, c, d>>, A, C)
  BY Then
<1>2. <<a>> \o <<b, c, d>> = <<a, b, c, d>>
  <2> DEFINE S == {a, b, c, d}
             q == <<b, c, d>>
             r == <<a, b, c, d>>
  <2>1. q \in Seq(S) /\ r \in Seq(S) /\ a \in S
    OBVIOUS
  <2>2. Len(q) = 3 /\ Len(r) = 3 + 1 /\ r[1] = a /\ \A i \in 1 .. 3 : r[i + 1] = q[i]
    OBVIOUS
  <2> HIDE DEF S, q, r
  <2>3. <<a>> \o q = r
    BY <2>1, <2>2, ConsIs, ZenonT(60)
  <2>4. QED
    BY <2>3 DEF q, r
<1>3. QED
  BY <1>1, <1>2

LEMMA First5 ==
  ASSUME NEW p, NEW a, NEW b, NEW c, NEW d, NEW e, NEW A, NEW B, NEW C,
         Leads(p, <<a>>, A, B), Leads(p, <<b, c, d, e>>, B, C)
  PROVE  Leads(p, <<a, b, c, d, e>>, A, C)
<1>1. Leads(p, <<a>> \o <<b, c, d, e>>, A, C)
  BY Then
<1>2. <<a>> \o <<b, c, d, e>> = <<a, b, c, d, e>>
  <2> DEFINE S == {a, b, c, d, e}
             q == <<b, c, d, e>>
             r == <<a, b, c, d, e>>
  <2>1. q \in Seq(S) /\ r \in Seq(S) /\ a \in S
    OBVIOUS
  <2>2. Len(q) = 4 /\ Len(r) = 4 + 1 /\ r[1] = a /\ \A i \in 1 .. 4 : r[i + 1] = q[i]
    OBVIOUS
  <2> HIDE DEF S, q, r
  <2>3. <<a>> \o q = r
    BY <2>1, <2>2, ConsIs, ZenonT(60)
  <2>4. QED
    BY <2>3 DEF q, r
<1>3. QED
  BY <1>1, <1>2

(* What is owned when x is owned beside. *)
Plus(H, x) == {h \cup {x} : h \in H}

(* What is owned beside H is released, used or tried. *)
LEMMA FreesIt ==
  ASSUME NEW p, NEW x, NEW H, NEW W, NEW S, \A h \in H : x \notin h
  PROVE  Leads(p, <<Free(x)>>, Owning(Plus(H, x), W, S), Owning(H, W, S))
<1>1. \A h \in Plus(H, x) : x \in h /\ h \ {x} \in H
  <2>1. ASSUME NEW h \in H
        PROVE  (h \cup {x}) \ {x} = h
    OBVIOUS
  <2>2. QED
    BY <2>1 DEF Plus
<1>2. QED
  BY <1>1, Frees

LEMMA UsesIt ==
  ASSUME NEW p, NEW x, NEW H, NEW W, NEW S, x # "buffer"
  PROVE  Leads(p, <<Use(x)>>, Owning(Plus(H, x), W, S), Owning(Plus(H, x), W, S))
<1>1. \A h \in Plus(H, x) : x \in h
  BY DEF Plus
<1>2. QED
  BY <1>1, Uses

LEMMA TriesIt ==
  ASSUME NEW p, NEW x, NEW yes, NEW no, NEW H, NEW W, NEW S, NEW B,
         \A h \in H : x \notin h,
         Leads(p, yes, Owning(Plus(H, x), W, S), B),
         Leads(p, no, Owning(H, W, S), B)
  PROVE  Leads(p, <<Try(x, yes, no)>>, Owning(H, W, S), B)
<1>1. \A h \in H : x \notin h /\ h \cup {x} \in Plus(H, x)
  BY DEF Plus
<1>2. QED
  BY <1>1, Tries

(* What is tried may be missing. *)
LEMMA TriesFor ==
  ASSUME NEW p, NEW x, NEW yes, NEW H, NEW W, NEW S,
         \A h \in H : x \notin h,
         Leads(p, yes, Owning(Plus(H, x), W, S), Owning(H, W, S))
  PROVE  Leads(p, <<Try(x, yes, <<>>)>>, Owning(H, W, S), Owning(H, W, S))
<1>1. Leads(p, <<>>, Owning(H, W, S), Owning(H, W, S))
  BY Nothing
<1>2. QED
  BY <1>1, TriesIt

LEMMA OwningMore ==
  ASSUME NEW H, NEW W, NEW S, NEW G, NEW V, NEW T, H \subseteq G, W \subseteq V, S \subseteq T
  PROVE  Owning(H, W, S) \subseteq Owning(G, V, T)
BY DEF Owning

LEMMA Ends ==
  ASSUME NEW p, NEW n, n # -1, NEW W, NEW S, NEW B
  PROVE  Leads(p, <<Exit(n)>>, Owning({{}}, W, S), B)
<1>1. \A a \in Owning({{}}, W, S) : MayLeave(p, n, a.held)
  BY DEF Owning, MayLeave
<1>2. QED
  BY <1>1, Exits

(* The last thing owned is released at the end. *)
LEMMA FreesAndEnds ==
  ASSUME NEW p, NEW x, NEW n, n # -1, NEW W, NEW S, NEW B
  PROVE  Leads(p, <<Free(x), Exit(n)>>, Owning({{x}}, W, S), B)
<1>1. Leads(p, <<Free(x)>>, Owning({{x}}, W, S), Owning({{}}, W, S))
  <2>1. \A h \in {{x}} : x \in h /\ h \ {x} \in {{}}
    OBVIOUS
  <2>2. QED
    BY <2>1, Frees
<1>2. QED
  BY <1>1, Ends, First2

(* Nothing is owned; nothing is known of the file. *)
Anything == Owning({{}}, BOOLEAN, BOOLEAN)

(* read_file, and the tools behind it. *)
LEMMA ReadsFile ==
  ASSUME NEW p, NEW then, Leads(p, then, Owning({{"buffer"}}, {TRUE}, {TRUE}), {})
  PROVE  Leads(p, ReadFile(then), Anything, {})
<1> DEFINE F == {{"file"}}
           FB == {{"file", "buffer"}}
           shut == <<Free("file"), Exit(1)>>
           short == <<Free("buffer"), Free("file"), Exit(1)>>
           read == Read(<<Free("file")>> \o then, short)
           buffer == Try("buffer", <<read>>, shut)
           measure == Measure(shut)
<1>1. \A W, S, B : Leads(p, shut, Owning(F, W, S), B)
  <2>1. 1 # -1
    OBVIOUS
  <2>2. QED
    BY <2>1, FreesAndEnds
<1>2. Leads(p, short, Owning(FB, {FALSE}, {TRUE}), {})
  <2>1. \A h \in FB : "buffer" \in h /\ h \ {"buffer"} \in F
    OBVIOUS
  <2>2. Leads(p, <<Free("buffer")>>, Owning(FB, {FALSE}, {TRUE}), Owning(F, {FALSE}, {TRUE}))
    BY <2>1, Frees
  <2>3. QED
    BY <1>1, <2>2, First3
<1>3. Leads(p, <<Free("file")>> \o then, Owning(FB, {TRUE}, {TRUE}), {})
  <2>1. \A h \in FB : "file" \in h /\ h \ {"file"} \in {{"buffer"}}
    OBVIOUS
  <2>2. Leads(p, <<Free("file")>>, Owning(FB, {TRUE}, {TRUE}), Owning({{"buffer"}}, {TRUE}, {TRUE}))
    BY <2>1, Frees
  <2>3. QED
    BY <2>2, Then
<1>4. Leads(p, <<read>>, Owning(FB, BOOLEAN, {TRUE}), {})
  BY <1>2, <1>3, Reads
<1>5. Leads(p, <<buffer>>, Owning(F, BOOLEAN, {TRUE}), {})
  <2>1. \A h \in F : "buffer" \notin h /\ h \cup {"buffer"} \in FB
    OBVIOUS
  <2>2. QED
    BY <1>1, <1>4, <2>1, Tries
<1>6. Leads(p, <<measure>>, Owning(F, BOOLEAN, BOOLEAN), Owning(F, BOOLEAN, {TRUE}))
  BY <1>1, Measures
<1>7. Leads(p, <<measure, buffer>>, Owning(F, BOOLEAN, BOOLEAN), {})
  BY <1>5, <1>6, First2
<1>8. Leads(p, <<Exit(1)>>, Anything, {})
  BY Ends DEF Anything
<1>9. Leads(p, <<Try("file", <<measure, buffer>>, <<Exit(1)>>)>>, Anything, {})
  <2>1. \A h \in {{}} : "file" \notin h /\ h \cup {"file"} \in F
    OBVIOUS
  <2>2. QED
    BY <1>7, <1>8, <2>1, Tries DEF Anything
<1>10. QED
  BY <1>9 DEF ReadFile

LEMMA Used ==
  ASSUME NEW p, NEW then, Leads(p, then, Owning({{"buffer"}}, {TRUE}, {TRUE}), {})
  PROVE  Leads(p, <<Usage>> \o ReadFile(then), Anything, {})
<1>1. Leads(p, <<Usage>>, Anything, Anything)
  <2>1. Leads(p, <<>>, Anything, Anything) /\ Leads(p, <<Exit(2)>>, Anything, Anything)
    BY Nothing, Ends DEF Anything
  <2>2. QED
    BY <2>1, Ones DEF Usage
<1>2. QED
  BY <1>1, ReadsFile, Then

(* What a fuzz target is called with: a file that was read whole. *)
Given == {{"file", "buffer"}}
Whole(H) == Owning(H, {TRUE}, BOOLEAN)

(* The main of the fuzz targets leaves nothing if its target does. *)
LEMMA StandaloneEnds ==
  ASSUME NEW p, p \notin Tools, NEW target, Leads(p, target, Whole(Given), Whole(Given))
  PROVE  Leads(p, Standalone(target), Anything, {})
<1> DEFINE F == {{"file"}}
           open == Owning(F, BOOLEAN, BOOLEAN)
           filled == Owning(Given, BOOLEAN, BOOLEAN)
           read == Read(target, <<>>)
           buffer == Try("buffer", <<read, Free("buffer")>>, <<>>)
           measure == Measure(<<>>)
           file == Try("file", <<measure, buffer, Free("file")>>, <<>>)
<1>1. Leads(p, <<read>>, filled, filled)
  <2>1. Whole(Given) \subseteq filled /\ Owning(Given, {FALSE}, BOOLEAN) \subseteq filled
    BY OwningMore DEF Whole
  <2>2. Leads(p, target, Owning(Given, {TRUE}, BOOLEAN), filled)
    <3>1. Whole(Given) \subseteq Whole(Given)
      OBVIOUS
    <3>2. Leads(p, target, Whole(Given), filled)
      BY <2>1, <3>1, Weaker
    <3>3. QED
      BY <3>2 DEF Whole
  <2>3. Leads(p, <<>>, Owning(Given, {FALSE}, BOOLEAN), filled)
    BY <2>1, Nothing
  <2>4. QED
    BY <2>2, <2>3, Reads
<1>2. Leads(p, <<read, Free("buffer")>>, filled, open)
  <2>1. \A h \in Given : "buffer" \in h /\ h \ {"buffer"} \in F
    BY DEF Given
  <2>2. Leads(p, <<Free("buffer")>>, filled, open)
    BY <2>1, Frees
  <2>3. QED
    BY <1>1, <2>2, First2
<1>3. Leads(p, <<buffer>>, open, open)
  <2>1. \A h \in F : "buffer" \notin h /\ h \cup {"buffer"} \in Given
    BY DEF Given
  <2>2. Leads(p, <<>>, open, open)
    BY Nothing
  <2>3. QED
    BY <1>2, <2>1, <2>2, Tries
<1>4. Leads(p, <<measure>>, open, open)
  <2>1. Owning(F, BOOLEAN, {TRUE}) \subseteq open /\ Owning(F, {FALSE}, {FALSE}) \subseteq open
    BY OwningMore
  <2>2. Leads(p, <<>>, Owning(F, {FALSE}, {FALSE}), open)
    BY <2>1, Nothing
  <2>3. QED
    BY <2>1, <2>2, Measures
<1>5. Leads(p, <<Free("file")>>, open, Anything)
  <2>1. \A h \in F : "file" \in h /\ h \ {"file"} \in {{}}
    OBVIOUS
  <2>2. QED
    BY <2>1, Frees DEF Anything
<1>6. Leads(p, <<measure, buffer, Free("file")>>, open, Anything)
  BY <1>3, <1>4, <1>5, First2, First3
<1>7. Leads(p, <<file>>, Anything, Anything)
  <2>1. \A h \in {{}} : "file" \notin h /\ h \cup {"file"} \in F
    OBVIOUS
  <2>2. Leads(p, <<>>, Anything, Anything)
    BY Nothing
  <2>3. QED
    BY <1>6, <2>1, <2>2, Tries DEF Anything
<1>8. Leads(p, <<Any(<<file>>)>>, Anything, Anything)
  BY <1>7, Anys
<1>9. Leads(p, <<Exit(0)>>, Anything, {})
  BY Ends DEF Anything
<1>10. QED
  BY <1>8, <1>9, First2 DEF Standalone

LEMMA GivenHas ==
  /\ \A h \in Given : "buffer" \in h
  /\ \A x : x \notin {"file", "buffer"} => \A h \in Given : x \notin h
BY DEF Given

LEMMA PlusHas ==
  ASSUME NEW H, NEW x, NEW y
  PROVE  /\ (\A h \in H : y \in h) => \A h \in Plus(H, x) : y \in h
         /\ y # x => ((\A h \in H : y \notin h) => \A h \in Plus(H, x) : y \notin h)
BY DEF Plus

LEMMA UsesBuffer ==
  ASSUME NEW p, NEW H, \A h \in H : "buffer" \in h
  PROVE  Leads(p, <<Use("buffer")>>, Whole(H), Whole(H))
BY Uses DEF Whole

(* What is tried is released at once, or after it was used. *)
LEMMA TriesAndFrees ==
  ASSUME NEW p, NEW x, NEW H, \A h \in H : x \notin h
  PROVE  Leads(p, <<Try(x, <<Free(x)>>, <<>>)>>, Whole(H), Whole(H))
BY FreesIt, TriesFor DEF Whole

LEMMA TriesUsesFrees ==
  ASSUME NEW p, NEW x, x # "buffer", NEW H, \A h \in H : x \notin h
  PROVE  Leads(p, <<Try(x, <<Use(x), Free(x)>>, <<>>)>>, Whole(H), Whole(H))
<1>1. Leads(p, <<Use(x), Free(x)>>, Owning(Plus(H, x), {TRUE}, BOOLEAN), Owning(H, {TRUE}, BOOLEAN))
  BY UsesIt, FreesIt, First2
<1>2. QED
  BY <1>1, TriesFor DEF Whole

(* A loop that uses what was tried, and the buffer. *)
LEMMA TriesLoopsFrees ==
  ASSUME NEW p, NEW x, x \notin {"file", "buffer"}
  PROVE  Leads(p, <<Try(x, <<Any(<<Use("buffer"), Use(x)>>), Free(x)>>, <<>>)>>,
               Whole(Given), Whole(Given))
<1> DEFINE G == Plus(Given, x)
<1>1. Leads(p, <<Use("buffer")>>, Whole(G), Whole(G))
  BY GivenHas, PlusHas, UsesBuffer
<1>2. Leads(p, <<Use(x)>>, Whole(G), Whole(G))
  BY UsesIt DEF Whole
<1>3. Leads(p, <<Any(<<Use("buffer"), Use(x)>>)>>, Whole(G), Whole(G))
  BY <1>1, <1>2, First2, Anys
<1>4. \A h \in Given : x \notin h
  BY GivenHas
<1>5. Leads(p, <<Free(x)>>, Whole(G), Whole(Given))
  BY <1>4, FreesIt DEF Whole
<1>6. Leads(p, <<Any(<<Use("buffer"), Use(x)>>), Free(x)>>, Whole(G), Whole(Given))
  BY <1>3, <1>5, First2
<1>7. QED
  BY <1>4, <1>6, TriesFor DEF Whole

(* A program that starts with nothing and exits safely. *)
Sound(p, q) == Leads(p, q, Anything, {})

(* The fuzz targets, one by one. *)
LEMMA OnceEnds ==
  ASSUME NEW p, p \notin Tools, NEW x, x \notin {"file", "buffer"}
  PROVE  Sound(p, Once(x))
<1>1. Leads(p, <<Use("buffer")>>, Whole(Given), Whole(Given))
  BY GivenHas, UsesBuffer
<1>2. Leads(p, <<Try(x, <<Free(x)>>, <<>>)>>, Whole(Given), Whole(Given))
  BY GivenHas, TriesAndFrees
<1>3. QED
  BY <1>1, <1>2, First2, StandaloneEnds DEF Once, Sound

LEMMA OnceFuzzersEnd ==
  ASSUME NEW p, p \notin Tools
  PROVE  /\ Sound(p, DeltaCodecFuzzer) /\ Sound(p, RleCodecFuzzer)
         /\ Sound(p, FieldDecoderFuzzer) /\ Sound(p, JournalFuzzer)
         /\ Sound(p, TelemetryFuzzer) /\ Sound(p, TransportFuzzer)
BY OnceEnds
   DEF DeltaCodecFuzzer, RleCodecFuzzer, FieldDecoderFuzzer, JournalFuzzer, TelemetryFuzzer,
       TransportFuzzer

LEMMA ReplayFuzzerEnds ==
  ASSUME NEW p, p \notin Tools
  PROVE  Sound(p, ReplayFuzzer)
BY GivenHas, UsesBuffer, StandaloneEnds DEF ReplayFuzzer, Sound

LEMMA FrameReaderFuzzerEnds ==
  ASSUME NEW p, p \notin Tools
  PROVE  Sound(p, FrameReaderFuzzer)
<1>1. Leads(p, <<Use("buffer")>>, Whole(Given), Whole(Given))
  BY GivenHas, UsesBuffer
<1>2. Leads(p, <<Try("message", <<Use("message"), Free("message")>>, <<>>)>>, Whole(Given), Whole(Given))
  BY GivenHas, TriesUsesFrees
<1>3. QED
  BY <1>1, <1>2, First2, StandaloneEnds DEF FrameReaderFuzzer, Sound

LEMMA PipelineFuzzerEnds ==
  ASSUME NEW p, p \notin Tools
  PROVE  Sound(p, PipelineFuzzer)
<1> DEFINE G == Plus(Given, "message")
           map == Try("map", <<Free("map")>>, <<>>)
<1>1. \A h \in Given : "message" \notin h /\ "map" \notin h
  BY GivenHas
<1>2. Leads(p, <<map>>, Whole(G), Whole(G))
  <2>1. \A h \in G : "map" \notin h
    BY <1>1, PlusHas
  <2>2. QED
    BY <2>1, TriesAndFrees
<1>3. Leads(p, <<Use("message")>>, Whole(G), Whole(G))
  BY UsesIt DEF Whole
<1>4. Leads(p, <<Any(<<Use("message"), map>>)>>, Whole(G), Whole(G))
  BY <1>2, <1>3, First2, Anys
<1>5. Leads(p, <<Free("message")>>, Whole(G), Whole(Given))
  BY <1>1, FreesIt DEF Whole
<1>6. Leads(p, <<Any(<<Use("message"), map>>), Free("message")>>, Whole(G), Whole(Given))
  BY <1>4, <1>5, First2
<1>7. Leads(p, <<Try("message", <<Any(<<Use("message"), map>>), Free("message")>>, <<>>)>>,
            Whole(Given), Whole(Given))
  BY <1>1, <1>6, TriesFor DEF Whole
<1>8. Leads(p, <<Use("buffer")>>, Whole(Given), Whole(Given))
  BY GivenHas, UsesBuffer
<1>9. QED
  BY <1>7, <1>8, First2, StandaloneEnds DEF PipelineFuzzer, Sound

(* A table may own an array. *)
With(x) == Given \cup Plus(Given, x)

LEMMA Tables ==
  ASSUME NEW p, NEW x, x \notin {"file", "buffer"}
  PROVE  /\ \A h \in With(x) : "buffer" \in h
         /\ Leads(p, <<Grow(x)>>, Whole(Given), Whole(With(x)))
         /\ Leads(p, <<Grow(x)>>, Whole(With(x)), Whole(With(x)))
         /\ Leads(p, <<Drop(x)>>, Whole(With(x)), Whole(Given))
<1>1. \A h \in Given : x \notin h
  BY GivenHas
<1>2. /\ \A h \in Given : h \in With(x) /\ h \cup {x} \in With(x)
      /\ \A h \in With(x) : h \in With(x) /\ h \cup {x} \in With(x) /\ h \ {x} \in Given
  <2>1. ASSUME NEW h \in Given
        PROVE  /\ h \in With(x) /\ h \cup {x} \in With(x)
               /\ (h \cup {x}) \cup {x} = h \cup {x}
               /\ h \ {x} = h /\ (h \cup {x}) \ {x} = h
    BY <1>1 DEF With, Plus
  <2>2. ASSUME NEW h \in With(x)
        PROVE  h \cup {x} \in With(x) /\ h \ {x} \in Given
    <3>1. CASE h \in Given
      BY <2>1, <3>1
    <3>2. CASE h \in Plus(Given, x)
      <4>1. PICK g \in Given : h = g \cup {x}
        BY <3>2 DEF Plus
      <4>2. QED
        BY <2>1, <4>1
    <3>3. QED
      BY <3>1, <3>2 DEF With
  <2>3. QED
    BY <2>1, <2>2
<1>3. \A h \in With(x) : "buffer" \in h
  BY GivenHas, PlusHas DEF With
<1>4. QED
  BY <1>2, <1>3, Grows, Drops DEF Whole

LEMMA CheckpointFuzzerEnds ==
  ASSUME NEW p, p \notin Tools
  PROVE  Sound(p, CheckpointFuzzer)
<1> DEFINE G == With("store")
<1>1. Leads(p, <<Use("buffer")>>, Whole(Given), Whole(Given))
  BY GivenHas, UsesBuffer
<1>2. Leads(p, <<Use("buffer"), Grow("store"), Grow("store")>>, Whole(Given), Whole(G))
  BY <1>1, Tables, First2, First3
<1>3. Leads(p, <<>>, Whole(Given), Whole(G))
  <2>1. Whole(Given) \subseteq Whole(G)
    BY OwningMore DEF Whole, With
  <2>2. QED
    BY <2>1, Nothing
<1>4. Leads(p, <<One(<<Use("buffer"), Grow("store"), Grow("store")>>, <<>>)>>, Whole(Given), Whole(G))
  BY <1>2, <1>3, Ones
<1>5. QED
  BY <1>4, Tables, First2, StandaloneEnds DEF CheckpointFuzzer, Sound

LEMMA HistogramFuzzerEnds ==
  ASSUME NEW p, p \notin Tools
  PROVE  Sound(p, HistogramFuzzer)
<1>1. Leads(p, <<Use("buffer")>>, Whole(Given), Whole(Given))
  BY GivenHas, UsesBuffer
<1>2. Leads(p, <<>>, Whole(Given), Whole(Given))
  BY Nothing
<1>3. Leads(p, <<One(<<Use("buffer")>>, <<>>)>>, Whole(Given), Whole(Given))
  BY <1>1, <1>2, Ones
<1>4. QED
  BY <1>3, TriesLoopsFrees, First2, StandaloneEnds DEF HistogramFuzzer, Sound

LEMMA RingFuzzerEnds ==
  ASSUME NEW p, p \notin Tools
  PROVE  Sound(p, RingFuzzer)
BY TriesLoopsFrees, StandaloneEnds DEF RingFuzzer, Sound

(* The rule's text, which the buffer is copied to. *)
LEMMA Copies ==
  ASSUME NEW p
  PROVE  /\ Leads(p, <<Use("buffer")>>, Whole(Plus(Given, "text")), Whole(Plus(Given, "text")))
         /\ Leads(p, <<Use("text")>>, Whole(Plus(Given, "text")), Whole(Plus(Given, "text")))
         /\ Leads(p, <<Free("text")>>, Whole(Plus(Given, "text")), Whole(Given))
         /\ \A h \in Given : "text" \notin h
<1>1. \A h \in Given : "text" \notin h
  BY GivenHas
<1>2. Leads(p, <<Use("buffer")>>, Whole(Plus(Given, "text")), Whole(Plus(Given, "text")))
  BY GivenHas, PlusHas, UsesBuffer
<1>3. QED
  BY <1>1, <1>2, UsesIt, FreesIt DEF Whole

LEMMA RuleParserFuzzerEnds ==
  ASSUME NEW p, p \notin Tools
  PROVE  Sound(p, RuleParserFuzzer)
<1>1. Leads(p, <<Use("buffer"), Use("text"), Free("text")>>, Whole(Plus(Given, "text")), Whole(Given))
  BY Copies, First2, First3
<1>2. Leads(p, <<Try("text", <<Use("buffer"), Use("text"), Free("text")>>, <<>>)>>,
            Whole(Given), Whole(Given))
  BY <1>1, Copies, TriesFor DEF Whole
<1>3. QED
  BY <1>2, StandaloneEnds DEF RuleParserFuzzer, Sound

LEMMA RouteVMFuzzerEnds ==
  ASSUME NEW p, p \notin Tools
  PROVE  Sound(p, RouteVMFuzzer)
<1> DEFINE G == Plus(Given, "text")
           compile == Try("code", <<Use("code"), Free("code")>>, <<>>)
<1>1. Leads(p, <<compile>>, Whole(G), Whole(G))
  <2>1. \A h \in G : "code" \notin h
    BY GivenHas, PlusHas
  <2>2. QED
    BY <2>1, TriesUsesFrees
<1>2. Leads(p, <<compile, Free("text")>>, Whole(G), Whole(Given))
  BY <1>1, Copies, First2
<1>3. Leads(p, <<Use("text"), compile, Free("text")>>, Whole(G), Whole(Given))
  BY <1>2, Copies, First3
<1>4. Leads(p, <<Use("buffer"), Use("text"), compile, Free("text")>>, Whole(G), Whole(Given))
  BY <1>3, Copies, First4
<1>5. Leads(p, <<Try("text", <<Use("buffer"), Use("text"), compile, Free("text")>>, <<>>)>>,
            Whole(Given), Whole(Given))
  BY <1>4, Copies, TriesFor DEF Whole
<1>6. QED
  BY <1>5, StandaloneEnds DEF RouteVMFuzzer, Sound

LEMMA MatchTableFuzzerEnds ==
  ASSUME NEW p, p \notin Tools
  PROVE  Sound(p, MatchTableFuzzer)
<1> DEFINE G == With("table")
           GC == Plus(G, "code")
           compile == Try("code", <<Grow("table"), Use("code"), Free("code")>>, <<>>)
<1>1. \A h \in G : "code" \notin h
  <2>1. \A h \in Given : "code" \notin h
    BY GivenHas
  <2>2. QED
    BY <2>1, PlusHas DEF With
<1>2. Leads(p, <<Grow("table")>>, Whole(GC), Whole(GC))
  <2>1. ASSUME NEW h \in GC
        PROVE  h \in GC /\ h \cup {"table"} \in GC
    <3>1. PICK g \in G : h = g \cup {"code"}
      BY DEF Plus
    <3>2. g \cup {"table"} \in G
      <4>1. CASE g \in Given
        BY <4>1 DEF With, Plus
      <4>2. CASE g \in Plus(Given, "table")
        <5>1. g \cup {"table"} = g
          BY <4>2 DEF Plus
        <5>2. QED
          BY <5>1
      <4>3. QED
        BY <4>1, <4>2 DEF With
    <3>3. h \cup {"table"} = (g \cup {"table"}) \cup {"code"}
      BY <3>1
    <3>4. QED
      BY <3>2, <3>3 DEF Plus
  <2>2. QED
    BY <2>1, Grows DEF Whole
<1>3. Leads(p, <<Use("code")>>, Whole(GC), Whole(GC)) /\ Leads(p, <<Free("code")>>, Whole(GC), Whole(G))
  BY <1>1, UsesIt, FreesIt DEF Whole
<1>4. Leads(p, <<Grow("table"), Use("code"), Free("code")>>, Whole(GC), Whole(G))
  BY <1>2, <1>3, First2, First3
<1>5. Leads(p, <<compile>>, Whole(G), Whole(G))
  BY <1>1, <1>4, TriesFor DEF Whole
<1>6. Leads(p, <<Use("buffer")>>, Whole(G), Whole(G))
  BY Tables, UsesBuffer
<1>7. Leads(p, <<Any(<<Use("buffer"), compile>>)>>, Whole(G), Whole(G))
  BY <1>5, <1>6, First2, Anys
<1>8. Leads(p, <<Any(<<Use("buffer"), compile>>)>>, Whole(Given), Whole(G))
  <2>1. Whole(Given) \subseteq Whole(G) /\ Whole(G) \subseteq Whole(G)
    BY OwningMore DEF Whole, With
  <2>2. QED
    BY <1>7, <2>1, Weaker
<1>9. Leads(p, <<Any(<<Use("buffer"), compile>>), Drop("table")>>, Whole(Given), Whole(Given))
  BY <1>8, Tables, First2
<1>10. Leads(p, <<One(<<Any(<<Use("buffer"), compile>>), Drop("table")>>, <<>>)>>, Whole(Given), Whole(Given))
  <2>1. Leads(p, <<>>, Whole(Given), Whole(Given))
    BY Nothing
  <2>2. QED
    BY <1>9, <2>1, Ones
<1>11. QED
  BY <1>10, StandaloneEnds DEF MatchTableFuzzer, Sound

-----------------------------------------------------------------------------
(* The tools, once they have read the file, which they could measure. *)
ReadWhole(H) == Owning(H, {TRUE}, {TRUE})

LEMMA ParseToolEnds ==
  ASSUME NEW p
  PROVE  Sound(p, ParseTool)
<1> DEFINE H == {{"buffer"}}
           G == Plus(H, "message")
           leave(n) == <<Free("buffer"), Exit(n)>>
<1>1. Leads(p, leave(0), ReadWhole(H), {}) /\ Leads(p, leave(1), ReadWhole(H), {})
  <2>1. 0 # -1 /\ 1 # -1
    OBVIOUS
  <2>2. QED
    BY <2>1, FreesAndEnds DEF ReadWhole
<1>2. \A h \in H : "message" \notin h
  OBVIOUS
<1>3. Leads(p, <<Any(<<Use("message")>>)>>, ReadWhole(G), ReadWhole(G))
  BY UsesIt, Anys DEF ReadWhole
<1>4. Leads(p, <<Free("message")>>, ReadWhole(G), ReadWhole(H))
  BY <1>2, FreesIt DEF ReadWhole
<1>5. Leads(p, <<Free("message"), Free("buffer"), Exit(0)>>, ReadWhole(G), {})
  BY <1>1, <1>4, First3
<1>6. Leads(p, <<Any(<<Use("message")>>), Free("message"), Free("buffer"), Exit(0)>>, ReadWhole(G), {})
  BY <1>3, <1>5, First4
<1>7. Leads(p, <<Try("message",
                     <<Any(<<Use("message")>>), Free("message"), Free("buffer"), Exit(0)>>,
                     leave(1))>>, ReadWhole(H), {})
  BY <1>1, <1>2, <1>6, TriesIt DEF ReadWhole
<1>8. Leads(p, <<Use("buffer")>>, ReadWhole(H), ReadWhole(H))
  BY Uses DEF ReadWhole
<1>9. QED
  BY <1>7, <1>8, First2, Used DEF ParseTool, ReadWhole, Sound

LEMMA InspectToolEnds ==
  ASSUME NEW p
  PROVE  Sound(p, InspectTool)
<1> DEFINE H == {{"buffer"}}
<1>1. Leads(p, <<Use("buffer")>>, ReadWhole(H), ReadWhole(H))
  BY Uses DEF ReadWhole
<1>2. Leads(p, <<Free("buffer"), Exit(0)>>, ReadWhole(H), {})
  <2>1. 0 # -1
    OBVIOUS
  <2>2. QED
    BY <2>1, FreesAndEnds DEF ReadWhole
<1>3. QED
  BY <1>1, <1>2, First3, Used DEF InspectTool, ReadWhole, Sound

(* A message without frames is not released. *)
LEMMA RouteMainEnds == Sound("ipmb_route", RouteMain)
<1> DEFINE p == "ipmb_route"
           H == {{"buffer"}}
           G == Plus(H, "message")
           GC == Plus(G, "code")
           fail == <<Free("buffer"), Exit(1)>>
           last == <<Free("message"), Free("buffer"), Exit(1)>>
           done == <<Free("message"), Free("buffer"), Exit(0)>>
           one == One(done, <<>>)
           compile == Try("code", <<Use("message"), Use("code"), Free("code"), one>>, <<>>)
           frames == One(<<>>, fail)
<1>1. /\ \A h \in H : "message" \notin h
      /\ \A h \in G : "message" \in h /\ "code" \notin h
      /\ \A h \in GC : "message" \in h
  BY DEF Plus
<1>2. Leads(p, fail, ReadWhole(H), {}) /\ Leads(p, <<Free("buffer"), Exit(0)>>, ReadWhole(H), {})
  <2>1. 0 # -1 /\ 1 # -1
    OBVIOUS
  <2>2. QED
    BY <2>1, FreesAndEnds DEF ReadWhole
<1>3. Leads(p, <<Free("message")>>, ReadWhole(G), ReadWhole(H))
  BY <1>1, FreesIt DEF ReadWhole
<1>4. Leads(p, last, ReadWhole(G), {}) /\ Leads(p, done, ReadWhole(G), {})
  BY <1>2, <1>3, First3
<1>5. Leads(p, <<one>>, ReadWhole(G), ReadWhole(G))
  <2>1. Leads(p, <<>>, ReadWhole(G), ReadWhole(G))
    BY Nothing
  <2>2. Leads(p, done, ReadWhole(G), ReadWhole(G))
    <3>1. {} \subseteq ReadWhole(G) /\ ReadWhole(G) \subseteq ReadWhole(G)
      OBVIOUS
    <3>2. QED
      BY <1>4, <3>1, Weaker
  <2>3. QED
    BY <2>1, <2>2, Ones
<1>6. Leads(p, <<compile>>, ReadWhole(G), ReadWhole(G))
  <2>1. Leads(p, <<Use("message")>>, ReadWhole(GC), ReadWhole(GC))
    BY <1>1, Uses DEF ReadWhole
  <2>2. Leads(p, <<Use("code")>>, ReadWhole(GC), ReadWhole(GC))
    BY UsesIt DEF ReadWhole
  <2>3. Leads(p, <<Free("code")>>, ReadWhole(GC), ReadWhole(G))
    BY <1>1, FreesIt DEF ReadWhole
  <2>4. Leads(p, <<Free("code"), one>>, ReadWhole(GC), ReadWhole(G))
    BY <1>5, <2>3, First2
  <2>5. Leads(p, <<Use("code"), Free("code"), one>>, ReadWhole(GC), ReadWhole(G))
    BY <2>2, <2>4, First3
  <2>6. Leads(p, <<Use("message"), Use("code"), Free("code"), one>>, ReadWhole(GC), ReadWhole(G))
    BY <2>1, <2>5, First4
  <2>7. QED
    BY <1>1, <2>6, TriesFor DEF ReadWhole
<1>7. Leads(p, <<frames>>, ReadWhole(G), ReadWhole(G))
  <2>1. Leads(p, <<>>, ReadWhole(G), ReadWhole(G))
    BY Nothing
  <2>2. Leads(p, <<Free("buffer")>>, ReadWhole(G), ReadWhole({{"message"}}))
    <3>1. \A h \in G : "buffer" \in h /\ h \ {"buffer"} \in {{"message"}}
      <4>1. \A h \in G : h = {"buffer", "message"}
        BY DEF Plus
      <4>2. QED
        BY <4>1
    <3>2. QED
      BY <3>1, Frees DEF ReadWhole
  <2>3. Leads(p, <<Exit(1)>>, ReadWhole({{"message"}}), ReadWhole(G))
    <3>1. \A a \in ReadWhole({{"message"}}) : MayLeave(p, 1, a.held)
      BY DEF ReadWhole, Owning, MayLeave
    <3>2. QED
      BY <3>1, Exits
  <2>4. Leads(p, fail, ReadWhole(G), ReadWhole(G))
    BY <2>2, <2>3, First2
  <2>5. QED
    BY <2>1, <2>4, Ones
<1>8. Leads(p, <<frames, compile, Free("message"), Free("buffer"), Exit(1)>>, ReadWhole(G), {})
  <2>1. Leads(p, <<compile, Free("message"), Free("buffer"), Exit(1)>>, ReadWhole(G), {})
    BY <1>4, <1>6, First4
  <2>2. QED
    BY <1>7, <2>1, First5
<1>9. Leads(p, <<Try("message", <<frames, compile, Free("message"), Free("buffer"), Exit(1)>>, fail)>>,
            ReadWhole(H), {})
  BY <1>1, <1>2, <1>8, TriesIt DEF ReadWhole
<1>10. Leads(p, <<Use("buffer")>>, ReadWhole(H), ReadWhole(H))
  BY Uses DEF ReadWhole
<1>11. QED
  BY <1>9, <1>10, First2, Used DEF RouteMain, ReadWhole, Sound

(* Every program is safe from its first step, owning nothing. *)
LEMMA ProgramsEnd == \A p \in DOMAIN Program : Sound(p, Program[p])
<1>1. /\ Sound("ipmb_parse", Program["ipmb_parse"])
      /\ Sound("ipmb_inspect", Program["ipmb_inspect"])
      /\ Sound("ipmb_route", Program["ipmb_route"])
  BY ParseToolEnds, InspectToolEnds, RouteMainEnds DEF Program
<1>2. /\ Sound("delta", Program["delta"]) /\ Sound("rle", Program["rle"])
      /\ Sound("field_decoder", Program["field_decoder"])
      /\ Sound("journal", Program["journal"])
      /\ Sound("telemetry", Program["telemetry"])
      /\ Sound("transport", Program["transport"])
  BY OnceFuzzersEnd DEF Program, Tools
<1>3. /\ Sound("replay", Program["replay"])
      /\ Sound("frame_reader", Program["frame_reader"])
      /\ Sound("pipeline", Program["pipeline"])
      /\ Sound("checkpoint", Program["checkpoint"])
  BY ReplayFuzzerEnds, FrameReaderFuzzerEnds, PipelineFuzzerEnds, CheckpointFuzzerEnds
     DEF Program, Tools
<1>4. /\ Sound("histogram", Program["histogram"])
      /\ Sound("ring", Program["ring"])
      /\ Sound("rule_parser", Program["rule_parser"])
      /\ Sound("route_vm", Program["route_vm"])
      /\ Sound("match_table", Program["match_table"])
  BY HistogramFuzzerEnds, RingFuzzerEnds, RuleParserFuzzerEnds, RouteVMFuzzerEnds,
     MatchTableFuzzerEnds DEF Program, Tools
<1>5. DOMAIN Program =
        {"ipmb_parse", "ipmb_inspect", "ipmb_route", "delta", "rle", "field_decoder", "journal",
         "telemetry", "transport", "replay", "frame_reader", "pipeline", "checkpoint",
         "histogram", "ring", "rule_parser", "route_vm", "match_table"}
  BY DEF Program
<1>6. QED
  BY <1>1, <1>2, <1>3, <1>4, <1>5

-----------------------------------------------------------------------------

LEMMA Unfold ==
  ASSUME NEW p, NEW s, SafeTo(p, {}, s)
  PROVE  Fine(p, s) /\ \A r \in Succ(s) : SafeTo(p, {}, r)
BY WayIs DEF Closes, SafeTo

(* The invariant, and what it tells. *)
LEMMA DriversInitInv == DriversInit => DriversInv
<1> SUFFICES ASSUME DriversInit PROVE DriversInv
  OBVIOUS
<1>1. Condition \in Anything
  BY DEF DriversInit, Condition, Anything, Owning
<1>2. Leads(program, todo, Anything, {})
  BY ProgramsEnd DEF DriversInit, Sound
<1>3. SafeTo(program, {<<>>} \X {}, <<todo \o <<>>, Condition>>)
  BY <1>1, <1>2, Empty DEF Leads
<1>4. todo \o <<>> = todo
  <2>1. PICK S : todo \in Seq(S)
    BY <1>2 DEF Leads, IsSeq
  <2>2. QED
    BY <2>1
<1>5. {<<>>} \X {} = {}
  OBVIOUS
<1>6. SafeTo(program, {}, <<todo, Condition>>)
  BY <1>3, <1>4, <1>5
<1>7. QED
  BY <1>6 DEF DriversInit, DriversInv, Room

(* A step does what the instruction does. *)
LEMMA StepIsSucc ==
  ASSUME NEW d \in Does(Now, Condition), Go(d[1]), Condition' = d[2]
  PROVE  <<todo', Condition'>> \in Succ(<<todo, Condition>>)
BY DEF Succ, Go, Now

LEMMA StepsAreSucc ==
  ASSUME Call \/ Access \/ Fill \/ Release \/ Branch \/ Turn \/ MeasureFile \/ ReadBuffer,
         measured \in Nat \cup {-1}, arrived \in Nat
  PROVE  <<todo', Condition'>> \in Succ(<<todo, Condition>>)
<1> DEFINE i == Now
           c == Condition
           on == <<todo', Condition'>> \in Succ(<<todo, Condition>>)
<1>0. /\ UNCHANGED <<held, measured, arrived>> => Condition' = c
      /\ UNCHANGED <<measured, arrived>> => Condition' = [c EXCEPT !.held = held']
      /\ c.held = held
  BY DEF Condition
<1>1. CASE Call
  <2>1. i.do = "try" /\ Does(i, c) = {<<i.yes, [c EXCEPT !.held = held \cup {i.what}]>>, <<i.no, c>>}
    BY <1>0, <1>1 DEF Call, Doing, Does, Now
  <2>2. CASE Go(i.yes) /\ held' = held \cup {i.what}
    <3>1. Condition' = [c EXCEPT !.held = held \cup {i.what}]
      BY <1>0, <1>1, <2>2 DEF Call
    <3>2. PICK d \in Does(i, c) : d = <<i.yes, Condition'>>
      BY <2>1, <3>1
    <3>3. QED
      BY <2>2, <3>2, StepIsSucc
  <2>3. CASE Go(i.no) /\ UNCHANGED held
    <3>1. Condition' = c
      BY <1>0, <1>1, <2>3 DEF Call
    <3>2. PICK d \in Does(i, c) : d = <<i.no, Condition'>>
      BY <2>1, <3>1
    <3>3. QED
      BY <2>3, <3>2, StepIsSucc
  <2>4. QED
    BY <1>1, <2>2, <2>3 DEF Call
<1>2. CASE Access
  <2>1. i.do = "use" /\ Does(i, c) = {<< <<>>, c>>} /\ Go(<<>>) /\ Condition' = c
    BY <1>0, <1>2 DEF Access, Doing, Does, Now
  <2>2. PICK d \in Does(i, c) : d = << <<>>, Condition'>>
    BY <2>1
  <2>3. QED
    BY <2>1, <2>2, StepIsSucc
<1>3. CASE Fill
  <2>1. /\ i.do = "grow" /\ Go(<<>>)
        /\ Does(i, c) = {<< <<>>, c>>, << <<>>, [c EXCEPT !.held = held \cup {i.what}]>>}
    BY <1>0, <1>3 DEF Fill, Doing, Does, Now
  <2>2. Condition' = c \/ Condition' = [c EXCEPT !.held = held \cup {i.what}]
    BY <1>0, <1>3 DEF Fill
  <2>3. PICK d \in Does(i, c) : d = << <<>>, Condition'>>
    BY <2>1, <2>2
  <2>4. QED
    BY <2>1, <2>3, StepIsSucc
<1>4. CASE Release
  <2>1. /\ i.do \in {"free", "drop"} /\ Go(<<>>)
        /\ Does(i, c) = {<< <<>>, [c EXCEPT !.held = held \ {i.what}]>>}
    BY <1>0, <1>4 DEF Release, Doing, Does, Now
  <2>2. Condition' = [c EXCEPT !.held = held \ {i.what}]
    BY <1>0, <1>4 DEF Release
  <2>3. PICK d \in Does(i, c) : d = << <<>>, Condition'>>
    BY <2>1, <2>2
  <2>4. QED
    BY <2>1, <2>3, StepIsSucc
<1>5. CASE Branch
  <2>1. i.do = "one" /\ Does(i, c) = {<<i.yes, c>>, <<i.no, c>>} /\ Condition' = c
    BY <1>0, <1>5 DEF Branch, Doing, Does, Now
  <2>2. ASSUME NEW q, q = i.yes \/ q = i.no, Go(q)
        PROVE  on
    <3>1. PICK d \in Does(i, c) : d = <<q, Condition'>>
      BY <2>1, <2>2
    <3>2. QED
      BY <2>2, <3>1, StepIsSucc
  <2>3. QED
    BY <1>5, <2>2 DEF Branch
<1>6. CASE Turn
  <2>1. i.do = "any" /\ Does(i, c) = {<< <<>>, c>>, <<Append(i.body, i), c>>} /\ Condition' = c
    BY <1>0, <1>6 DEF Turn, Doing, Does, Now
  <2>2. ASSUME NEW q, q = <<>> \/ q = Append(i.body, i), Go(q)
        PROVE  on
    <3>1. PICK d \in Does(i, c) : d = <<q, Condition'>>
      BY <2>1, <2>2
    <3>2. QED
      BY <2>2, <3>1, StepIsSucc
  <2>3. QED
    BY <1>6, <2>2 DEF Turn
<1>7. CASE MeasureFile
  <2> DEFINE Seen(w) == [held |-> held, whole |-> w, seen |-> TRUE]
             blind == [held |-> held, whole |-> FALSE, seen |-> FALSE]
  <2>1. /\ i.do = "measure"
        /\ Does(i, c) = {<< <<>>, Seen(w)>> : w \in BOOLEAN} \cup {<<i.fails, blind>>}
    BY <1>0, <1>7 DEF MeasureFile, Doing, Does, Now
  <2>2. CASE measured' \in FileSize /\ Go(<<>>)
    <3>1. measured' # -1
      BY <2>2, DriversAssumption
    <3>2. PICK w \in BOOLEAN : w = (arrived' = measured')
      OBVIOUS
    <3>3. Condition' = Seen(w)
      BY <1>7, <3>1, <3>2 DEF Condition, MeasureFile
    <3>4. PICK d \in Does(i, c) : d = << <<>>, Condition'>>
      BY <2>1, <3>3
    <3>5. QED
      BY <2>2, <3>4, StepIsSucc
  <2>3. CASE measured' = -1 /\ Go(i.fails)
    <3>1. Condition' = blind
      <4>1. UNCHANGED held /\ arrived' = 0 /\ measured' = -1
        BY <1>7, <2>3 DEF MeasureFile
      <4>2. (arrived' = measured') = FALSE /\ (measured' # -1) = FALSE
        BY <4>1
      <4>3. QED
        BY <4>1, <4>2 DEF Condition
    <3>2. PICK d \in Does(i, c) : d = <<i.fails, Condition'>>
      BY <2>1, <3>1
    <3>3. QED
      BY <2>3, <3>2, StepIsSucc
  <2>4. QED
    BY <1>7, <2>2, <2>3 DEF MeasureFile
<1>8. CASE ReadBuffer
  <2>1. /\ i.do = "read"
        /\ Does(i, c) = {<<i.yes, [held |-> c.held, whole |-> TRUE, seen |-> c.seen]>>,
                         <<i.no, [held |-> c.held, whole |-> FALSE, seen |-> c.seen]>>}
    BY <1>8 DEF ReadBuffer, Doing, Does, Now
  <2>2. CASE arrived' = measured
    <3>1. Condition' = [held |-> c.held, whole |-> TRUE, seen |-> c.seen]
      <4>1. UNCHANGED <<held, measured>> /\ (arrived' = measured') = TRUE
        BY <1>8, <2>2 DEF ReadBuffer
      <4>2. PICK w \in BOOLEAN, g \in BOOLEAN : w = (arrived = measured) /\ g = (measured # -1)
        OBVIOUS
      <4>3. c = [held |-> held, whole |-> w, seen |-> g]
        BY <4>2 DEF Condition
      <4>4. Condition' = [held |-> held, whole |-> TRUE, seen |-> g]
        BY <4>1, <4>2 DEF Condition
      <4>5. QED
        BY <4>3, <4>4
    <3>4. Go(i.yes)
      BY <1>8, <2>2 DEF ReadBuffer
    <3>2. PICK d \in Does(i, c) : d = <<i.yes, Condition'>>
      BY <2>1, <3>1
    <3>3. QED
      BY <3>2, <3>4, StepIsSucc
  <2>3. CASE arrived' # measured
    <3>1. Condition' = [held |-> c.held, whole |-> FALSE, seen |-> c.seen]
      <4>1. UNCHANGED <<held, measured>> /\ (arrived' = measured') = FALSE
        BY <1>8, <2>3 DEF ReadBuffer
      <4>2. PICK w \in BOOLEAN, g \in BOOLEAN : w = (arrived = measured) /\ g = (measured # -1)
        OBVIOUS
      <4>3. c = [held |-> held, whole |-> w, seen |-> g]
        BY <4>2 DEF Condition
      <4>4. Condition' = [held |-> held, whole |-> FALSE, seen |-> g]
        BY <4>1, <4>2 DEF Condition
      <4>5. QED
        BY <4>3, <4>4
    <3>4. Go(i.no)
      BY <1>8, <2>3 DEF ReadBuffer
    <3>2. PICK d \in Does(i, c) : d = <<i.no, Condition'>>
      BY <2>1, <3>1
    <3>3. QED
      BY <3>2, <3>4, StepIsSucc
  <2>4. QED
    BY <2>2, <2>3
<1>9. QED
  BY <1>1, <1>2, <1>3, <1>4, <1>5, <1>6, <1>7, <1>8

LEMMA DriversNextInv == DriversInv /\ [DriversNext]_driverVars => DriversInv'
<1> SUFFICES ASSUME DriversInv, [DriversNext]_driverVars PROVE DriversInv'
  OBVIOUS
<1>1. measured \in Nat \cup {-1} /\ arrived \in Nat
  BY DEF DriversInv
<1>2. CASE UNCHANGED driverVars
  <2>1. UNCHANGED <<program, todo, held, measured, arrived, exit>>
    BY <1>2 DEF driverVars
  <2>2. Condition' = Condition
    BY <2>1 DEF Condition
  <2>3. exit = -1 => SafeTo(program', {}, <<todo', Condition'>>)
    BY <2>1, <2>2 DEF DriversInv
  <2>4. (exit = -1 => SafeTo(program, {}, <<todo, Condition>>))'
    BY <2>1, <2>3 DEF SafeTo, Closes, Fine, Succ, FineAt, Does, MayLeave
  <2>5. (exit # -1 => todo = <<>> /\ MayLeave(program, exit, held))'
    BY <2>1 DEF DriversInv, MayLeave
  <2>6. (/\ measured \in Nat \cup {-1} /\ arrived \in Nat
         /\ arrived <= Room \/ (measured = -1 /\ program \notin Tools))'
    BY <2>1 DEF DriversInv, Room
  <2>7. QED
    BY <2>4, <2>5, <2>6 DEF DriversInv
<1>3. ASSUME Doing("read") \/ Doing("exit") \/ todo # <<>>
      PROVE  exit = -1 /\ FineAt(program, Now, Condition)
             /\ \A r \in Succ(<<todo, Condition>>) : SafeTo(program, {}, r)
  <2>1. todo # <<>>
    BY <1>3 DEF Doing
  <2>2. exit = -1
    BY <2>1 DEF DriversInv
  <2>3. SafeTo(program, {}, <<todo, Condition>>)
    BY <2>2 DEF DriversInv
  <2>4. QED
    BY <2>2, <2>3, Unfold DEF Fine, Now
<1>4. ASSUME Call \/ Access \/ Fill \/ Release \/ Branch \/ Turn \/ MeasureFile \/ ReadBuffer,
             UNCHANGED program
      PROVE  DriversInv'
  <2>1. todo # <<>> /\ UNCHANGED exit
    BY <1>4 DEF Call, Access, Fill, Release, Branch, Turn, MeasureFile, ReadBuffer, Doing
  <2>2. exit = -1
    BY <1>3, <2>1
  <2>3. SafeTo(program, {}, <<todo', Condition'>>)
    <3>1. <<todo', Condition'>> \in Succ(<<todo, Condition>>)
      BY <1>1, <1>4, StepsAreSucc
    <3>2. QED
      BY <1>3, <2>1, <3>1
  <2>4. /\ measured' \in Nat \cup {-1} /\ arrived' \in Nat
        /\ arrived' <= Room' \/ (measured' = -1 /\ program' \notin Tools)
    <3>1. CASE UNCHANGED <<measured, arrived>>
      BY <1>1, <1>4, <3>1 DEF DriversInv, Room
    <3>2. CASE MeasureFile
      <4>1. arrived' = 0 /\ (measured' \in FileSize \/ measured' = -1)
        BY <3>2 DEF MeasureFile
      <4>2. measured' \in Nat \cup {-1}
        BY <4>1, DriversAssumption
      <4>3. Room' = IF measured' > 0 THEN measured' ELSE 1
        BY DEF Room
      <4>4. QED
        BY <4>1, <4>2, <4>3
    <3>3. CASE ReadBuffer
      <4>1. Condition.seen = TRUE \/ program \notin Tools
        BY <1>3, <2>1, <3>3 DEF ReadBuffer, FineAt, Doing, Now
      <4>2. measured # -1 \/ program \notin Tools
        BY <4>1 DEF Condition
      <4>3. PICK n \in FileSize : arrived' = Delivered(n)
        BY <3>3 DEF ReadBuffer
      <4>4. n \in Nat /\ measured' = measured /\ program' = program
        BY <1>4, <3>3, DriversAssumption DEF ReadBuffer
      <4>5. QED
        BY <1>1, <4>2, <4>3, <4>4 DEF Delivered, Room
    <3>4. QED
      BY <1>4, <3>1, <3>2, <3>3 DEF Call, Access, Fill, Release, Branch, Turn
  <2>5. SafeTo(program, {}, <<todo, Condition>>)'
    BY <1>4, <2>3
  <2>6. QED
    BY <2>1, <2>2, <2>4, <2>5 DEF DriversInv
<1>5. ASSUME Leave, UNCHANGED program
      PROVE  DriversInv'
  <2>1. todo # <<>> /\ Now.do = "exit"
    BY <1>5 DEF Leave, Doing, Now
  <2>2. Now.status # -1 /\ MayLeave(program, Now.status, held)
    BY <1>3, <2>1 DEF FineAt, Condition
  <2>3. QED
    BY <1>1, <1>5, <2>2 DEF Leave, DriversInv, Room, MayLeave
<1>6. CASE Exited
  BY <1>2, <1>6 DEF Exited
<1>7. QED
  BY <1>2, <1>4, <1>5, <1>6 DEF DriversNext

LEMMA DriversInvTells == DriversInv => OwnsWhatItUses /\ ReadsFit
<1> SUFFICES ASSUME DriversInv PROVE OwnsWhatItUses /\ ReadsFit
  OBVIOUS
<1>1. CASE todo # <<>>
  <2>1. exit = -1 /\ SafeTo(program, {}, <<todo, Condition>>)
    BY <1>1 DEF DriversInv
  <2>2. FineAt(program, Now, Condition)
    BY <2>1, Unfold DEF Fine, Now
  <2>3. OwnsWhatItUses
    BY <2>1, <2>2 DEF OwnsWhatItUses, FineAt, Doing, Now, Condition
  <2>4. Doing("use") /\ Now.what = "buffer" => arrived = measured
    BY <2>2 DEF FineAt, Doing, Now, Condition
  <2>5. QED
    BY <2>3, <2>4 DEF ReadsFit, DriversInv
<1>2. CASE todo = <<>>
  <2>1. \A what : ~Doing(what)
    BY <1>2 DEF Doing
  <2>2. QED
    BY <2>1 DEF OwnsWhatItUses, ReadsFit, DriversInv, MayLeave
<1>3. QED
  BY <1>1, <1>2

(* On every path of every program, whichever calls fail and however its    *)
(* file changes, only what is owned is used and released, and nothing is   *)
(* owned at the end but ipmb-route's message without frames.               *)
THEOREM OwnsWhatItUsesAlways == DriversSpec => []OwnsWhatItUses
<1>1. QED
  BY DriversInitInv, DriversNextInv, DriversInvTells, PTL DEF DriversSpec

(* Whatever the file's lengths when it is measured and read, the buffer    *)
(* holds what is read, but for a stream in the main of a fuzz target, and  *)
(* only whole files are looked at.                                         *)
THEOREM ReadsFitAlways == DriversSpec => []ReadsFit
<1>1. QED
  BY DriversInitInv, DriversNextInv, DriversInvTells, PTL DEF DriversSpec

=============================================================================
