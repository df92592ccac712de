------------------------------- MODULE RouteVM -------------------------------
(***************************************************************************)
(* The route virtual machine (src/routing/route_vm.c): a loop over the     *)
(* bytes of a rule's code, one action per instruction.                     *)
(*                                                                         *)
(* The loop reads every byte at most once and never one before pc, so the  *)
(* code need not be known in advance: an instruction is the opcode that pc *)
(* points to and the operand behind it, whatever they are.  A module that  *)
(* runs one particular code says which.                                    *)
(*                                                                         *)
(* A value is its int: the flag that says it is a boolean is never read.   *)
(***************************************************************************)
EXTENDS Integers, Sequences

CONSTANTS
  Byte,        \* bytes that code is made of
  Half,        \* half the values of a 32-bit integer (2^31 in the code)
  Literal,     \* the ints that PUSH_INT pushes
  Frames,      \* the frames that are routed
  IntBytes,    \* bytes of an int operand (4 in the code)
  StackSize,   \* values the stack has room for (64 in the code)
  MaxLen       \* bound: bytes of code (IPMB_MAX_RULE_CODE when compiled)

(* The fields of a frame, by their number: type, flags, source, dest,      *)
(* priority, ttl, payload_len.                                             *)
FieldId == 1 .. 7

Word == 2 * Half

Int32 == -Half .. Half - 1

ASSUME VMAssumption ==
  /\ Byte \subseteq Nat
  /\ Half \in Nat \ {0, 1}
  /\ Literal \subseteq Int32
  /\ Frames \subseteq [FieldId -> Nat]
  /\ IntBytes \in Nat \ {0}
  /\ StackSize \in Nat
  /\ MaxLen \in Nat

PUSH_INT == 1
LOAD_FIELD == 3
CMP_EQ == 4
CMP_GT == 5
CMP_LT == 6
RANGE == 7
AND == 8
OR == 9
NOT == 10
FORWARD == 11
TAG == 12
END == 13

Known == {PUSH_INT, LOAD_FIELD, CMP_EQ, CMP_GT, CMP_LT, RANGE, AND, OR, NOT,
          FORWARD, TAG, END}

VARIABLES
  len,       \* bc->len
  frame,     \* the frame
  pc,        \* the next byte, from 0
  stack,     \* stack[0 .. sp - 1]
  matched,   \* *matched
  result,    \* what the call returns, or "running"
  reach      \* auxiliary: one more than the last byte that was read

vmVars == <<len, frame, pc, stack, matched, result, reach>>

TypeOK ==
  /\ len \in 0 .. MaxLen
  /\ frame \in Frames
  /\ pc \in Nat
  /\ stack \in Seq(Int32)
  /\ matched \in BOOLEAN
  /\ result \in {"running", "IPMB_OK", "IPMB_ERR_EVAL"}
  /\ reach \in Nat

VMInit ==
  /\ pc = 0
  /\ stack = <<>>
  /\ matched = FALSE
  /\ result = "running"
  /\ reach = 0

Init ==
  /\ len \in 0 .. MaxLen
  /\ frame \in Frames
  /\ VMInit

-----------------------------------------------------------------------------

Signed(n) == IF n % Word < Half THEN n % Word ELSE (n % Word) - Word

(* load_field: an id that is no field loads 0. *)
Load(id) == IF id \in FieldId THEN Signed(frame[id]) ELSE 0

Truth(b) == IF b THEN 1 ELSE 0

sp == Len(stack)

(* The value n places below the top, from 0. *)
Top(n) == stack[sp - n]

(* The stack without its n uppermost values. *)
Popped(n) == SubSeq(stack, 1, sp - n)

Fails ==
  /\ result' = "IPMB_ERR_EVAL"
  /\ UNCHANGED <<pc, stack, matched>>

(* The instruction at pc is width bytes long, with its operand, and leaves *)
(* values on the stack.                                                    *)
Runs(width, values) ==
  /\ pc' = pc + width
  /\ stack' = values
  /\ UNCHANGED <<matched, result>>

(* Mutant: a full stack is not noticed. *)
NeverFull == FALSE

StackFull == sp >= StackSize

(* An int operand does not fit behind the opcode. *)
NoInt == pc + 1 + IntBytes > len

PushInt(op, v) ==
  /\ op = PUSH_INT
  /\ IF NoInt \/ StackFull
       THEN Fails /\ reach' = pc + 1
       ELSE Runs(1 + IntBytes, Append(stack, v)) /\ reach' = pc + 1 + IntBytes

LoadField(op, id) ==
  /\ op = LOAD_FIELD
  /\ IF pc + 1 >= len \/ StackFull
       THEN Fails /\ reach' = pc + 1
       ELSE Runs(2, Append(stack, Load(id))) /\ reach' = pc + 2

Compared(op) ==
  LET rhs == Top(0)
      lhs == Top(1)
  IN \/ op = CMP_EQ /\ lhs = rhs
     \/ op = CMP_GT /\ lhs > rhs
     \/ op = CMP_LT /\ lhs < rhs

Compare(op) ==
  /\ op \in {CMP_EQ, CMP_GT, CMP_LT}
  /\ IF sp < 2 THEN Fails
     ELSE Runs(1, Append(Popped(2), Truth(Compared(op))))
  /\ reach' = pc + 1

(* RANGE replaces value, low and high by two truths. *)
Range(op) ==
  /\ op = RANGE
  /\ IF sp < 3 \/ StackFull THEN Fails
     ELSE Runs(1, Popped(3) \o <<Truth(Top(2) >= Top(1)), Truth(Top(2) <= Top(0))>>)
  /\ reach' = pc + 1

Connected(op) ==
  \/ op = AND /\ Top(1) # 0 /\ Top(0) # 0
  \/ op = OR /\ (Top(1) # 0 \/ Top(0) # 0)

Connect(op) ==
  /\ op \in {AND, OR}
  /\ IF sp < 2 THEN Fails
     ELSE Runs(1, Append(Popped(2), Truth(Connected(op))))
  /\ reach' = pc + 1

Negate(op) ==
  /\ op = NOT
  /\ IF sp < 1 THEN Fails
     ELSE Runs(1, Append(Popped(1), Truth(Top(0) = 0)))
  /\ reach' = pc + 1

(* Mutant: the length of an operand is a signed byte (of four bits here),  *)
(* and an index below 0 wraps to one past all code.                        *)
SkippedSigned(n) ==
  LET next == pc + 2 + (IF n < 8 THEN n ELSE n - 16)
  IN IF next < 0 THEN MaxLen + 16 ELSE next

(* The byte after an operand of length n, which may be past the code. *)
SkippedTo(n) == pc + 1 + n + 1

SkipOver(op, n) ==
  /\ op \in {FORWARD, TAG}
  /\ IF pc + 1 >= len
       THEN Fails /\ reach' = pc + 1
       ELSE /\ pc' = SkippedTo(n)
            /\ reach' = pc + 2
            /\ UNCHANGED <<stack, matched, result>>

(* Mutant: the answer is the first value that was pushed. *)
EndFirst(op) ==
  /\ op = END
  /\ IF sp = 0 THEN Fails
     ELSE /\ matched' = (stack[1] # 0)
          /\ result' = "IPMB_OK"
          /\ UNCHANGED <<pc, stack>>
  /\ reach' = pc + 1

End(op) ==
  /\ op = END
  /\ IF sp = 0 THEN Fails
     ELSE /\ matched' = (Top(0) # 0)
          /\ result' = "IPMB_OK"
          /\ UNCHANGED <<pc, stack>>
  /\ reach' = pc + 1

BadOpcode(op) ==
  /\ op \notin Known
  /\ Fails
  /\ reach' = pc + 1

(* One turn of the loop: opcode op, with an int v or a byte b behind it.   *)
Execute(op, v, b) ==
  /\ result = "running"
  /\ pc < len
  /\ \/ PushInt(op, v)
     \/ LoadField(op, b)
     \/ Compare(op)
     \/ Range(op)
     \/ Connect(op)
     \/ Negate(op)
     \/ SkipOver(op, b)
     \/ End(op)
     \/ BadOpcode(op)
  /\ UNCHANGED <<len, frame>>

(* The code ends without END. *)
FallOff ==
  /\ result = "running"
  /\ pc >= len
  /\ Fails
  /\ UNCHANGED <<len, frame, reach>>

Returned == result # "running" /\ UNCHANGED vmVars

Next ==
  \/ \E op, b \in Byte, v \in Literal : Execute(op, v, b)
  \/ FallOff
  \/ Returned

Spec == Init /\ [][Next]_vmVars

(* The loop runs by itself: nothing but its own steps keep it from its end. *)
FairSpec == Spec /\ WF_vmVars(Next)

-----------------------------------------------------------------------------

(* Whatever the code, the machine stays inside its stack and reads no byte *)
(* behind the code, although an operand may take pc there.                 *)
StaysInside == sp <= StackSize /\ reach <= len

(* A call that fails has matched nothing, and one that succeeds has read   *)
(* an END within the code with a value on the stack to answer with.        *)
AnswersAtEnd ==
  /\ result # "IPMB_OK" => ~matched
  /\ result = "IPMB_OK" => sp > 0 /\ pc < len /\ reach = pc + 1 /\ (matched <=> Top(0) # 0)

(* Every code, well formed or not, is evaluated in finitely many steps. *)
Terminates == <>(result # "running")

=============================================================================
