----------------------------- MODULE ValueMachine -----------------------------
(***************************************************************************)
(* What the virtual machine promises to whoever writes a program: a        *)
(* machine without memory management.  A string is its text, an array a    *)
(* sequence of values behind a name that all its users share, the stack    *)
(* has no capacity, and nothing is ever counted or freed.                  *)
(***************************************************************************)
EXTENDS Instructions

CONSTANT Images       \* what is handed over to be run: code, constants, number of locals

VARIABLES constants, stack, locals, arrs, status

idealvars == <<code, constants, pc, stack, locals, arrs, status>>

(* A value that is not a string, and a string.                             *)
Plain(v) == [type |-> v.type, member |-> v.member, val |-> v.val, text |-> <<>>]
Text(t)  == [type |-> string_type, member |-> "string_val", val |-> 0, text |-> t]

-----------------------------------------------------------------------------
Init ==
  /\ code = <<>> /\ constants = <<>> /\ pc = 0
  /\ stack = <<>> /\ locals = <<>> /\ arrs = <<>>
  /\ status = "idle"

Start ==
  /\ status = "idle" /\ status' = "running"
  /\ \E img \in Images :
       /\ code' = img.code /\ constants' = img.constants
       /\ locals' = [i \in 1 .. img.num_locals |-> Plain(Garbage)]
  /\ UNCHANGED <<pc, stack, arrs>>

-----------------------------------------------------------------------------
(* What an instruction takes from the stack, the variable and the element  *)
(* it names.                                                               *)

Popped(i) == stack[Len(stack) + 1 - i]
Rest      == SubSeq(stack, 1, Len(stack) - Arity)

Local == locals[Operand + 1]
Array == Popped(ArrayAt).val
Index == Popped(ArrayAt + 1).val

Typed ==
  /\ \A i \in 1 .. Arity : Needs(Op)[i] \in {"any", Popped(i).member}
  /\ Op \in Compound => Local.member \in {"int_val", "none"}

(* What can go wrong is what the program itself gets wrong.                *)
Faults ==
  {c \in {"wrong member"} : ~Typed}
    \cup {c \in {"no such constant"} :
            Op \in {OP_PUSH, OP_PUSH_STRING} /\ Operand >= Len(constants)}
    \cup {c \in {"uninitialized local"} : Op \in Loads \cup Compound /\ Local.member = "none"}
    \cup {c \in {"division by zero"} : Op \in {OP_IDIV, OP_IMOD} /\ Typed /\ Popped(1).val = 0}
    \cup {c \in {"divide trap"} :
            \/ Op = OP_IDIVSTORE /\ Typed /\ Popped(1).val = 0
            \/ /\ Op \in {OP_IDIV, OP_IMOD, OP_IDIVSTORE} /\ Typed /\ Popped(1).val = -1
               /\ INT_MIN = IF Op = OP_IDIVSTORE THEN Local.val ELSE Popped(2).val}
    \cup {c \in {"index out of bounds"} : Op \in Indexing /\ Typed /\ Index >= Len(arrs[Array])}
    \cup {c \in {"negative index"}      : Op \in Indexing /\ Typed /\ Index < 0}

Obstacles ==
  IF ~InCode THEN {"bad fetch"}
  ELSE IF Op \notin Opcodes THEN {"unknown opcode"}
  ELSE IF ~Fetchable THEN {"bad fetch"}
  ELSE IF Op \in Stores /\ Operand >= Len(locals) THEN {"invalid slot"}
  ELSE IF Len(stack) < Arity THEN {"stack underflow"}
  ELSE IF Op \in Slotted /\ Operand >= Len(locals) THEN {"invalid slot"}
  ELSE Faults

-----------------------------------------------------------------------------
(* One instruction: it replaces what it pops.                              *)

At(ops) == status = "running" /\ pc < Len(code) /\ InCode /\ Op \in ops /\ Obstacles = {}

Leave(pushed) == stack' = Rest \o pushed /\ UNCHANGED <<code, constants, status>>

Push(v) == Leave(<<v>>) /\ pc' = Following

Constant == At({OP_PUSH, OP_PUSH_STRING}) /\ Push(constants[Operand + 1]) /\ UNCHANGED <<locals, arrs>>

Boolean ==
  At({OP_PUSH_TRUE, OP_PUSH_FALSE}) /\ Push(Plain(BoolValue(Op = OP_PUSH_TRUE)))
  /\ UNCHANGED <<locals, arrs>>

Calculate ==
  At(IntArith) /\ Push(Plain(IntValue(Arith(Op, Popped(2).val, Popped(1).val))))
  /\ UNCHANGED <<locals, arrs>>

Compare ==
  At(IntTest \cup BoolTest) /\ Push(Plain(BoolValue(Test(Op, Popped(2).val, Popped(1).val))))
  /\ UNCHANGED <<locals, arrs>>

Negate == At({OP_INEG}) /\ Push(Plain(IntValue(Wrap(-Popped(1).val)))) /\ UNCHANGED <<locals, arrs>>

Not == At({OP_NOT}) /\ Push(Plain(BoolValue(Popped(1).val = 0))) /\ UNCHANGED <<locals, arrs>>

Join == At({OP_SCONCAT}) /\ Push(Text(Popped(2).text \o Popped(1).text)) /\ UNCHANGED <<locals, arrs>>

Read == At(Loads) /\ Push(Local) /\ UNCHANGED <<locals, arrs>>

Write ==
  /\ At(Stores)
  /\ Leave(<<>>) /\ pc' = Following
  /\ locals' = [locals EXCEPT ![Operand + 1] = Popped(1)] /\ UNCHANGED arrs

Update ==
  /\ At(Compound)
  /\ Leave(<<>>) /\ pc' = Following
  /\ locals' = [locals EXCEPT ![Operand + 1].val = Arith(Op, @, Popped(1).val)] /\ UNCHANGED arrs

Jump ==
  /\ At({OP_JMP} \cup CondJumps)
  /\ Leave(<<>>)
  /\ pc' = IF Op = OP_JMP \/ (Op = OP_JMPN <=> Popped(1).val = 0) THEN Following + Steps
           ELSE Following
  /\ UNCHANGED <<locals, arrs>>

(* The elements of a new array lie on the stack in their order.            *)
Collect ==
  /\ At({OP_PUSH_ARRAY})
  /\ arrs' = Append(arrs, SubSeq(stack, Len(stack) - Operand + 1, Len(stack)))
  /\ Push(Plain(ArrayRef(IF Operand > 0 THEN ArrayOf(Popped(Operand).type) ELSE unknown_type,
                         Len(arrs) + 1)))
  /\ UNCHANGED locals

ReadElement ==
  At({OP_ARRLOADIDX}) /\ Push(arrs[Array][Index + 1]) /\ UNCHANGED <<locals, arrs>>

WriteElement ==
  /\ At({OP_ARRSTOREIDX})
  /\ Leave(<<>>) /\ pc' = Following
  /\ arrs' = [arrs EXCEPT ![Array][Index + 1] = Popped(1)] /\ UNCHANGED locals

AddElement ==
  /\ At({OP_ARRAPPEND})
  /\ Push(Popped(2))
  /\ arrs' = [arrs EXCEPT ![Array] = Append(@, Popped(1))] /\ UNCHANGED locals

(* The program gets to its end, or to an instruction that cannot complete. *)
Stop ==
  /\ status = "running"
  /\ \/ pc >= Len(code) /\ status' = "halted"
     \/ pc < Len(code) /\ \E c \in Obstacles : status' = c
  /\ UNCHANGED <<code, constants, pc, stack, locals, arrs>>

Next ==
  \/ Start \/ Stop
  \/ Constant \/ Boolean \/ Calculate \/ Compare \/ Negate \/ Not \/ Join
  \/ Read \/ Write \/ Update \/ Jump
  \/ Collect \/ ReadElement \/ WriteElement \/ AddElement

Spec == Init /\ [][Next]_idealvars
=============================================================================
