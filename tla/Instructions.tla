----------------------------- MODULE Instructions -----------------------------
(***************************************************************************)
(* The instruction vm_run fetches, the union members it reads of what it   *)
(* pops, and what it computes of them.                                     *)
(***************************************************************************)
EXTENDS Values, Bytecode

VARIABLES
  code,   \* VM.code, borrowed from the emitter
  pc      \* VM.pc, counted from 0

-----------------------------------------------------------------------------
(* Fetching the instruction at pc.                                         *)

InCode    == pc >= 0 /\ pc < Len(code)
Op        == code[pc + 1]
Fetchable == InCode /\ pc + OperandBytes(Op) < Len(code)
Operand   == Unsigned16(code[pc + 2], code[pc + 3])
Steps     == Signed16(code[pc + 2], code[pc + 3])
Following == pc + 1 + OperandBytes(Op)

(* The union members an instruction reads of the values it pops, the top   *)
(* of the stack first; "any" where it only copies the value.               *)
Needs(o) ==
  CASE o \in IntArith \cup IntTest -> <<"int_val", "int_val">>
    [] o \in BoolTest              -> <<"bool_val", "bool_val">>
    [] o \in Compound \cup {OP_INEG}   -> <<"int_val">>
    [] o \in CondJumps \cup {OP_NOT}   -> <<"bool_val">>
    [] o \in Stores                -> <<"any">>
    [] o = OP_SCONCAT              -> <<"string_val", "string_val">>
    [] o = OP_ARRLOADIDX           -> <<"array_val", "int_val">>
    [] o = OP_ARRSTOREIDX          -> <<"any", "array_val", "int_val">>
    [] o = OP_ARRAPPEND            -> <<"any", "array_val">>
    [] o = OP_PUSH_ARRAY           -> [i \in 1 .. Operand |-> "any"]
    [] OTHER                       -> <<>>

Arity == Len(Needs(Op))

Indexing == {OP_ARRLOADIDX, OP_ARRSTOREIDX}
Slotted  == Loads \cup Stores \cup Compound

(* Which of the popped values is the array of an indexing or an append.    *)
ArrayAt == IF Op = OP_ARRLOADIDX THEN 1 ELSE 2

-----------------------------------------------------------------------------
(* Arithmetic and tests; `a' is the value below `b'.                       *)

Arith(o, a, b) ==
  CASE o \in {OP_IADD, OP_IADDSTORE} -> Wrap(a + b)
    [] o \in {OP_ISUB, OP_ISUBSTORE} -> Wrap(a - b)
    [] o \in {OP_IMUL, OP_IMULSTORE} -> Wrap(a * b)
    [] o \in {OP_IDIV, OP_IDIVSTORE} -> Quotient(a, b)
    [] o = OP_IMOD                   -> Remainder(a, b)

Test(o, a, b) ==
  CASE o = OP_IGT              -> a > b
    [] o = OP_IGTE             -> a >= b
    [] o = OP_ILT              -> a < b
    [] o = OP_ILTE             -> a <= b
    [] o \in {OP_IEQ, OP_BEQ}  -> a = b
    [] o \in {OP_INEQ, OP_BNEQ} -> a # b
=============================================================================
