------------------------------ MODULE MCMachine ------------------------------
(***************************************************************************)
(* The machine alone, over bytecode no compiler has looked at: every       *)
(* sequence of up to three of the instructions below behind one of three   *)
(* beginnings, every sequence of up to three that compute with integers    *)
(* and booleans, and every sequence of up to three that move two strings   *)
(* between the stack, a variable and arrays.                               *)
(***************************************************************************)
EXTENDS ValueView, SequencesExt

Instr(op, n) == IF op \in WithOperand THEN <<op, HighByte(n), LowByte(n)>> ELSE <<op>>

Const(i) == Instr(IF i = 2 THEN OP_PUSH_STRING ELSE OP_PUSH, i)

Instrs ==
  {Const(0), Const(2), Instr(OP_PUSH_TRUE, 0), Instr(OP_PUSH_ARRAY, 0), Instr(OP_PUSH_ARRAY, 2),
   Instr(OP_SCONCAT, 0), Instr(OP_ARRLOADIDX, 0), Instr(OP_ARRSTOREIDX, 0),
   Instr(OP_ARRAPPEND, 0), Instr(OP_ISTORE, 0), Instr(OP_ARRLOAD, 0), Instr(OP_IADDSTORE, 1),
   Instr(OP_JMPN, BYTE * BYTE - 2), <<255>>}

Beginnings ==
  {<<>>,
   (* a = [1]; push 0, a, 1 *)
   Const(0) \o Instr(OP_PUSH_ARRAY, 1) \o Instr(OP_ARRSTORE, 0) \o Const(1)
     \o Instr(OP_ARRLOAD, 0) \o Const(0),
   (* push "s", "s", ["s"] *)
   Const(2) \o Const(2) \o Const(2) \o Instr(OP_PUSH_ARRAY, 1)}

Counted1(t) == [text |-> <<t>>, ref_count |-> 1, freed |-> FALSE]

ImageWith(c) ==
  [code |-> c, constants |-> <<IntValue(1), IntValue(0), StringRef(1)>>,
   strs |-> <<Counted1("s")>>, num_locals |-> 2]

(* x = 1; push 1, 0, 1.                                                    *)
Integers3 == Const(0) \o Instr(OP_ISTORE, 1) \o Const(0) \o Const(1) \o Const(0)

Computing ==
  {<<op>> : op \in {OP_IADD, OP_IDIV, OP_ILT, OP_INEG, OP_NOT, OP_BEQ, OP_PUSH_FALSE}}
    \cup {Instr(OP_IMULSTORE, 1), Instr(OP_ILOAD, 1), Instr(OP_JMPT, BYTE * BYTE - 2)}

Int0 == Const(0)
S    == Instr(OP_PUSH_STRING, 1)
T    == Instr(OP_PUSH_STRING, 2)

Moves ==
  {Int0, S, Instr(OP_SCONCAT, 0), Instr(OP_SSTORE, 0), Instr(OP_SLOAD, 0),
   Instr(OP_PUSH_ARRAY, 2), Instr(OP_ARRLOADIDX, 0), Instr(OP_ARRAPPEND, 0)}

BeforeMoves ==
  {<<>>, S \o T,
   (* a = ["s"]; push a, 0, a[0] *)
   S \o Instr(OP_PUSH_ARRAY, 1) \o Instr(OP_ARRSTORE, 1) \o Instr(OP_ARRLOAD, 1) \o Int0
     \o Instr(OP_ARRLOAD, 1) \o Int0 \o Instr(OP_ARRLOADIDX, 0),
   (* x = "s" + "t"; push [x, x], 0 *)
   S \o T \o Instr(OP_SCONCAT, 0) \o Instr(OP_SSTORE, 0) \o Instr(OP_SLOAD, 0)
     \o Instr(OP_SLOAD, 0) \o Instr(OP_PUSH_ARRAY, 2) \o Int0}

TwoStrings(c) ==
  [code |-> c, constants |-> <<IntValue(0), StringRef(1), StringRef(2)>>,
   strs |-> <<Counted1("s"), Counted1("t")>>, num_locals |-> 2]

MachineImages ==
  {ImageWith(b \o FlattenSeq(is)) : b \in Beginnings, is \in SeqOf(Instrs, 3)}
    \cup {ImageWith(Integers3 \o FlattenSeq(is)) : is \in SeqOf(Computing, 3)}
    \cup {TwoStrings(b \o FlattenSeq(is)) : b \in BeforeMoves, is \in SeqOf(Moves, 3)}
=============================================================================
