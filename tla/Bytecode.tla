------------------------------ MODULE Bytecode ------------------------------
(***************************************************************************)
(* The instruction set of the virtual machine and the two-byte operand     *)
(* encoding the emitter writes and the machine reads.                      *)
(***************************************************************************)
EXTENDS Integers, Sequences

CONSTANT BYTE         \* how many values a byte has: 256, smaller to reach the limits

ASSUME ByteAssumption == BYTE \in Nat \ {0, 1}

-----------------------------------------------------------------------------
OP_PUSH        == 0
OP_PUSH_TRUE   == 1
OP_PUSH_FALSE  == 2
OP_PUSH_ARRAY  == 3
OP_IADD        == 4
OP_IADDSTORE   == 5
OP_ISUB        == 6
OP_ISUBSTORE   == 7
OP_IMUL        == 8
OP_IMULSTORE   == 9
OP_IDIV        == 10
OP_IDIVSTORE   == 11
OP_INEG        == 12
OP_IGT         == 13
OP_IGTE        == 14
OP_ILT         == 15
OP_ILTE        == 16
OP_IEQ         == 17
OP_IMOD        == 18
OP_BEQ         == 19
OP_INEQ        == 20
OP_BNEQ        == 21
OP_ISTORE      == 22
OP_ILOAD       == 23
OP_BSTORE      == 24
OP_BLOAD       == 25
OP_ARRSTORE    == 26
OP_ARRLOAD     == 27
OP_NOT         == 28
OP_JMPN        == 29
OP_JMPT        == 30
OP_JMP         == 31
OP_PUSH_STRING == 32
OP_SCONCAT     == 33
OP_SSTORE      == 34
OP_SLOAD       == 35
OP_ARRLOADIDX  == 36
OP_ARRSTOREIDX == 37
OP_ARRAPPEND   == 38

Opcodes == OP_PUSH .. OP_ARRAPPEND

-----------------------------------------------------------------------------
(* The instructions the machine treats alike.                              *)

IntArith  == {OP_IADD, OP_ISUB, OP_IMUL, OP_IDIV, OP_IMOD}
IntTest   == {OP_IGT, OP_IGTE, OP_ILT, OP_ILTE, OP_IEQ, OP_INEQ}
BoolTest  == {OP_BEQ, OP_BNEQ}
Compound  == {OP_IADDSTORE, OP_ISUBSTORE, OP_IMULSTORE, OP_IDIVSTORE}
Loads     == {OP_ILOAD, OP_BLOAD, OP_SLOAD, OP_ARRLOAD}
Stores    == {OP_ISTORE, OP_BSTORE, OP_SSTORE, OP_ARRSTORE}
CondJumps == {OP_JMPN, OP_JMPT}

WithOperand == {OP_PUSH, OP_PUSH_STRING, OP_PUSH_ARRAY, OP_JMP}
                 \cup Compound \cup Loads \cup Stores \cup CondJumps

OperandBytes(o) == IF o \in WithOperand THEN 2 ELSE 0

-----------------------------------------------------------------------------
(* (n >> 8) & 0xFF and n & 0xFF, and the two ways they are read back.      *)

HighByte(n) == (n \div BYTE) % BYTE
LowByte(n)  == n % BYTE

Unsigned16(hi, lo) == hi * BYTE + lo

Signed16(hi, lo) ==
  LET u == Unsigned16(hi, lo)
  IN  IF 2 * u >= BYTE * BYTE THEN u - BYTE * BYTE ELSE u
=============================================================================
