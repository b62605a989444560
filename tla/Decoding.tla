------------------------------- MODULE Decoding -------------------------------
(***************************************************************************)
(* What vm_run takes for granted of the bytes bytecode_gen hands it: it    *)
(* fetches an opcode and its operand from wherever pc points and looks up  *)
(* constants without a test.                                               *)
(***************************************************************************)
EXTENDS VM

JumpCodes == {OP_JMP} \cup CondJumps

(* Where instructions start when code c is read from the front; the end of *)
(* the code is where one would start.                                      *)
Starts(c) ==
  LET from[p \in Nat] ==
        IF p >= Len(c) THEN {p} ELSE {p} \cup from[p + 1 + OperandBytes(c[p + 1])]
  IN  from[0]

(* The instruction at p of an image: there is one, the next starts right   *)
(* behind it, and what its operand names exists.                           *)
DecodesAt(img, p) ==
  LET o     == img.code[p + 1]
      n     == Unsigned16(img.code[p + 2], img.code[p + 3])
      steps == Signed16(img.code[p + 2], img.code[p + 3])
  IN  /\ o \in Opcodes
      /\ p + 1 + OperandBytes(o) \in Starts(img.code)
      /\ o \in {OP_PUSH, OP_PUSH_STRING} => n < Len(img.constants)
      /\ o \in Slotted                   => n < img.num_locals
      /\ o \in JumpCodes                 => p + 3 + steps \in Starts(img.code)

(* An image that can be run from front to back without falling out of it.  *)
Decodes(img) ==
  /\ 0 \in Starts(img.code) /\ Starts(img.code) \subseteq 0 .. Len(img.code)
  /\ \A p \in Starts(img.code) \ {Len(img.code)} : DecodesAt(img, p)

-----------------------------------------------------------------------------
(* Properties.                                                             *)

(* Jumps, patched or backward, always land between two instructions or     *)
(* right behind the last one.                                              *)
JumpsLandOnInstructions == status = "running" => pc \in Starts(code)

(* No operand is read as an opcode or past the end, every constant and     *)
(* every slot exists.                                                      *)
CodeIsWellFormed ==
  status \notin {"bad fetch", "unknown opcode", "no such constant", "invalid slot"}
=============================================================================
