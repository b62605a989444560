----------------------------- MODULE StackTyping -----------------------------
(***************************************************************************)
(* Typed byte code.  vm_run reads the member of a union its opcode is for  *)
(* and looks at no tag.  Here is what it relies on, instruction by         *)
(* instruction: which types lie on top of the stack where each one starts. *)
(***************************************************************************)
EXTENDS Decoding, SequencesExt

(* The member of the union that a value of a type has in it.               *)
MemberOf(t) ==
  CASE IsArrayType(t)  -> "array_val"
    [] t = int_type    -> "int_val"
    [] t = bool_type   -> "bool_val"
    [] t = string_type -> "string_val"
    [] OTHER           -> "none"

-----------------------------------------------------------------------------
(* What instruction o with operand n takes off the stack and puts on it,   *)
(* the top first; t is the type of the element an array instruction moves. *)

Takes(slots, o, n, t) ==
  CASE o \in IntArith \cup IntTest   -> <<int_type, int_type>>
    [] o \in BoolTest                -> <<bool_type, bool_type>>
    [] o \in Compound \cup {OP_INEG} -> <<int_type>>
    [] o \in CondJumps \cup {OP_NOT} -> <<bool_type>>
    [] o \in Stores                  -> <<slots[n + 1]>>
    [] o = OP_SCONCAT                -> <<string_type, string_type>>
    [] o = OP_ARRLOADIDX             -> <<ArrayOf(t), int_type>>
    [] o = OP_ARRSTOREIDX            -> <<t, ArrayOf(t), int_type>>
    [] o = OP_ARRAPPEND              -> <<t, ArrayOf(t)>>
    [] o = OP_PUSH_ARRAY             -> [i \in 1 .. n |-> t]
    [] OTHER                         -> <<>>

Makes(img, slots, o, n, t) ==
  CASE o \in {OP_PUSH, OP_PUSH_STRING}              -> <<img.constants[n + 1].type>>
    [] o \in {OP_PUSH_TRUE, OP_PUSH_FALSE, OP_NOT}  -> <<bool_type>>
    [] o \in IntTest \cup BoolTest                  -> <<bool_type>>
    [] o \in IntArith \cup {OP_INEG}                -> <<int_type>>
    [] o \in Loads                                  -> <<slots[n + 1]>>
    [] o = OP_SCONCAT                               -> <<string_type>>
    [] o = OP_ARRLOADIDX                            -> <<t>>
    [] o \in {OP_PUSH_ARRAY, OP_ARRAPPEND}          -> <<ArrayOf(t)>>
    [] OTHER                                        -> <<>>

(* The types t may be, where those of ts are on top of the stack.          *)
ElementTypes(ts) ==
  {t \in {int_type} \cup Range(ts) \cup {ElementOf(u) : u \in Range(ts)} : t.nested >= -1}

(* The instruction at p finds what it takes, and leaves at least what is   *)
(* expected wherever it goes next.                                         *)
TypedAt(img, slots, at, p) ==
  LET o     == img.code[p + 1]
      n     == Unsigned16(img.code[p + 2], img.code[p + 3])
      steps == Signed16(img.code[p + 2], img.code[p + 3])
  IN  \E t \in ElementTypes(at[p]) :
        LET takes == Takes(slots, o, n, t)
            left  == Makes(img, slots, o, n, t) \o SubSeq(at[p], Len(takes) + 1, Len(at[p]))
        IN  /\ IsPrefix(takes, at[p])
            /\ o = OP_PUSH_ARRAY => n > 0
            /\ o \in Compound    => slots[n + 1] = int_type
            /\ o # OP_JMP        => IsPrefix(at[p + 1 + OperandBytes(o)], left)
            /\ o \in JumpCodes   => IsPrefix(at[p + 3 + steps], left)

(* An image whose slots hold values of the types `slots', and where an     *)
(* instruction that starts at p finds at least at[p] on the stack.         *)
Verified(img, slots, at) ==
  /\ Decodes(img)
  /\ slots \in [1 .. img.num_locals -> VarType]
  /\ at \in [Starts(img.code) -> Seq(VarType)] /\ at[0] = <<>>
  /\ \A c \in Range(img.constants) : c.member = MemberOf(c.type)
  /\ \A p \in Starts(img.code) \ {Len(img.code)} : TypedAt(img, slots, at, p)

-----------------------------------------------------------------------------
(* Properties.                                                             *)

(* A type checked program never reads a union member that was not written. *)
TypesAreSound == status # "wrong member"

(* The elements of an array have one type: what get_expr_type takes for    *)
(* granted when it gives every element the type of the first.              *)
ArraysAreHomogeneous ==
  \A a \in DOMAIN arrs : \A v, w \in Range(arrs[a].arr_val) : v.type = w.type

(* A local holds nothing yet, or a value of the type of its slot.          *)
LocalsHold(slots) ==
  \A i \in DOMAIN locals : locals[i].member # "none" => locals[i].type = slots[i]
=============================================================================
