---------------------------- MODULE BytecodeEmit ----------------------------
(***************************************************************************)
(* bytecode_emit.c: code generation.  An emitter is a record; every emit_  *)
(* function takes one and returns the emitter after it.                    *)
(***************************************************************************)
EXTENDS TypeChecker, Bytecode

CONSTANT EMIT_INIT        \* initial capacity of both arrays: 128

ASSUME EmitInitAssumption == EMIT_INIT \in Nat \ {0}

(* `strs' holds the StringValues emit_push_string allocates.  `wild' is    *)
(* set when the generator reads a tree node through the wrong variant of   *)
(* the union: what it emits from there is undefined.                       *)
bytecode_init ==
  [code |-> <<>>, code_capacity |-> EMIT_INIT, constants |-> <<>>,
   const_capacity |-> EMIT_INIT, strs |-> <<>>, wild |-> FALSE]

bytecode_resize_code(b)  == [b EXCEPT !.code_capacity = 2 * @]
bytecode_resize_const(b) == [b EXCEPT !.const_capacity = 2 * @]

emit_byte(b, val) ==
  LET room == IF Len(b.code) >= b.code_capacity THEN bytecode_resize_code(b) ELSE b
  IN  [room EXCEPT !.code = Append(@, val % BYTE)]

(* An opcode and its operand, high byte first.                             *)
emit_with_operand(b, opcode, n) ==
  emit_byte(emit_byte(emit_byte(b, opcode), HighByte(n)), LowByte(n))

-----------------------------------------------------------------------------
(* Constants.  The index is returned as a uint16_t.                        *)

add_const(b, val) ==
  LET room == IF Len(b.constants) >= b.const_capacity THEN bytecode_resize_const(b) ELSE b
  IN  [room EXCEPT !.constants = Append(@, val)]

NextConst(b) == Len(b.constants) % (BYTE * BYTE)

emit_push_int(b, val) == emit_with_operand(add_const(b, IntValue(val)), OP_PUSH, NextConst(b))

emit_push_bool(b, val) == emit_byte(b, IF val = 1 THEN OP_PUSH_TRUE ELSE OP_PUSH_FALSE)

(* Mutant: the constant itself is not counted. *)
emit_push_string_uncounted(b, str) ==
  LET cell == [text |-> str, ref_count |-> 0, freed |-> FALSE]
      withs == [b EXCEPT !.strs = Append(@, cell)]
  IN  emit_with_operand(add_const(withs, StringRef(Len(withs.strs))), OP_PUSH_STRING, NextConst(b))

(* Mutant: a literal that occurred before is not allocated again. *)
emit_push_string_interned(b, str) ==
  LET known == {i \in DOMAIN b.constants : IsString(b.constants[i]) /\ b.strs[b.constants[i].val].text = str}
      cell  == [text |-> str, ref_count |-> 1, freed |-> FALSE]
      withs == [b EXCEPT !.strs = Append(@, cell)]
  IN  IF known # {} THEN emit_with_operand(b, OP_PUSH_STRING, (CHOOSE i \in known : TRUE) - 1)
      ELSE emit_with_operand(add_const(withs, StringRef(Len(withs.strs))), OP_PUSH_STRING, NextConst(b))

emit_push_string(b, str) ==
  LET cell == [text |-> str, ref_count |-> 1, freed |-> FALSE]
      withs == [b EXCEPT !.strs = Append(@, cell)]
  IN  emit_with_operand(add_const(withs, StringRef(Len(withs.strs))), OP_PUSH_STRING, NextConst(b))

-----------------------------------------------------------------------------
(* Locals.  For an unknown scalar type the opcode is left out.             *)

StoreOp(type) ==
  CASE type.nested # -1 -> OP_ARRSTORE
    [] type = int_type    -> OP_ISTORE
    [] type = bool_type   -> OP_BSTORE
    [] type = string_type -> OP_SSTORE

LoadOp(type) ==
  CASE type.nested # -1 -> OP_ARRLOAD
    [] type = int_type    -> OP_ILOAD
    [] type = bool_type   -> OP_BLOAD
    [] type = string_type -> OP_SLOAD

emit_slot_byte(b, slot) == emit_byte(b, LowByte(slot))        \* mutant: one byte

emit_slot(b, slot) == emit_byte(emit_byte(b, HighByte(slot)), LowByte(slot))

emit_store(b, type, slot) ==
  emit_slot(IF type = unknown_type THEN b ELSE emit_byte(b, StoreOp(type)), slot)

emit_load(b, type, slot) ==
  emit_slot(IF type = unknown_type THEN b ELSE emit_byte(b, LoadOp(type)), slot)

emit_icompound_assignment(b, op, slot) ==
  emit_with_operand(b, CASE op = "TOK_PLUS_EQUALS"  -> OP_IADDSTORE
                         [] op = "TOK_MINUS_EQUALS" -> OP_ISUBSTORE
                         [] op = "TOK_MULT_EQUALS"  -> OP_IMULSTORE
                         [] op = "TOK_DIV_EQUALS"   -> OP_IDIVSTORE, slot)

-----------------------------------------------------------------------------
(* Jumps: emitted with a step count of 0, patched once the target is known.*)

emit_jmpn(b, steps) == emit_with_operand(b, OP_JMPN, steps)
emit_jmpt(b, steps) == emit_with_operand(b, OP_JMPT, steps)
emit_jmp(b, steps)  == emit_with_operand(b, OP_JMP, steps)

patch_int_swapped(b, new_val, starts_at) ==    \* mutant: low byte first
  [b EXCEPT !.code[starts_at + 1] = LowByte(new_val), !.code[starts_at + 2] = HighByte(new_val)]

patch_int(b, new_val, starts_at) ==
  [b EXCEPT !.code[starts_at + 1] = HighByte(new_val), !.code[starts_at + 2] = LowByte(new_val)]

(* Mutant: counted from the opcode, not from behind the operand. *)
PatchHere_opcode(end, b) == patch_int(end, Len(end.code) - Len(b.code), Len(b.code) + 1)

(* A jump emitted when the code was b, patched to land at the end of `end'. *)
PatchHere(end, b) == patch_int(end, Len(end.code) - (Len(b.code) + 3), Len(b.code) + 1)

-----------------------------------------------------------------------------
(* The instruction of a binary operator, from the type on its left.        *)

BinaryCode(op, left) ==
  CASE op = "TOK_PLUS" ->
         IF left.nested # -1 THEN <<OP_ARRAPPEND>>
         ELSE IF left = int_type THEN <<OP_IADD>>
         ELSE IF left = string_type THEN <<OP_SCONCAT>> ELSE <<>>
    [] op = "TOK_MINUS"          -> <<OP_ISUB>>
    [] op = "TOK_MULT"           -> <<OP_IMUL>>
    [] op = "TOK_DIV"            -> <<OP_IDIV>>
    [] op = "TOK_MODULO"         -> <<OP_IMOD>>
    [] op = "TOK_GREATER"        -> <<OP_IGT>>
    [] op = "TOK_LESS"           -> <<OP_ILT>>
    [] op = "TOK_GREATER_EQUALS" -> <<OP_IGTE>>
    [] op = "TOK_LESS_EQUALS"    -> <<OP_ILTE>>
    [] op \in Equalities ->
         IF left = int_type THEN IF op = "TOK_EQUALS" THEN <<OP_IEQ>> ELSE <<OP_INEQ>>
         ELSE IF left = bool_type THEN <<OP_BEQ>> ELSE <<>>

RECURSIVE bytecode_gen(_, _, _)

(* A list of nodes one after the other.  (The set has TLC evaluate what is *)
(* emitted so far before it goes on.)                                      *)
GenAll(nodes, b, r) ==
  LET then(sofar, node) == CHOOSE next \in {bytecode_gen(node, e, r) : e \in {sofar}} : TRUE
  IN  FoldLeft(then, b, nodes)

(* left && right, left || right: the jump pops the left value.             *)
GenConnective(node, b, r) ==
  LET left == bytecode_gen(node.kids[1], b, r)
      jump == IF node.op = "TOK_AND" THEN emit_jmpn(left, 0) ELSE emit_jmpt(left, 0)
  IN  PatchHere(bytecode_gen(node.kids[2], jump, r), left)

GenIf(node, b, r) ==
  LET cond == bytecode_gen(Condition(node), b, r)
      body == GenAll(Success(node), emit_jmpn(cond, 0), r)
      skip == Len(body.code) - (Len(cond.code) + 3) + (IF HasElse(node) THEN 3 ELSE 0)
      then == patch_int(body, skip, Len(cond.code) + 1)
  IN  IF HasElse(node) THEN PatchHere(GenAll(Fail(node), emit_jmp(then, 0), r), then) ELSE then

(* Mutant: the place to jump back to is taken behind the body. *)
GenWhile_late(node, b, r) ==
  LET cond == bytecode_gen(Condition(node), b, r)
      body == GenAll(Body(node), emit_jmpn(cond, 0), r)
  IN  PatchHere(emit_jmp(body, -3), cond)

GenWhile(node, b, r) ==
  LET cond == bytecode_gen(Condition(node), b, r)
      body == GenAll(Body(node), emit_jmpn(cond, 0), r)
  IN  PatchHere(emit_jmp(body, Len(b.code) - Len(body.code) - 3), cond)

(* Mutant: the array below its index. *)
GenIndexAssign_below(node, b, r) ==
  LET target == node.kids[1]
  IN  IF target.kind = "AST_ARRAY_INDEX"
      THEN emit_byte(GenAll(<<target.kids[1], target.kids[2], node.kids[2]>>, b, r), OP_ARRSTOREIDX)
      ELSE [b EXCEPT !.wild = TRUE]

(* The target's own children are generated, taking it for an array index.  *)
GenIndexAssign(node, b, r) ==
  LET target == node.kids[1]
  IN  IF target.kind = "AST_ARRAY_INDEX"
      THEN emit_byte(GenAll(<<target.kids[2], target.kids[1], node.kids[2]>>, b, r), OP_ARRSTOREIDX)
      ELSE [b EXCEPT !.wild = TRUE]

bytecode_gen(node, b, r) ==
  CASE node.kind = "AST_INT"    -> emit_push_int(b, node.int_val)
    [] node.kind = "AST_BOOL"   -> emit_push_bool(b, node.int_val)
    [] node.kind = "AST_STRING" -> emit_push_string(b, node.text)
    [] node.kind = "AST_BINARY_OP" ->
         IF node.op \in Connectives THEN GenConnective(node, b, r)
         ELSE FoldLeft(emit_byte, GenAll(node.kids, b, r),
                       BinaryCode(node.op, get_expr_type(node.kids[1], r)))
    [] node.kind = "AST_UNARY_OP" ->
         emit_byte(GenAll(node.kids, b, r), IF node.op = "TOK_MINUS" THEN OP_INEG ELSE OP_NOT)
    [] node.kind \in {"AST_VAR_DECL", "AST_VAR_ASSIGN"} ->
         emit_store(GenAll(node.kids, b, r), node.var_type, node.slot)
    [] node.kind = "AST_COMPOUND_ASSIGNMENT" ->
         emit_icompound_assignment(GenAll(node.kids, b, r), node.op, node.slot)
    [] node.kind = "AST_VAR_REF" -> emit_load(b, node.var_type, node.slot)
    [] node.kind = "AST_PROGRAM" -> GenAll(node.kids, b, r)
    [] node.kind = "AST_IF"      -> GenIf(node, b, r)
    [] node.kind = "AST_WHILE"   -> GenWhile(node, b, r)
    [] node.kind = "AST_ARRAY" ->
         emit_with_operand(GenAll(node.kids, b, r), OP_PUSH_ARRAY, Len(node.kids))
    [] node.kind = "AST_ARRAY_INDEX" ->
         emit_byte(GenAll(<<node.kids[2], node.kids[1]>>, b, r), OP_ARRLOADIDX)
    [] node.kind = "AST_ARRAY_INDEX_ASSIGN" -> GenIndexAssign(node, b, r)
    [] OTHER -> b
=============================================================================
