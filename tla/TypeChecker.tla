----------------------------- MODULE TypeChecker -----------------------------
(***************************************************************************)
(* type_checker.c: the type of an expression, and the pass that refuses a  *)
(* program (FALSE where the C code exits).  Both run on a resolved tree.   *)
(***************************************************************************)
EXTENDS Resolver

Comparisons == {"TOK_LESS", "TOK_LESS_EQUALS", "TOK_GREATER", "TOK_GREATER_EQUALS"}
IntOps      == {"TOK_MINUS", "TOK_MULT", "TOK_DIV", "TOK_MODULO"}
Equalities  == {"TOK_EQUALS", "TOK_NOT_EQUALS"}
Connectives == {"TOK_AND", "TOK_OR"}

-----------------------------------------------------------------------------
(* Which element the literal's check looks at for its i-th round: the loop *)
(* reads arr[0] every time.                                                *)
ElementProbe(node, i) == node.kids[1]

BinaryType(op, left, right) ==
  CASE left.nested # -1 -> left
    [] left.nested = -1 /\ op = "TOK_PLUS" ->
         IF left.base_type = right.base_type /\ left.base_type \in {"int", "string"}
         THEN Scalar(left.base_type) ELSE unknown_type
    [] left.nested = -1 /\ op \in IntOps -> int_type
    [] left.nested = -1 /\ op \in Comparisons \cup Equalities \cup Connectives -> bool_type

RECURSIVE get_expr_type(_, _)
get_expr_type(node, r) ==
  CASE node.kind = "AST_INT"    -> int_type
    [] node.kind = "AST_BOOL"   -> bool_type
    [] node.kind = "AST_STRING" -> string_type
    [] node.kind = "AST_ARRAY" ->
         LET Type(kid) == get_expr_type(kid, r)
         IN  IF /\ node.kids # <<>>
                /\ \A i \in 2 .. Len(node.kids) : Type(ElementProbe(node, i)) = Type(node.kids[1])
             THEN ArrayOf(Type(node.kids[1])) ELSE unknown_type
    [] node.kind = "AST_BINARY_OP" ->
         BinaryType(node.op, get_expr_type(node.kids[1], r), get_expr_type(node.kids[2], r))
    [] node.kind = "AST_UNARY_OP" -> IF node.op = "TOK_MINUS" THEN int_type ELSE bool_type
    [] node.kind = "AST_VAR_REF"  ->
         LET slot == resolver_lookup(r, node.name)
         IN  IF slot = -1 THEN unknown_type ELSE TypeAt(r, slot)
    [] node.kind = "AST_ARRAY_INDEX" ->
         LET array == get_expr_type(node.kids[1], r)
         IN  IF array.nested < 0 THEN unknown_type ELSE ElementOf(array)
    [] OTHER -> unknown_type

-----------------------------------------------------------------------------
(* && binds tighter than || in the C condition: two base types that differ *)
(* are refused whatever the operator.                                      *)
AppendRefused_base(op, left, right) ==         \* mutant: the depth is not compared
  right.base_type # left.base_type

AppendRefused(op, left, right) ==
  \/ left.nested # -1 /\ op = "TOK_PLUS" /\ right.nested # left.nested - 1
  \/ right.base_type # left.base_type

OperandsAllowed_ints(op, left, right) ==       \* mutant: no == and != of bools
  LET both(b) == left.base_type = b /\ right.base_type = b
  IN  CASE op = "TOK_PLUS"      -> both("int") \/ both("string")
        [] op \in Connectives   -> both("bool")
        [] OTHER                -> both("int")

OperandsAllowed(op, left, right) ==
  LET both(b) == left.base_type = b /\ right.base_type = b
  IN  CASE op \in IntOps \cup Comparisons -> both("int")
        [] op = "TOK_PLUS"                -> both("int") \/ both("string")
        [] op \in Equalities              -> both("int") \/ both("bool")
        [] op \in Connectives             -> both("bool")

BinaryAllowed(op, left, right) ==
  /\ ~AppendRefused(op, left, right)
  /\ (left.nested # -1 \/ right.nested # -1) => op = "TOK_PLUS"
  /\ OperandsAllowed(op, left, right)

UnaryAllowed_base(op, right) ==                \* mutant: arrays are not refused
  right.base_type = IF op = "TOK_EXCLAM" THEN "bool" ELSE "int"

UnaryAllowed(op, right) ==
  /\ right.nested = -1
  /\ right.base_type = IF op = "TOK_EXCLAM" THEN "bool" ELSE "int"

IndexAllowed(array, index_type) ==
  array.kind \in {"AST_VAR_REF", "AST_ARRAY_INDEX"} /\ index_type = int_type

(* The index expression of an array index, the value of an index           *)
(* assignment, the elements of a literal and the arguments of a call are   *)
(* not checked themselves.                                                 *)
RECURSIVE type_check(_, _)
type_check(node, r) ==
  LET Type(i)  == get_expr_type(node.kids[i], r)
      Check(i) == type_check(node.kids[i], r)
      AllCheck == \A i \in DOMAIN node.kids : Check(i)
  IN  CASE node.kind = "AST_BINARY_OP" ->
             AllCheck /\ BinaryAllowed(node.op, Type(1), Type(2))
        [] node.kind = "AST_UNARY_OP" -> AllCheck /\ UnaryAllowed(node.op, Type(1))
        [] node.kind = "AST_PROGRAM"  -> AllCheck
        [] node.kind \in {"AST_VAR_DECL", "AST_VAR_ASSIGN", "AST_COMPOUND_ASSIGNMENT"} ->
             AllCheck /\ Type(1) = node.var_type
        [] node.kind \in {"AST_IF", "AST_WHILE"} -> AllCheck /\ Type(1) = bool_type
        [] node.kind = "AST_ARRAY_INDEX" -> Check(1) /\ IndexAllowed(node.kids[1], Type(2))
        [] node.kind = "AST_ARRAY_INDEX_ASSIGN" -> Check(1) /\ Type(2) = Type(1)
        [] OTHER -> TRUE
=============================================================================
