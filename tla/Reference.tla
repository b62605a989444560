------------------------------ MODULE Reference ------------------------------
(***************************************************************************)
(* What a program means, straight from its syntax tree: the reference the  *)
(* compiled program is compared with.  It knows nothing of slots, jumps,   *)
(* bytes or reference counts.                                              *)
(*                                                                         *)
(* An evaluation state s has the variables (env), the arrays in the order  *)
(* they were built (heap), the values of the expression statements run so  *)
(* far (out), the last value (val), the operands evaluated last (vals), and *)
(* how the program ended (end, "" if it has not).  A value is a type with a number, or with the text of a    *)
(* string; an array is a reference to the heap, so `+' on arrays appends   *)
(* in place, as the machine does.                                          *)
(***************************************************************************)
EXTENDS AST, SequencesExt, Functions

CONSTANT MaxIterations    \* a loop that runs longer counts as endless

RefValue(t, n) == [type |-> t, val |-> n, text |-> <<>>]
RefString(str) == [type |-> string_type, val |-> 0, text |-> str]
RefBool(p)     == RefValue(bool_type, IF p THEN 1 ELSE 0)
Unset          == RefValue(unknown_type, 0)

Started == [env |-> <<>>, heap |-> <<>>, out |-> <<>>, val |-> Unset, vals |-> <<>>, end |-> ""]

Yield(s, v)  == [s EXCEPT !.val = v]
Ends(s, why) == [s EXCEPT !.end = why]

(* Go on from s, unless the program has ended there.  (The set has TLC     *)
(* evaluate s once, however often Do mentions it.)                         *)
Then(s, Do(_)) == CHOOSE t \in {IF u.end # "" THEN u ELSE Do(u) : u \in {s}} : TRUE

-----------------------------------------------------------------------------
RefArith(op, a, b) ==
  CASE op \in {"TOK_PLUS", "TOK_PLUS_EQUALS"}   -> Wrap(a + b)
    [] op \in {"TOK_MINUS", "TOK_MINUS_EQUALS"} -> Wrap(a - b)
    [] op \in {"TOK_MULT", "TOK_MULT_EQUALS"}   -> Wrap(a * b)
    [] op \in {"TOK_DIV", "TOK_DIV_EQUALS"}     -> Quotient(a, b)
    [] op = "TOK_MODULO"                        -> Remainder(a, b)

RefTest(op, a, b) ==
  CASE op = "TOK_LESS"           -> a < b
    [] op = "TOK_LESS_EQUALS"    -> a <= b
    [] op = "TOK_GREATER"        -> a > b
    [] op = "TOK_GREATER_EQUALS" -> a >= b
    [] op = "TOK_EQUALS"         -> a = b
    [] op = "TOK_NOT_EQUALS"     -> a # b

Divides == {"TOK_DIV", "TOK_DIV_EQUALS", "TOK_MODULO"}

Calculate(op, a, b, s) ==
  IF op \in Divides /\ b.val = 0 THEN Ends(s, "division by zero")
  ELSE IF op \in Divides /\ b.val = -1 /\ a.val = INT_MIN THEN Ends(s, "divide trap")
  ELSE Yield(s, RefValue(int_type, RefArith(op, a.val, b.val)))

(* a op b for the operators that always evaluate both sides.               *)
Operate(op, a, b, s) ==
  IF IsArrayType(a.type)
  THEN Yield([s EXCEPT !.heap[a.val] = Append(@, b)], a)
  ELSE IF a.type = string_type THEN Yield(s, RefString(a.text \o b.text))
  ELSE IF op \in {"TOK_PLUS", "TOK_MINUS", "TOK_MULT", "TOK_DIV", "TOK_MODULO"}
       THEN Calculate(op, a, b, s)
       ELSE Yield(s, RefBool(RefTest(op, a.val, b.val)))

InBounds(array, index, s) == index.val \in 0 .. Len(s.heap[array.val]) - 1

-----------------------------------------------------------------------------
RECURSIVE Eval(_, _)

(* The values of several expressions, in order.                            *)
EvalAll(nodes, s) ==
  FoldLeft(LAMBDA sofar, node :
             Then(sofar, LAMBDA t : Then(Eval(node, t),
                                         LAMBDA u : [u EXCEPT !.vals = Append(t.vals, u.val)])),
           [s EXCEPT !.vals = <<>>], nodes)

EvalIndex(node, s) ==
  Then(EvalAll(<<node.kids[2], node.kids[1]>>, s), LAMBDA t :
    LET index == t.vals[1]   array == t.vals[2]
    IN  IF ~InBounds(array, index, t) THEN Ends(t, "index out of bounds")
        ELSE Yield(t, t.heap[array.val][index.val + 1]))

EvalConnective(node, s) ==
  Then(Eval(node.kids[1], s), LAMBDA t :
    IF t.val.val = (IF node.op = "TOK_AND" THEN 0 ELSE 1) THEN t ELSE Eval(node.kids[2], t))

EvalBinary(node, s) ==
  Then(EvalAll(node.kids, s), LAMBDA t : Operate(node.op, t.vals[1], t.vals[2], t))

EvalUnary(node, s) ==
  Then(Eval(node.kids[1], s), LAMBDA t :
    Yield(t, IF node.op = "TOK_MINUS" THEN RefValue(int_type, Wrap(-t.val.val))
                                      ELSE RefBool(t.val.val = 0)))

EvalArray(node, s) ==
  Then(EvalAll(node.kids, s), LAMBDA t :
    Yield([t EXCEPT !.heap = Append(@, t.vals)],
          RefValue(ArrayOf(t.vals[1].type), Len(t.heap) + 1)))

EvalRef(name, s) ==
  IF name \in DOMAIN s.env THEN Yield(s, s.env[name]) ELSE Ends(s, "uninitialized local")

Eval(node, s) ==
  CASE node.kind = "AST_INT"     -> Yield(s, RefValue(int_type, node.int_val))
    [] node.kind = "AST_BOOL"    -> Yield(s, RefValue(bool_type, node.int_val))
    [] node.kind = "AST_STRING"  -> Yield(s, RefString(node.text))
    [] node.kind = "AST_VAR_REF" -> EvalRef(node.name, s)
    [] node.kind = "AST_ARRAY"   -> EvalArray(node, s)
    [] node.kind = "AST_ARRAY_INDEX" -> EvalIndex(node, s)
    [] node.kind = "AST_UNARY_OP"    -> EvalUnary(node, s)
    [] node.kind = "AST_BINARY_OP" ->
         IF node.op \in {"TOK_AND", "TOK_OR"} THEN EvalConnective(node, s) ELSE EvalBinary(node, s)

-----------------------------------------------------------------------------
RECURSIVE Exec(_, _), Loop(_, _, _)

ExecAll(nodes, s) ==
  FoldLeft(LAMBDA sofar, node : Then(sofar, LAMBDA t : Exec(node, t)), s, nodes)

Assign(s, name) ==
  Then(s, LAMBDA t :
    [t EXCEPT !.env = [n \in DOMAIN @ \cup {name} |-> IF n = name THEN t.val ELSE @[n]]])

ExecCompound(node, s) ==
  Then(Eval(node.kids[1], s), LAMBDA right :
    Then(EvalRef(node.name, right), LAMBDA old :
      Assign(Calculate(node.op, old.val, right.val, old), node.name)))

ExecIndexAssign(node, s) ==
  LET target == node.kids[1]
  IN  Then(EvalAll(<<target.kids[2], target.kids[1], node.kids[2]>>, s), LAMBDA t :
        LET index == t.vals[1]   array == t.vals[2]
        IN  IF ~InBounds(array, index, t) THEN Ends(t, "index out of bounds")
            ELSE [t EXCEPT !.heap[array.val][index.val + 1] = t.vals[3]])

ExecIf(node, s) ==
  Then(Eval(Condition(node), s), LAMBDA t :
    IF t.val.val = 1 THEN ExecAll(Success(node), t)
    ELSE IF HasElse(node) THEN ExecAll(Fail(node), t) ELSE t)

Loop(node, s, n) ==
  Then(s, LAMBDA before : Then(Eval(Condition(node), before), LAMBDA t :
    IF t.val.val = 0 THEN t
    ELSE IF n = 0 THEN Ends(t, "diverges")
    ELSE Loop(node, ExecAll(Body(node), t), n - 1)))

ExecExpression(node, s) ==
  Then(Eval(node, s), LAMBDA t : [t EXCEPT !.out = Append(@, t.val)])

Exec(node, s) ==
  CASE node.kind = "AST_PROGRAM" -> ExecAll(node.kids, s)
    [] node.kind \in {"AST_VAR_DECL", "AST_VAR_ASSIGN"} -> Assign(Eval(node.kids[1], s), node.name)
    [] node.kind = "AST_COMPOUND_ASSIGNMENT" -> ExecCompound(node, s)
    [] node.kind = "AST_ARRAY_INDEX_ASSIGN"  -> ExecIndexAssign(node, s)
    [] node.kind = "AST_IF"    -> ExecIf(node, s)
    [] node.kind = "AST_WHILE" -> Loop(node, s, MaxIterations)
    [] OTHER -> ExecExpression(node, s)

Meaning(program) == Exec(program, Started)
=============================================================================
