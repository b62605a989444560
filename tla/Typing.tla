------------------------------- MODULE Typing -------------------------------
(***************************************************************************)
(* Which programs are well typed, as a judgement over trees: the language  *)
(* of README.md, where every operator has operands of the types it is for, *)
(* the elements of an array have one type and a variable keeps its own.    *)
(* It knows no table of slots and no order of checks; type_check is        *)
(* compared with it.                                                       *)
(***************************************************************************)
EXTENDS AST, SequencesExt

(* The operators that take two values of the type t, and what they make.   *)
Signatures ==
  {[ops |-> {"TOK_PLUS", "TOK_MINUS", "TOK_MULT", "TOK_DIV", "TOK_MODULO"},
    of |-> int_type, to |-> int_type],
   [ops |-> {"TOK_LESS", "TOK_LESS_EQUALS", "TOK_GREATER", "TOK_GREATER_EQUALS",
             "TOK_EQUALS", "TOK_NOT_EQUALS"}, of |-> int_type, to |-> bool_type],
   [ops |-> {"TOK_EQUALS", "TOK_NOT_EQUALS", "TOK_AND", "TOK_OR"}, of |-> bool_type, to |-> bool_type],
   [ops |-> {"TOK_PLUS"}, of |-> string_type, to |-> string_type]}

(* The types an expression has where the variables have those of env: one, *)
(* or none if it is ill typed.                                             *)
RECURSIVE TypesOf(_, _)
TypesOf(env, node) ==
  LET Kid(i) == TypesOf(env, node.kids[i])
  IN  CASE node.kind = "AST_INT"     -> {int_type}
        [] node.kind = "AST_BOOL"    -> {bool_type}
        [] node.kind = "AST_STRING"  -> {string_type}
        [] node.kind = "AST_VAR_REF" -> IF node.name \in DOMAIN env THEN {env[node.name]} ELSE {}
        [] node.kind = "AST_ARRAY"   ->
             {ArrayOf(t) : t \in {u \in UNION {Kid(i) : i \in DOMAIN node.kids} :
                                    \A i \in DOMAIN node.kids : Kid(i) = {u}}}
        [] node.kind = "AST_ARRAY_INDEX" ->
             {ElementOf(t) : t \in {u \in Kid(1) : IsArrayType(u) /\ Kid(2) = {int_type}}}
        [] node.kind = "AST_UNARY_OP" ->
             Kid(1) \cap {IF node.op = "TOK_MINUS" THEN int_type ELSE bool_type}
        [] node.kind = "AST_BINARY_OP" ->
             {s.to : s \in {f \in Signatures : node.op \in f.ops /\ Kid(1) = {f.of} /\ Kid(2) = {f.of}}}
               \cup {t \in Kid(1) : node.op = "TOK_PLUS" /\ IsArrayType(t) /\ Kid(2) = {ElementOf(t)}}
        [] OTHER -> {}

(* The types of the variables after a statement; none if it is ill typed.  *)
RECURSIVE AfterStatement(_, _)
AfterStatement(env, node) ==
  LET Of(i)  == TypesOf(env, node.kids[i])
      All(statements) ==
        FoldLeft(LAMBDA envs, s : UNION {AfterStatement(e, s) : e \in envs}, {env}, statements)
      Only(holds) == IF holds THEN {env} ELSE {}
  IN  CASE node.kind = "AST_PROGRAM" -> All(node.kids)
        [] node.kind \in {"AST_IF", "AST_WHILE"} ->
             IF Of(1) = {bool_type} THEN All(Tail(node.kids)) ELSE {}
        [] node.kind = "AST_VAR_DECL" ->
             IF node.name \notin DOMAIN env /\ Of(1) = {node.var_type}
             THEN {env @@ (node.name :> node.var_type)} ELSE {}
        [] node.kind = "AST_VAR_ASSIGN" ->
             Only(node.name \in DOMAIN env /\ Of(1) = {env[node.name]})
        [] node.kind = "AST_COMPOUND_ASSIGNMENT" ->
             Only(node.name \in DOMAIN env /\ env[node.name] = int_type /\ Of(1) = {int_type})
        [] node.kind = "AST_ARRAY_INDEX_ASSIGN" ->
             Only(node.kids[1].kind = "AST_ARRAY_INDEX" /\ Of(1) # {} /\ Of(1) = Of(2))
        [] OTHER -> Only(TypesOf(env, node) # {})

WellTyped(program) == AfterStatement(<<>>, program) # {}
=============================================================================
