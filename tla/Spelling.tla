------------------------------- MODULE Spelling -------------------------------
(***************************************************************************)
(* How a program is written down: the tokens of a tree, with parentheses   *)
(* only where the conventional precedence of the operators needs them.  It *)
(* knows nothing of how the parser finds its way back.                     *)
(***************************************************************************)
EXTENDS Tokens, AST, SequencesExt

T(type) == <<Token(type)>>

(* How tightly an expression holds together, from 0.                       *)
Strength(node) ==
  CASE node.kind = "AST_ARRAY_INDEX_ASSIGN" -> 0
    [] node.kind = "AST_UNARY_OP"  -> 6
    [] node.kind = "AST_BINARY_OP" ->
         CASE node.op = "TOK_OR"  -> 1
           [] node.op = "TOK_AND" -> 2
           [] node.op \in {"TOK_PLUS", "TOK_MINUS"} -> 4
           [] node.op \in {"TOK_MULT", "TOK_DIV", "TOK_MODULO"} -> 5
           [] OTHER -> 3
    [] OTHER -> 7

Chains(op) == op \in {"TOK_OR", "TOK_AND", "TOK_PLUS", "TOK_MINUS", "TOK_MULT", "TOK_DIV", "TOK_MODULO"}

SpellType(type) ==
  <<TypeToken(type.base_type)>>
    \o FlattenSeq([i \in 1 .. type.nested + 1 |-> T("TOK_LBRACKET") \o T("TOK_RBRACKET")])

Listed(parts) ==
  FlattenSeq([i \in DOMAIN parts |-> IF i = 1 THEN parts[i] ELSE T("TOK_COMMA") \o parts[i]])

Within(open, inside, close) == T(open) \o inside \o T(close)

RECURSIVE Spell(_, _), SpellStatement(_)

(* An expression where one of that strength is due.                        *)
Spell(node, strength) ==
  LET All == [i \in DOMAIN node.kids |-> Spell(node.kids[i], 0)]
      own == Strength(node)
      written ==
        CASE node.kind = "AST_INT"     -> <<IntToken(node.int_val)>>
          [] node.kind = "AST_BOOL"    -> T(IF node.int_val = 1 THEN "TOK_TRUE" ELSE "TOK_FALSE")
          [] node.kind = "AST_STRING"  -> <<StringToken(node.text)>>
          [] node.kind = "AST_VAR_REF" -> <<IdentToken(node.name)>>
          [] node.kind = "AST_ARRAY"   -> Within("TOK_LBRACKET", Listed(All), "TOK_RBRACKET")
          [] node.kind = "AST_ARRAY_INDEX" ->
               All[1] \o Within("TOK_LBRACKET", All[2], "TOK_RBRACKET")
          [] node.kind = "AST_FUNCTION_CALL" ->
               <<IdentToken(node.name)>> \o Within("TOK_LPAREN", Listed(All), "TOK_RPAREN")
          [] node.kind = "AST_ARRAY_INDEX_ASSIGN" -> All[1] \o T("TOK_ASSIGN") \o All[2]
          [] node.kind = "AST_UNARY_OP" -> T(node.op) \o Spell(node.kids[1], own)
          [] node.kind = "AST_BINARY_OP" ->
               Spell(node.kids[1], IF Chains(node.op) THEN own ELSE own + 1)
                 \o T(node.op) \o Spell(node.kids[2], own + 1)
  IN  IF own < strength THEN Within("TOK_LPAREN", written, "TOK_RPAREN") ELSE written

Block(statements) ==
  FlattenSeq([i \in DOMAIN statements |-> SpellStatement(statements[i]) \o T("TOK_SEMICOLON")])

SpellBody(statements) == Within("TOK_LBRACE", Block(statements), "TOK_RBRACE")

(* name = value and name op= value.                                        *)
SpellAssign(node, op) == <<IdentToken(node.name)>> \o T(op) \o Spell(node.kids[1], 0)

SpellParams(params) ==
  Listed([i \in DOMAIN params |-> SpellType(params[i].type) \o <<IdentToken(params[i].name)>>])

(* The assignment to a variable by an expression differs from the          *)
(* statement in its parentheses.                                           *)
SpellStatement(node) ==
  CASE node.kind = "AST_VAR_DECL" ->
         T("TOK_VAR") \o SpellType(node.var_type) \o SpellAssign(node, "TOK_ASSIGN")
    [] node.kind = "AST_VAR_ASSIGN"          -> SpellAssign(node, "TOK_ASSIGN")
    [] node.kind = "AST_COMPOUND_ASSIGNMENT" -> SpellAssign(node, node.op)
    [] node.kind = "AST_RETURN_STMT"         -> T("TOK_RETURN") \o Spell(node.kids[1], 0)
    [] node.kind = "AST_WHILE" ->
         T("TOK_WHILE") \o Spell(Condition(node), 0) \o SpellBody(Body(node))
    [] node.kind = "AST_IF" ->
         T("TOK_IF") \o Spell(Condition(node), 0) \o SpellBody(Success(node))
           \o (IF HasElse(node) THEN T("TOK_ELSE") \o SpellBody(Fail(node)) ELSE <<>>)
    [] node.kind = "AST_FUNCTION_DECL" ->
         T("TOK_FN") \o SpellType(node.var_type) \o <<IdentToken(node.name)>>
           \o Within("TOK_LPAREN", SpellParams(node.params), "TOK_RPAREN") \o SpellBody(node.kids)
    [] node.kind = "AST_ARRAY_INDEX_ASSIGN" ->
         Spell(node, IF node.kids[1].kind = "AST_VAR_REF" THEN 1 ELSE 0)
    [] OTHER -> Spell(node, 0)

SpellProgram(node) == Block(node.kids)

(* Tokens without the parentheses that only group.                         *)
Ungrouped(tokens) ==
  SelectSeq(tokens, LAMBDA t : t.type \notin {"TOK_LPAREN", "TOK_RPAREN"})
=============================================================================
