-------------------------------- MODULE Parser --------------------------------
(***************************************************************************)
(* parser.c: recursive descent with one token of lookahead.  A parser is   *)
(* the sequence of tokens the lexer returns and the place of `curr' in it. *)
(*                                                                         *)
(* A parse_ function takes the parser and returns the node with the parser *)
(* after it; where the code exits, `ok' is FALSE.                          *)
(***************************************************************************)
EXTENDS Tokens, AST

(* empty_ok: whether realloc to no bytes returns storage.  C leaves it     *)
(* open, and glibc returns NULL.                                           *)
parser_init(tokens, empty_ok) == [tokens |-> tokens, at |-> 1, empty_ok |-> empty_ok]

(* After TOK_EOF lex_next goes on returning it.                            *)
TokenAt(p, i) == IF i <= Len(p.tokens) THEN p.tokens[i] ELSE Token("TOK_EOF")
Curr(p)       == TokenAt(p, p.at)
Peek(p)       == TokenAt(p, p.at + 1)
parser_next(p) == [p EXCEPT !.at = @ + 1]

Curr_is(p, type) == Curr(p).type = type

Parsed(result, p) == [ok |-> TRUE, result |-> result, p |-> p]
Refused           == [ok |-> FALSE, result |-> Blank, p |-> parser_init(<<>>, FALSE)]

(* Go on with what was parsed, unless the parser has exited.  (The set has *)
(* TLC evaluate r once, however often Do mentions its parts.)              *)
After(r, Do(_, _)) == CHOOSE t \in {IF u.ok THEN Do(u.result, u.p) ELSE u : u \in {r}} : TRUE

(* make_program, make_function_call and make_function_decl cut their lists *)
(* down to size with realloc, and take NULL for a failure.                 *)
CutDown(list, made) == IF list = <<>> /\ ~made.p.empty_ok THEN Refused ELSE made

(* Skip a token that has to be there.                                      *)
Expect(p, type, Do(_)) == IF Curr_is(p, type) THEN Do(parser_next(p)) ELSE Refused

-----------------------------------------------------------------------------
(* Types and parameters.                                                   *)

data_to_var_type(type_val) == Scalar(type_val)

RECURSIVE Brackets(_, _)
Brackets(type, p) ==
  IF ~Curr_is(p, "TOK_LBRACKET") THEN Parsed(type, p)
  ELSE Expect(parser_next(p), "TOK_RBRACKET", LAMBDA q : Brackets(ArrayOf(type), q))

parse_type(p) ==
  Expect(p, "TOK_TYPE", LAMBDA q : Brackets(data_to_var_type(Curr(p).type_val), q))

(* Do is given the name and the parser behind it.                          *)
ExpectName(p, Do(_, _)) == Expect(p, "TOK_IDENT", LAMBDA q : Do(Curr(p).ident_val, q))

(* The comma is looked at and not skipped: parse_type meets it next.       *)
RECURSIVE Params(_, _)
Params(sofar, p) ==
  IF Curr_is(p, "TOK_RPAREN") THEN Parsed(sofar, parser_next(p))
  ELSE After(parse_type(p), LAMBDA type, q : ExpectName(q, LAMBDA name, r :
         IF Curr(r).type \in {"TOK_RPAREN", "TOK_COMMA"}
         THEN Params(Append(sofar, [name |-> name, type |-> type]), r)
         ELSE Refused))

-----------------------------------------------------------------------------
(* Expressions.                                                            *)

Relations ==
  {"TOK_LESS", "TOK_GREATER", "TOK_EQUALS", "TOK_NOT_EQUALS", "TOK_GREATER_EQUALS",
   "TOK_LESS_EQUALS"}

(* Mutants: all arithmetic on one level; parse_and calls parse_or.         *)
Levels_flat ==
  <<{"TOK_OR"}, {"TOK_AND"}, Relations,
    {"TOK_PLUS", "TOK_MINUS", "TOK_MULT", "TOK_DIV", "TOK_MODULO"}>>

Levels_swapped ==
  <<{"TOK_AND"}, {"TOK_OR"}, Relations, {"TOK_PLUS", "TOK_MINUS"},
    {"TOK_MULT", "TOK_DIV", "TOK_MODULO"}>>

(* The binary operators by how loosely they bind: parse_logical_or,        *)
(* parse_logical_and, parse_comparison, parse_addsub, parse_muldiv.        *)
Levels ==
  <<{"TOK_OR"}, {"TOK_AND"}, Relations, {"TOK_PLUS", "TOK_MINUS"},
    {"TOK_MULT", "TOK_DIV", "TOK_MODULO"}>>

Comparison == 3

RECURSIVE parse_level(_, _), Operations(_, _, _), parse_unary(_), Indices(_, _),
          Arguments(_, _), Items(_, _)

parse_expr(p) == parse_level(1, p)

parse_level(n, p) ==
  IF n > Len(Levels) THEN parse_unary(p)
  ELSE After(parse_level(n + 1, p), LAMBDA left, q : Operations(n, left, q))

(* The operators of one level after the first operand; of comparisons      *)
(* there is at most one.                                                   *)
Operations(n, left, p) ==
  IF Curr(p).type \notin Levels[n] THEN Parsed(left, p)
  ELSE After(parse_level(n + 1, parser_next(p)), LAMBDA right, q :
         LET node == make_binary_op(Curr(p).type, left, right)
         IN  IF n = Comparison THEN Parsed(node, q) ELSE Operations(n, node, q))

(* Behind a name: indices, and perhaps the assignment to what they lead to *)
(* (or to the name itself, if there are none).                             *)
Indices(node, p) ==
  CASE Curr_is(p, "TOK_LBRACKET") ->
         After(parse_expr(parser_next(p)), LAMBDA index, q :
           Expect(q, "TOK_RBRACKET", LAMBDA r : Indices(make_arr_index(node, index), r)))
    [] Curr_is(p, "TOK_ASSIGN") ->
         After(parse_expr(parser_next(p)), LAMBDA value, q :
           Parsed(make_arr_index_assign(node, value), q))
    [] OTHER -> Parsed(node, p)

(* As with parameters, the comma is not skipped.                           *)
Arguments(sofar, p) ==
  IF Curr_is(p, "TOK_RPAREN") THEN Parsed(sofar, parser_next(p))
  ELSE After(parse_expr(p), LAMBDA arg, q :
         IF Curr(q).type \in {"TOK_RPAREN", "TOK_COMMA"} THEN Arguments(Append(sofar, arg), q)
         ELSE Refused)

(* Mutant: whatever stands between two elements is skipped. *)
Items_loose(sofar, p) ==
  IF Curr_is(p, "TOK_RBRACKET") THEN Parsed(sofar, p)
  ELSE After(parse_expr(p), LAMBDA e, q :
         IF Curr_is(q, "TOK_RBRACKET") THEN Parsed(Append(sofar, e), parser_next(q))
         ELSE Items(Append(sofar, e), parser_next(q)))

(* The bracket is skipped behind an element, but not when the loop ends    *)
(* because the bracket stands where an element would: in [] and [1,].      *)
Items(sofar, p) ==
  IF Curr_is(p, "TOK_RBRACKET") THEN Parsed(sofar, p)
  ELSE After(parse_expr(p), LAMBDA e, q :
         CASE Curr_is(q, "TOK_RBRACKET") -> Parsed(Append(sofar, e), parser_next(q))
           [] Curr_is(q, "TOK_COMMA")    -> Items(Append(sofar, e), parser_next(q))
           [] OTHER                      -> Refused)

parse_array_literal(p) ==
  After(Items(<<>>, parser_next(p)), LAMBDA exprs, q : Parsed(make_arr_literal(exprs), q))

parse_function_call(p, name) ==
  After(Arguments(<<>>, parser_next(p)), LAMBDA args, q :
    CutDown(args, Parsed(make_function_call(args, name), q)))

parse_primary(p) ==
  LET t == Curr(p)
      q == parser_next(p)
  IN  CASE t.type = "TOK_INT"    -> Parsed(make_int(t.int_val), q)
        [] t.type \in {"TOK_TRUE", "TOK_FALSE"} -> Parsed(make_bool(t.type = "TOK_TRUE"), q)
        [] t.type = "TOK_STRING" -> Parsed(make_string(t.string_val), q)
        [] t.type = "TOK_IDENT"  ->
             IF Curr_is(q, "TOK_LPAREN") THEN parse_function_call(q, t.ident_val)
             ELSE Indices(make_var_ref(t.ident_val), q)
        [] t.type = "TOK_LPAREN" ->
             After(parse_expr(q), LAMBDA e, r : Expect(r, "TOK_RPAREN", LAMBDA s : Parsed(e, s)))
        [] t.type = "TOK_LBRACKET" -> parse_array_literal(p)
        [] OTHER -> Refused

parse_unary(p) ==
  IF Curr(p).type \in {"TOK_MINUS", "TOK_EXCLAM"}
  THEN After(parse_unary(parser_next(p)), LAMBDA right, q :
         Parsed(make_unary_op(Curr(p).type, right), q))
  ELSE parse_primary(p)

-----------------------------------------------------------------------------
(* Statements.                                                             *)

RECURSIVE parse_statement(_), BlockFrom(_, _, _)

(* Statements up to the token that ends the block, which is left.          *)
BlockFrom(sofar, p, end_tok) ==
  IF Curr_is(p, end_tok) THEN Parsed(sofar, p)
  ELSE After(parse_statement(p), LAMBDA node, q :
         Expect(q, "TOK_SEMICOLON", LAMBDA r : BlockFrom(Append(sofar, node), r, end_tok)))

parse_block(p, end_tok) == BlockFrom(<<>>, p, end_tok)

(* { statements }                                                          *)
Braced(p, Do(_, _)) ==
  Expect(p, "TOK_LBRACE", LAMBDA q :
    After(parse_block(q, "TOK_RBRACE"), LAMBDA body, r : Do(body, parser_next(r))))

parse_if_stmt(p) ==
  After(parse_expr(parser_next(p)), LAMBDA condition, q : Braced(q, LAMBDA success, r :
    IF ~Curr_is(r, "TOK_ELSE") THEN Parsed(make_if(condition, success), r)
    ELSE Braced(parser_next(r), LAMBDA fail, s :
           Parsed(make_if_else(condition, success, fail), s))))

parse_while_stmt(p) ==
  After(parse_expr(parser_next(p)), LAMBDA condition, q : Braced(q, LAMBDA body, r :
    Parsed(make_while(condition, body), r)))

parse_var_decl(p) ==
  After(parse_type(parser_next(p)), LAMBDA type, q : ExpectName(q, LAMBDA name, r :
    Expect(r, "TOK_ASSIGN", LAMBDA s : After(parse_expr(s), LAMBDA value, t :
      Parsed(make_var_decl(name, value, type), t)))))

parse_fn_decl(p) ==
  After(parse_type(parser_next(p)), LAMBDA return_type, q : ExpectName(q, LAMBDA name, r :
    Expect(r, "TOK_LPAREN", LAMBDA s : After(Params(<<>>, s), LAMBDA params, t :
      Braced(t, LAMBDA body, u :
        CutDown(body, CutDown(params,
          Parsed(make_function_decl(body, params, return_type, name), u))))))))

CompoundTokens == {"TOK_PLUS_EQUALS", "TOK_MINUS_EQUALS", "TOK_MULT_EQUALS", "TOK_DIV_EQUALS"}

parse_statement(p) ==
  LET name  == Curr(p).ident_val
      Value(Make(_)) == After(parse_expr(parser_next(parser_next(p))), LAMBDA e, q : Parsed(Make(e), q))
  IN  CASE Curr_is(p, "TOK_RETURN") ->
             After(parse_expr(parser_next(p)), LAMBDA e, q : Parsed(make_return(e), q))
        [] Curr_is(p, "TOK_FN")    -> parse_fn_decl(p)
        [] Curr_is(p, "TOK_VAR")   -> parse_var_decl(p)
        [] Curr_is(p, "TOK_IF")    -> parse_if_stmt(p)
        [] Curr_is(p, "TOK_WHILE") -> parse_while_stmt(p)
        [] Curr_is(p, "TOK_IDENT") /\ Peek(p).type = "TOK_ASSIGN" ->
             Value(LAMBDA e : make_var_assign(name, e))
        [] Curr_is(p, "TOK_IDENT") /\ Peek(p).type \in CompoundTokens ->
             Value(LAMBDA e : make_compound_assignment(Peek(p).type, name, e))
        [] OTHER -> parse_expr(p)

parse_program(p) ==
  After(parse_block(p, "TOK_EOF"), LAMBDA statements, q :
    CutDown(statements, Parsed(make_program(statements), q)))
=============================================================================
