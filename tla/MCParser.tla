------------------------------- MODULE MCParser -------------------------------
(***************************************************************************)
(* Every expression of two levels of operators, one operator of each       *)
(* strength, and every statement around some of them; every sequence of    *)
(* up to five of twelve tokens as an expression statement; and programs    *)
(* with one token lost, put in, exchanged or swapped with the next.        *)
(*                                                                         *)
(* Left out, because the parser refuses or misreads them, are a second     *)
(* argument or parameter and the empty array literal.                      *)
(***************************************************************************)
EXTENDS Surface, FrontEnd

Call(e) == make_function_call(<<e>>, <<"f">>)

Leaves == {N(1), V("x")}

Ops == {"TOK_OR", "TOK_AND", "TOK_LESS", "TOK_MINUS", "TOK_MULT"}

Larger(es) ==
  {Op2(op, a, b) : op \in Ops, a \in es, b \in es} \cup {Minus(e) : e \in es}
    \cup {At2(V("a"), e) : e \in es} \cup {At2(At2(V("a"), e), N(1)) : e \in es}
    \cup {Call(e) : e \in es} \cup {L(<<e>>) : e \in es} \cup {L(<<N(1), e>>) : e \in es}
    \cup {SetAt(V("a"), N(1), e) : e \in es} \cup {make_arr_index_assign(V("x"), e) : e \in es}

Expressions1 == Leaves \cup Larger(Leaves)
Expressions2 == Larger(Expressions1)

Others ==
  {make_function_call(<<>>, <<"f">>), B(TRUE), B(FALSE), S("s"), Negated(Minus(V("x")))}
    \cup {Op2(op, Op2(op, V("x"), N(1)), Op2(op, V("x"), N(1))) :
            op \in UNION {Levels[n] : n \in DOMAIN Levels}}

Around(e, block) ==
  {Set("x", e), Var(int_type, "x", e), Var(int_matrix, "x", e), make_return(e),
   Bump("TOK_DIV_EQUALS", "x", e), make_if(e, block), make_if_else(e, block, block),
   make_while(e, block), make_function_decl(block, <<>>, bool_array, <<"f">>),
   make_function_decl(block, <<[name |-> <<"x">>, type |-> int_array]>>, int_type, <<"f">>)}

Some == {V("x"), Op2("TOK_LESS", V("x"), N(1)), SetAt(V("a"), N(1), V("x"))}

Statements1 == UNION {Around(e, b) : e \in Some, b \in {<<>>, <<V("x")>>, <<Set("x", N(1)), V("x")>>}}
Statements2 == UNION {Around(V("x"), <<s>>) : s \in Statements1}

ParserTrees ==
  {make_program(<<>>)} \cup
  {make_program(<<s>>) : s \in Expressions1 \cup Expressions2 \cup Others \cup Statements1 \cup Statements2}
    \cup {make_program(<<s, t>>) : s \in Statements1, t \in Around(V("x"), <<V("x")>>)}

-----------------------------------------------------------------------------
Kinds ==
  {IntToken(1), IdentToken(<<"x">>)} \cup
    {Token(t) : t \in {"TOK_MINUS", "TOK_MULT", "TOK_LESS", "TOK_ASSIGN", "TOK_LPAREN", "TOK_RPAREN",
                       "TOK_LBRACKET", "TOK_RBRACKET", "TOK_COMMA", "TOK_SEMICOLON"}}

More ==
  Kinds \cup {TypeToken("int")} \cup
    {Token(t) : t \in {"TOK_VAR", "TOK_FN", "TOK_IF", "TOK_ELSE", "TOK_WHILE", "TOK_LBRACE", "TOK_RBRACE",
                       "TOK_PLUS_EQUALS", "TOK_RETURN", "TOK_ERROR"}}

Damaged(ts) ==
  {RemoveAt(ts, i) : i \in DOMAIN ts}
    \cup {ReplaceAt(ts, i, t) : i \in DOMAIN ts, t \in More}
    \cup {InsertAt(ts, i, t) : i \in 1 .. Len(ts) + 1, t \in More}
    \cup {[ts EXCEPT ![i] = ts[i + 1], ![i + 1] = ts[i]] : i \in 1 .. Len(ts) - 1}

ParserInputs ==
  {{Append(ts, Token("TOK_SEMICOLON")) : ts \in [1 .. n -> Kinds]} : n \in 0 .. 5}
    \cup {Damaged(SpellProgram(make_program(<<s>>))) : s \in Statements1}
=============================================================================
