------------------------------- MODULE MCMixed -------------------------------
(***************************************************************************)
(* Programs of which only the weakest guarantees are asked, among them     *)
(* those that go wrong: short-circuit connectives, strings used again      *)
(* after a concatenation, indices out of range on both sides, a variable   *)
(* whose declaration was skipped, functions, trees the passes refuse, and  *)
(* the assignment to a parenthesised variable, (x = 3), for which the      *)
(* parser builds an index assignment whose target is no index.             *)
(***************************************************************************)
EXTENDS Surface, Pipeline

Opening ==
  <<Var(int_type, "x", N(1)), Var(bool_type, "p", B(TRUE)), Var(string_type, "s", S("a")),
    Var(int_array, "a", L(<<N(1), N(2)>>)), Var(string_array, "q", L(<<V("s")>>))>>

P == V("p")

And(l, r) == Op2("TOK_AND", l, r)
Or(l, r)  == Op2("TOK_OR", l, r)

Connected ==
  {And(P, B(FALSE)), And(B(FALSE), P), Or(P, B(FALSE)), Or(B(FALSE), P),
   And(Or(B(FALSE), P), Negated(P)), Or(And(P, P), P)}

Statements ==
  Connected \cup {Set("p", e) : e \in Connected}
    \cup {make_if(e, <<V("x")>>) : e \in Connected}
    \cup {make_if_else(e, <<V("x")>>, <<Set("x", N(2)), V("x")>>) : e \in {P, And(B(FALSE), P)}}
    \cup {make_while(e, <<Set("p", B(FALSE)), V("x")>>) : e \in Connected}
    \cup {V("s"), V("x"), Plus(V("s"), S("b")), Set("s", Plus(V("s"), V("s"))),
          Plus(At2(V("q"), N(0)), V("s")), V("q"), Plus(V("q"), V("s")),
          At2(V("a"), Minus(N(1))), At2(V("a"), N(2)), SetAt(V("a"), Minus(V("x")), N(2)),
          At2(V("p"), N(0)), Plus(V("x"), V("a")), Bump("TOK_PLUS_EQUALS", "p", P),
          Bump("TOK_DIV_EQUALS", "x", N(0)), Set("a", L(<<N(1), P>>)),
          make_if(Negated(P), <<Var(int_type, "y", N(2))>>), V("y"),
          Bump("TOK_MINUS_EQUALS", "y", N(1)),
          make_arr_index_assign(V("x"), N(3)),
          make_function_decl(<<V("x"), make_return(V("z"))>>, <<[name |-> <<"z">>, type |-> int_type]>>,
                              int_type, <<"f">>),
          make_function_call(<<V("x")>>, <<"f">>),
          Op2("TOK_NOT_EQUALS", P, B(TRUE)), Var(int_type, "x", N(2)), Set("x", P)}
    \cup {CountTo(2, "x", <<e>>) : e \in {Plus(V("s"), S("b")), Plus(S("b"), S("c")), L(<<V("s")>>)}}

MixedPrograms ==
  {make_program(Opening \o <<s, t>>) : s \in Statements, t \in Statements}
    \cup {make_program(<<Var(int_type, "x", N(1))>>)}

(* emit_push_string counts every string it allocates.                      *)
ASSUME MixedImagesAreCounted == ImagesCounted
=============================================================================
