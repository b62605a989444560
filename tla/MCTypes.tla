------------------------------- MODULE MCTypes -------------------------------
(***************************************************************************)
(* Well and ill typed programs: one variable of every type, and every      *)
(* operator, assignment, index, literal and condition over operands of     *)
(* every type.  What type_check lets through is run.                       *)
(*                                                                         *)
(* Left out are the forms it decides wrongly.  It refuses bool[] + bool,   *)
(* and lets through a scalar + an array of that scalar, array literals of  *)
(* several types, compound assignment to anything but an int, an index     *)
(* expression as a statement by itself, and operators in the places it     *)
(* does not visit (findings and hazards in the project file).              *)
(***************************************************************************)
EXTENDS Surface, Pipeline

Opening ==
  <<Var(int_type, "x", N(1)), Var(bool_type, "p", B(TRUE)), Var(string_type, "s", S("a")),
    Var(int_array, "a", L(<<N(1), N(2)>>)), Var(bool_array, "b", L(<<B(TRUE)>>)),
    Var(int_matrix, "n", L(<<V("a")>>))>>

Scalars == {V("x"), V("p"), V("s"), At2(V("a"), N(0)), At2(V("b"), N(0))}
Arrays  == {V("a"), V("b"), V("n"), At2(V("n"), N(0))}
Operands == Scalars \cup Arrays

Operators == IntOps \cup Comparisons \cup Equalities

Expressions ==
  {Op2(op, l, r) : op \in Operators, l \in Operands, r \in Operands}
    \cup ({Plus(l, r) : l \in Arrays, r \in Operands}
            \ {Plus(V("b"), r) : r \in {V("p"), At2(V("b"), N(0))}}) \cup {Plus(l, r) : l \in Scalars, r \in Scalars}
    \cup {Minus(e) : e \in Operands} \cup {Negated(e) : e \in Operands}

Targets == {"x", "p", "s", "a", "b", "n"}

(* Operators inside operators, in an assignment.                           *)
Inner ==
  {Set(v, Op2(op, Plus(l, r), V("x"))) : v \in {"x", "p"}, op \in {"TOK_MINUS", "TOK_EQUALS"},
                                         l \in {V("x"), V("s")}, r \in Scalars}
    \cup {Set("p", Op2(op, V("p"), Negated(r))) : op \in Equalities \cup Connectives, r \in Operands}
    \cup {Set("a", Plus(Plus(V("a"), l), r)) : l \in {V("x"), V("p")}, r \in Operands}

Statements ==
  Expressions
    \cup {Set(v, e) : v \in Targets, e \in Operands \cup {L(<<o>>) : o \in Operands}}
    \cup {Set(v, At2(o, i)) : v \in {"x", "b"}, o \in {V(u) : u \in Targets}, i \in Operands}
    \cup {SetAt(o, N(0), e) : o \in {V("a"), V("b"), V("n"), At2(V("n"), N(0))}, e \in Operands}
    \cup {Bump(op, "x", e) : op \in {"TOK_PLUS_EQUALS", "TOK_MULT_EQUALS"}, e \in Operands}
    \cup {make_if(e, <<V("x")>>) : e \in Operands}
    \cup {make_while(e, <<Set("p", B(FALSE))>>) : e \in Operands \ {At2(V("b"), N(0))}}
    \cup Inner \cup {make_if_else(V("p"), <<s>>, <<>>) : s \in Inner}
    \cup {make_if_else(V("p"), <<>>, <<V("x"), s>>) : s \in Inner}
    \cup {make_while(V("p"), <<Set("p", B(FALSE)), s>>) : s \in Inner}

(* Something computed before the operand is looked at.                     *)
Uses2 == {Set("x", Plus(V("x"), V("x"))), Set("s", Plus(V("s"), S("b"))), Set("p", Negated(V("p")))}

TypePrograms == {make_program(Opening \o <<s>>) : s \in Statements}
                  \cup {make_program(Opening \o <<u, s>>) : u \in Uses2, s \in Operands}
=============================================================================
