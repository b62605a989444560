------------------------------- MODULE Control -------------------------------
(***************************************************************************)
(* Control flow and integer programs over one int x and one bool p, each   *)
(* compiled and run: expressions of one operator, assignments, branches    *)
(* with and without else, loops, branches in loops, variables declared     *)
(* inside a branch.                                                        *)
(*                                                                         *)
(* Left out are != between bools, which compiles to ==, && and ||, which   *)
(* lose their value (the run finding_connective), and x /= 0, which the    *)
(* machine does not test for.                                              *)
(***************************************************************************)
EXTENDS Surface, TypeChecker

X == V("x")
P == V("p")

IntLeaves == {N(0), N(2), N(5), X}

IntExprs ==
  IntLeaves \cup {Minus(e) : e \in IntLeaves}
    \cup {Op2(op, a, b) : op \in {"TOK_PLUS", "TOK_MINUS", "TOK_MULT", "TOK_DIV", "TOK_MODULO"},
                          a \in {X, N(5)}, b \in {N(0), N(2), X}}
    \cup {Minus(Plus(X, Op2("TOK_MULT", N(2), X)))}
    (* the smallest integer by -1 *)
    \cup {Op2(op, Plus(N(5), N(3)), Minus(N(1))) : op \in {"TOK_DIV", "TOK_MODULO"}}

IntTests ==
  {Op2(op, X, b) : op \in Comparisons \cup Equalities, b \in {N(0), N(2)}}

BoolExprs ==
  IntTests \cup {B(FALSE), P, Negated(P), Op2("TOK_EQUALS", P, B(FALSE)),
                 Op2("TOK_EQUALS", Op2("TOK_LESS", X, N(2)), P)}

CompoundOps == {"TOK_PLUS_EQUALS", "TOK_MINUS_EQUALS", "TOK_MULT_EQUALS"}

SetX(e) == Set("x", e)
SetP(e) == Set("p", e)

Simple ==
  IntExprs \cup BoolExprs \cup {SetX(e) : e \in IntExprs} \cup {SetP(e) : e \in BoolExprs}
    \cup {Bump(op, "x", e) : op \in CompoundOps, e \in {N(2), X}}
    \cup {Bump("TOK_DIV_EQUALS", "x", N(2))}

Few == {X, SetX(N(5)), Bump("TOK_PLUS_EQUALS", "x", N(2)), SetP(B(FALSE)),
        Var(int_type, "y", N(2))}

Conditions == {P, Op2("TOK_LESS", X, N(2)), Op2("TOK_NOT_EQUALS", X, N(0))}

Branches ==
  {make_if(c, <<s>>) : c \in Conditions, s \in Few}
    \cup {make_if_else(c, <<s>>, t) : c \in Conditions, s \in {X, SetX(N(5))},
                                      t \in {<<>>, <<N(0)>>, <<SetX(N(2)), X>>}}
    \cup {make_if(P, <<>>)}

(* Loops that count x up to 2, and one that never ends.                    *)
Loops ==
  {CountTo(2, "x", <<s>>) : s \in {X, SetP(B(FALSE))} \cup Branches}
    \cup {CountTo(2, "x", <<make_while(P, <<SetP(B(FALSE)), X>>), SetP(B(TRUE))>>),
          make_while(B(TRUE), <<SetX(N(2))>>)}

Declarations == {<<Var(int_type, "x", N(a)), Var(bool_type, "p", B(b))>> :
                   a \in {0, 5}, b \in BOOLEAN}

Bodies ==
  {<<s>> : s \in Simple \cup Loops} \cup {<<s, X>> : s \in Branches}
    \cup {<<make_if(P, <<Var(int_type, "y", X)>>), V("y")>>}
    \cup {<<s, make_if_else(P, <<t>>, <<X>>), P>> : s \in Few, t \in Few}

(* Bodies as long as a step count of two bytes can jump over, for a BYTE   *)
(* of 40: step counts from -800 to 799.  x = Sum[n]; takes 4 * n + 2       *)
(* bytes, p = false; 4, x; 3, the condition 3, every jump 3.               *)
Sum[n \in 1 .. 200] == IF n = 1 THEN X ELSE Plus(Sum[n \div 2], Sum[n - n \div 2])

LongestBodies ==
  LET Long(n) == <<SetX(Sum[n]), X, X>>
  IN  {<<make_while(P, Long(194) \o <<X, SetP(B(FALSE))>>), P>>,
       <<make_if(P, Long(196) \o <<X, SetP(B(FALSE))>>)>>,
       <<make_if_else(P, Long(196) \o <<SetP(B(FALSE))>>, Long(197) \o <<X>>), P>>}

ControlPrograms == {make_program(d \o b) : d \in Declarations, b \in Bodies \cup LongestBodies}
=============================================================================
