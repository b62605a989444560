----------------------------- MODULE MCFindings -----------------------------
(***************************************************************************)
(* Small programs on which the code does not do what a comment, a message, *)
(* a test or the README of the repository says: one set of programs per    *)
(* run, and the statements no passing run checks.                          *)
(***************************************************************************)
EXTENDS Surface, Correctness

(* An index is compared with the array's length, on both sides, before the *)
(* array is accessed ("idx %d oob on array of len %d").                    *)
IndicesAreChecked == status # "negative index"

(* A declared variable can be referenced by its name, as often as one      *)
(* likes: the string it holds is still there.                              *)
StringsStayReadable == status # "dangling string"

-----------------------------------------------------------------------------
(* var int[] a = [1, true];                                                *)
LiteralPrograms == {make_program(<<Var(int_array, "a", L(<<N(1), B(TRUE)>>))>>)}

(* var int[] a = [1, 2]; a[-1];  and  a[-1] = 2;                           *)
IndexPrograms ==
  {make_program(<<Var(int_array, "a", L(<<N(1), N(2)>>)), s>>) :
     s \in {At2(V("a"), Minus(N(1))), SetAt(V("a"), Minus(N(1)), N(2))}}

(* var string hi = "h"; var string world = "w"; hi + world; hi;            *)
ConcatPrograms ==
  {make_program(<<Var(string_type, "hi", S("h")), Var(string_type, "world", S("w")),
                  Plus(V("hi"), V("world")), V("hi")>>)}

(* var bool p = false; p && true;                                          *)
ConnectivePrograms ==
  {make_program(<<Var(bool_type, "p", B(FALSE)), Op2("TOK_AND", V("p"), B(TRUE))>>)}

(* var bool[] b = [true]; b[0] = true == 1;                                *)
SidesPrograms ==
  {make_program(<<Var(bool_array, "b", L(<<B(TRUE)>>)),
                  SetAt(V("b"), N(0), Op2("TOK_EQUALS", B(TRUE), N(1)))>>)}
=============================================================================
