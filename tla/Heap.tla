--------------------------------- MODULE Heap ---------------------------------
(***************************************************************************)
(* Programs over the heap.                                                 *)
(*                                                                         *)
(* Arrays: two arrays of int of which one is also an element of an array   *)
(* of arrays and known under a second name, so that what is written or     *)
(* appended through one of them shows through the others; indices in and   *)
(* beyond the end; enough appends to grow the storage.                     *)
(*                                                                         *)
(* Strings: two variables, an array of strings and an index into it,       *)
(* strings moved between them, read several times, in branches and loops,  *)
(* appended, and concatenated.  SCONCAT counts its operands down once too  *)
(* often (the run finding_concat).  Here every operand of a concatenation  *)
(* is used once: a literal outside loops, or the result of another one.    *)
(***************************************************************************)
EXTENDS Surface

ArrayOpening ==
  <<Var(int_array, "a", L(<<N(1), N(2)>>)), Var(int_array, "b", V("a")),
    Var(int_matrix, "n", L(<<V("a"), L(<<N(3)>>)>>)), Var(int_type, "i", N(1))>>

Elements ==
  {V("i"), At2(V("a"), N(0)), At2(V("a"), V("i")), At2(V("b"), N(2)),
   At2(At2(V("n"), N(0)), V("i")), At2(V("a"), At2(V("a"), N(0)))}

IntArrays ==
  {V("a"), At2(V("n"), V("i")), Plus(V("a"), V("i")), Plus(At2(V("n"), N(0)), N(7)),
   Plus(Plus(V("b"), N(4)), At2(V("a"), N(0))), L(<<V("i"), N(2)>>)}

ArrayStatements ==
  Elements \cup IntArrays
    \cup {Set("b", e) : e \in IntArrays}
    \cup {SetAt(V("b"), j, e) : j \in {N(0), V("i"), N(2)}, e \in {N(5), At2(V("a"), V("i"))}}
    \cup {SetAt(At2(V("n"), V("i")), N(0), V("i"))}
    \cup {SetAt(V("n"), V("i"), e) : e \in {V("a"), L(<<N(6)>>)}}
    \cup {Plus(V("n"), e) : e \in {V("b"), L(<<N(6)>>)}}
    \cup {CountTo(3, "i", <<Set("a", Plus(V("a"), V("i")))>>),
          CountTo(3, "i", <<Set("n", Plus(V("n"), V("a"))), At2(V("n"), V("i"))>>)}

ArrayPrograms == {make_program(ArrayOpening \o <<s, t>>) : s \in ArrayStatements, t \in ArrayStatements}

-----------------------------------------------------------------------------
StringOpening ==
  <<Var(string_type, "s", S("a")), Var(string_type, "t", Plus(S("b"), S("c"))),
    Var(string_array, "q", L(<<V("s"), S("d")>>)), Var(int_type, "i", N(0))>>

Strings == {V("s"), V("t"), S("e"), At2(V("q"), V("i")), At2(V("q"), N(1)), Plus(S("f"), S("g"))}

StringArrays == {V("q"), L(<<V("t"), S("h")>>)} \cup {Plus(V("q"), e) : e \in {V("s"), S("k")}}

Repeatable ==
  {V("s"), Set("s", V("t")), Set("t", At2(V("q"), V("i"))), SetAt(V("q"), V("i"), V("t")),
   Set("s", S("e")), Set("q", Plus(V("q"), V("t")))}

StringStatements ==
  Strings \cup StringArrays \cup Repeatable
    \cup {Set("t", e) : e \in Strings} \cup {Set("q", e) : e \in StringArrays}
    \cup {SetAt(V("q"), V("i"), e) : e \in {V("s"), Plus(S("f"), S("g"))}}
    \cup {Plus(Plus(S("f"), S("g")), S("h"))}
    \cup {make_if(Op2("TOK_EQUALS", V("i"), N(0)), <<s>>) : s \in {V("t"), Set("s", V("t"))}}

StringLoops == {CountTo(2, "i", <<s>>) : s \in Repeatable}

StringPrograms ==
  {make_program(StringOpening \o <<s, t>>) : s \in StringStatements, t \in StringStatements}
    \cup {make_program(StringOpening \o <<l, s>>) : l \in StringLoops, s \in Repeatable}

HeapPrograms == ArrayPrograms \cup StringPrograms
=============================================================================
