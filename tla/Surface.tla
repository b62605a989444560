------------------------------- MODULE Surface -------------------------------
(***************************************************************************)
(* Shorthand for syntax trees, so that the model checking modules below    *)
(* can list programs the way they are written in the language.             *)
(***************************************************************************)
EXTENDS AST

int_array    == ArrayOf(int_type)
bool_array   == ArrayOf(bool_type)
string_array == ArrayOf(string_type)
int_matrix   == ArrayOf(int_array)

N(n)    == make_int(n)
B(b)    == make_bool(b)
S(c)    == make_string(<<c>>)
L(es)   == make_arr_literal(es)
V(name) == make_var_ref(<<name>>)

Op2(op, a, b) == make_binary_op(op, a, b)
Plus(a, b)    == Op2("TOK_PLUS", a, b)
Minus(e)      == make_unary_op("TOK_MINUS", e)
Negated(e)    == make_unary_op("TOK_EXCLAM", e)
At2(a, i)     == make_arr_index(a, i)

Var(type, name, e) == make_var_decl(<<name>>, e, type)
Set(name, e)       == make_var_assign(<<name>>, e)
SetAt(a, i, e)     == make_arr_index_assign(At2(a, i), e)
Bump(op, name, e)  == make_compound_assignment(op, <<name>>, e)

(* while (i < n) { i += 1; body };                                         *)
CountTo(n, i, body) ==
  make_while(Op2("TOK_LESS", V(i), N(n)), <<Bump("TOK_PLUS_EQUALS", i, N(1))>> \o body)
=============================================================================
