------------------------------ MODULE MCScopes ------------------------------
(***************************************************************************)
(* Four names, declared in every order and mentioned in between; the table *)
(* starts with room for one, so that it is enlarged twice.                 *)
(***************************************************************************)
EXTENDS Scopes

CONSTANTS f, x, y, z

FewNames == {f, x, y, z}
FewTypes == {int_type, ArrayOf(bool_type)}
=============================================================================
