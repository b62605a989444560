------------------------------ MODULE Resolver ------------------------------
(***************************************************************************)
(* resolve of resolver.c: the pass over the tree that gives every variable *)
(* its slot and its declared type.                                         *)
(***************************************************************************)
EXTENDS AST, SymbolTable, SequencesExt

-----------------------------------------------------------------------------
(* The pass.  A result is the annotated node, the table after it, and      *)
(* whether it got there (ok) or the program was refused with exit(1).      *)

Uses     == {"AST_VAR_ASSIGN", "AST_VAR_REF", "AST_COMPOUND_ASSIGNMENT", "AST_FUNCTION_CALL"}
Declares == {"AST_VAR_DECL", "AST_FUNCTION_DECL"}

ResolveName(node, r) ==
  LET slot == resolver_lookup(r, node.name)
  IN  CASE node.kind \in Uses /\ slot # -1 ->
             [node |-> [node EXCEPT !.slot = slot, !.var_type = TypeAt(r, slot)],
              table |-> r, ok |-> TRUE]
        [] node.kind \in Declares /\ ~Declared(r, node.name) ->
             [node |-> [node EXCEPT !.slot = NewSlot(r)],
              table |-> resolver_declare(r, node.name, node.var_type), ok |-> TRUE]
        [] node.kind \notin Uses \cup Declares -> [node |-> node, table |-> r, ok |-> TRUE]
        [] OTHER -> [node |-> node, table |-> r, ok |-> FALSE]

(* Children first, in order, each with the table its siblings left; the    *)
(* node's own name last.  A return statement is not looked into.           *)
RECURSIVE resolve(_, _)
resolve(node, r) ==
  LET visit(sofar, kid) ==
        IF ~sofar.ok THEN sofar
        ELSE LET done == resolve(kid, sofar.table)
             IN  [kids |-> Append(sofar.kids, done.node), table |-> done.table, ok |-> done.ok]
      kids == FoldLeft(visit, [kids |-> <<>>, table |-> r, ok |-> TRUE], node.kids)
  IN  CASE node.kind = "AST_RETURN_STMT" -> [node |-> node, table |-> r, ok |-> TRUE]
        [] node.kind # "AST_RETURN_STMT" /\ ~kids.ok ->
             [node |-> node, table |-> kids.table, ok |-> FALSE]
        [] OTHER -> ResolveName([node EXCEPT !.kids = kids.kids], kids.table)
=============================================================================
