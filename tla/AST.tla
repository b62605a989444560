--------------------------------- MODULE AST ---------------------------------
(***************************************************************************)
(* Syntax trees: ASTNode of parser.h and the make_ functions of parser.c   *)
(* the parser builds them with.                                            *)
(*                                                                         *)
(* The variants of the C union share one record: `kids' lists the children *)
(* in the order the passes visit them, and `split' tells where the         *)
(* statements of an if end and those of its else begin.  Names and texts   *)
(* are sequences of characters.                                            *)
(***************************************************************************)
EXTENDS Values

NoSlot == -2                  \* `slot' before the resolver assigned it
NoElse == -1                  \* `split' of an if without an else

Blank == [kind |-> "none", op |-> "", name |-> <<>>, slot |-> NoSlot,
          var_type |-> unknown_type, int_val |-> 0, text |-> <<>>, kids |-> <<>>,
          split |-> NoElse, params |-> <<>>]

make_int(n)      == [Blank EXCEPT !.kind = "AST_INT", !.int_val = n]
make_bool(p)     == [Blank EXCEPT !.kind = "AST_BOOL", !.int_val = IF p THEN 1 ELSE 0]
make_string(str) == [Blank EXCEPT !.kind = "AST_STRING", !.text = str]

make_arr_literal(exprs)     == [Blank EXCEPT !.kind = "AST_ARRAY", !.kids = exprs]
make_arr_index(array, idx)  == [Blank EXCEPT !.kind = "AST_ARRAY_INDEX", !.kids = <<array, idx>>]

make_arr_index_assign(target, value) ==
  [Blank EXCEPT !.kind = "AST_ARRAY_INDEX_ASSIGN", !.kids = <<target, value>>]

make_binary_op(op, left, right) ==
  [Blank EXCEPT !.kind = "AST_BINARY_OP", !.op = op, !.kids = <<left, right>>]

make_unary_op(op, right) == [Blank EXCEPT !.kind = "AST_UNARY_OP", !.op = op, !.kids = <<right>>]

make_compound_assignment(op, name, value) ==
  [Blank EXCEPT !.kind = "AST_COMPOUND_ASSIGNMENT", !.op = op, !.name = name, !.kids = <<value>>]

make_var_decl(name, value, type) ==
  [Blank EXCEPT !.kind = "AST_VAR_DECL", !.name = name, !.kids = <<value>>, !.var_type = type]

make_var_assign(name, value) ==
  [Blank EXCEPT !.kind = "AST_VAR_ASSIGN", !.name = name, !.kids = <<value>>]

make_var_ref(name) == [Blank EXCEPT !.kind = "AST_VAR_REF", !.name = name]

make_if(condition, success) ==
  [Blank EXCEPT !.kind = "AST_IF", !.kids = <<condition>> \o success]

make_if_else(condition, success, fail) ==
  [Blank EXCEPT !.kind = "AST_IF", !.kids = <<condition>> \o success \o fail,
                !.split = Len(success)]

make_while(condition, statements) ==
  [Blank EXCEPT !.kind = "AST_WHILE", !.kids = <<condition>> \o statements]

make_function_call(args, name) ==
  [Blank EXCEPT !.kind = "AST_FUNCTION_CALL", !.name = name, !.kids = args]

(* The parameters, each a name and a type, are read by no pass.            *)
make_function_decl(stmts, params, return_type, name) ==
  [Blank EXCEPT !.kind = "AST_FUNCTION_DECL", !.name = name, !.kids = stmts,
                !.params = params, !.var_type = return_type]

make_return(expr)        == [Blank EXCEPT !.kind = "AST_RETURN_STMT", !.kids = <<expr>>]
make_program(statements) == [Blank EXCEPT !.kind = "AST_PROGRAM", !.kids = statements]

-----------------------------------------------------------------------------
(* The parts of an if and of a while.                                      *)

Condition(node) == node.kids[1]
HasElse(node)   == node.split # NoElse
Success(node)   == IF HasElse(node) THEN SubSeq(node.kids, 2, node.split + 1) ELSE Tail(node.kids)
Fail(node)      == SubSeq(node.kids, node.split + 2, Len(node.kids))
Body(node)      == Tail(node.kids)
=============================================================================
