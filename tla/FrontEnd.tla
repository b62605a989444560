------------------------------- MODULE FrontEnd -------------------------------
(***************************************************************************)
(* parse_program on the tokens of a program as it should be written, and   *)
(* on tokens nobody wrote a program with.                                  *)
(***************************************************************************)
EXTENDS Parser, Spelling

CONSTANTS Trees,      \* programs to be written down and read back
          Inputs      \* sets of token sequences without TOK_EOF

VARIABLES written,    \* the program the tokens come from, Blank if from none
          tokens, outcome, tree

frontvars == <<written, tokens, outcome, tree>>

FrontInit ==
  /\ \/ \E t \in Trees : written = t /\ tokens = SpellProgram(t)
     \/ written = Blank /\ \E some \in Inputs : tokens \in some
  /\ outcome = "unread" /\ tree = Blank

Read ==
  /\ outcome = "unread"
  /\ \E empty_ok \in BOOLEAN :
       LET done == parse_program(parser_init(tokens, empty_ok))
       IN  tree' = done.result /\ outcome' = IF done.ok THEN "accepted" ELSE "refused"
  /\ UNCHANGED <<written, tokens>>

FrontSpec == FrontInit /\ [][Read]_frontvars

-----------------------------------------------------------------------------
(* Properties.                                                             *)

(* A list that make_program, make_function_call or make_function_decl      *)
(* cuts down to no bytes.                                                  *)
RECURSIVE HasEmptyList(_)
HasEmptyList(node) ==
  \/ node.kind \in {"AST_PROGRAM", "AST_FUNCTION_CALL", "AST_FUNCTION_DECL"} /\ node.kids = <<>>
  \/ node.kind = "AST_FUNCTION_DECL" /\ node.params = <<>>
  \/ \E i \in DOMAIN node.kids : HasEmptyList(node.kids[i])

(* A program written with the parentheses that precedence, associativity   *)
(* and the two kinds of assignment call for is read back as it was, and    *)
(* refused only where realloc may fail for want of anything to keep.       *)
SpellingsAreRead ==
  written # Blank =>
    /\ outcome = "accepted" => tree = written
    /\ outcome = "refused" => HasEmptyList(written)

(* A bracket where an element is due: [] and [1,].  There the bracket is   *)
(* left to whatever comes next, and [[] is accepted.                       *)
ElementMissing ==
  \E i \in 2 .. Len(tokens) :
    /\ tokens[i].type = "TOK_RBRACKET"
    /\ \/ tokens[i - 1].type = "TOK_COMMA"
       \/ /\ tokens[i - 1].type = "TOK_LBRACKET"
          /\ i > 2 => tokens[i - 2].type \notin {"TOK_TYPE", "TOK_RBRACKET"}

(* Nothing is skipped and nothing made up: what the parser accepts is, up  *)
(* to grouping parentheses, what the tree it returns is written as.        *)
ReadingsAreSpellings ==
  outcome = "accepted" /\ ~ElementMissing =>
    Ungrouped(tokens) = Ungrouped(SpellProgram(tree))
=============================================================================
