-------------------------------- MODULE Tokens --------------------------------
(***************************************************************************)
(* Tokens (lexer.h) and the spelling of those that have a fixed one: what  *)
(* the lexer, the parser and the abstract token stream have in common.     *)
(***************************************************************************)
EXTENDS Values

TokenType ==
  {"TOK_UNKNOWN", "TOK_ERROR", "TOK_PLUS", "TOK_PLUS_EQUALS", "TOK_MINUS", "TOK_MINUS_EQUALS",
   "TOK_MULT", "TOK_MULT_EQUALS", "TOK_DIV", "TOK_DIV_EQUALS", "TOK_LPAREN", "TOK_RPAREN",
   "TOK_ASSIGN", "TOK_SEMICOLON", "TOK_EXCLAM", "TOK_LESS", "TOK_GREATER", "TOK_COLON",
   "TOK_LBRACE", "TOK_RBRACE", "TOK_MODULO", "TOK_AND", "TOK_OR", "TOK_EQUALS",
   "TOK_NOT_EQUALS", "TOK_LESS_EQUALS", "TOK_GREATER_EQUALS", "TOK_VAR", "TOK_TRUE",
   "TOK_FALSE", "TOK_WHILE", "TOK_IF", "TOK_ELSE", "TOK_IDENT", "TOK_STRING", "TOK_INT",
   "TOK_TYPE", "TOK_LBRACKET", "TOK_RBRACKET", "TOK_COMMA", "TOK_FN", "TOK_RETURN", "TOK_EOF"}

(* The members of the union `value' are kept apart; the length and the     *)
(* start of the literal are read by nobody but token_string.               *)
Token(type) ==
  [type |-> type, int_val |-> 0, ident_val |-> <<>>, string_val |-> <<>>, type_val |-> "int"]

TypeToken(b)      == [Token("TOK_TYPE") EXCEPT !.type_val = b]
IdentToken(name)  == [Token("TOK_IDENT") EXCEPT !.ident_val = name]
StringToken(text) == [Token("TOK_STRING") EXCEPT !.string_val = text]

(* lex_parse_int returns -1 for a literal above INT_MAX.                   *)
ErrorToken  == [Token("TOK_ERROR") EXCEPT !.int_val = -1]
IntToken_cut(n) == [Token("TOK_INT") EXCEPT !.int_val = n]      \* mutant: no limit
IntToken(n) == IF n > INT_MAX THEN ErrorToken ELSE [Token("TOK_INT") EXCEPT !.int_val = n]

-----------------------------------------------------------------------------
(* Characters.  NUL ends the source and is not part of it.                 *)

NUL   == "NUL"
Quote == "\""
Slash == "\\"

Space  == {" ", "\t", "\n", "\r"}
Digits == {"0", "1", "2", "3", "4", "5", "6", "7", "8", "9"}
Alphas ==
  {"a", "b", "c", "d", "e", "f", "g", "h", "i", "j", "k", "l", "m", "n", "o", "p", "q", "r",
   "s", "t", "u", "v", "w", "x", "y", "z", "A", "B", "C", "D", "E", "F", "G", "H", "I", "J",
   "K", "L", "M", "N", "O", "P", "Q", "R", "S", "T", "U", "V", "W", "X", "Y", "Z", "_"}

DigitValue(c) == CHOOSE n \in 0 .. 9 : <<"0", "1", "2", "3", "4", "5", "6", "7", "8", "9">>[n + 1] = c

NumberOf(digits) ==
  LET value[n \in 0 .. Len(digits)] ==
        IF n = 0 THEN 0 ELSE 10 * value[n - 1] + DigitValue(digits[n])
  IN  value[Len(digits)]

(* The characters escapes stand for; an unknown escape is the character.   *)
Escaped(c) ==
  CASE c = "n" -> "\n" [] c = "t" -> "\t" [] c = "r" -> "\r" [] c = "0" -> NUL [] OTHER -> c

-----------------------------------------------------------------------------
(* Operators: of one character, those that may be followed by =, and those *)
(* that must be doubled.                                                   *)

Alone ==
  [c \in {"(", ")", ";", ":", "{", "}", "[", "]", ",", "%"} |->
     CASE c = "(" -> "TOK_LPAREN"   [] c = ")" -> "TOK_RPAREN"   [] c = ";" -> "TOK_SEMICOLON"
       [] c = ":" -> "TOK_COLON"    [] c = "{" -> "TOK_LBRACE"   [] c = "}" -> "TOK_RBRACE"
       [] c = "[" -> "TOK_LBRACKET" [] c = "]" -> "TOK_RBRACKET" [] c = "," -> "TOK_COMMA"
       [] c = "%" -> "TOK_MODULO"]

Plain ==
  [c \in {"+", "-", "*", "/", "=", "!", "<", ">"} |->
     CASE c = "+" -> "TOK_PLUS"   [] c = "-" -> "TOK_MINUS"  [] c = "*" -> "TOK_MULT"
       [] c = "/" -> "TOK_DIV"    [] c = "=" -> "TOK_ASSIGN" [] c = "!" -> "TOK_EXCLAM"
       [] c = "<" -> "TOK_LESS"   [] c = ">" -> "TOK_GREATER"]

WithEquals ==
  [c \in DOMAIN Plain |->
     CASE c = "+" -> "TOK_PLUS_EQUALS" [] c = "-" -> "TOK_MINUS_EQUALS"
       [] c = "*" -> "TOK_MULT_EQUALS" [] c = "/" -> "TOK_DIV_EQUALS"
       [] c = "=" -> "TOK_EQUALS"      [] c = "!" -> "TOK_NOT_EQUALS"
       [] c = "<" -> "TOK_LESS_EQUALS" [] c = ">" -> "TOK_GREATER_EQUALS"]

Twice == [c \in {"&", "|"} |-> IF c = "&" THEN "TOK_AND" ELSE "TOK_OR"]

(* A word is a keyword, the name of a type, or an identifier.              *)
WordToken(w) ==
  CASE w = <<"i", "f">>                     -> Token("TOK_IF")
    [] w = <<"f", "n">>                     -> Token("TOK_FN")
    [] w = <<"v", "a", "r">>                -> Token("TOK_VAR")
    [] w = <<"t", "r", "u", "e">>           -> Token("TOK_TRUE")
    [] w = <<"e", "l", "s", "e">>           -> Token("TOK_ELSE")
    [] w = <<"f", "a", "l", "s", "e">>      -> Token("TOK_FALSE")
    [] w = <<"w", "h", "i", "l", "e">>      -> Token("TOK_WHILE")
    [] w = <<"r", "e", "t", "u", "r", "n">> -> Token("TOK_RETURN")
    [] w = <<"i", "n", "t">>                -> TypeToken("int")
    [] w = <<"b", "o", "o", "l">>           -> TypeToken("bool")
    [] w = <<"s", "t", "r", "i", "n", "g">> -> TypeToken("string")
    [] OTHER                                -> IdentToken(w)
=============================================================================
