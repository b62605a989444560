------------------------------- MODULE MCLexer -------------------------------
(***************************************************************************)
(* Every text of up to four characters that meet in some loop or branch of *)
(* the lexer, and some longer ones: literals at their limits and after     *)
(* them, a keyword that is only a beginning, unterminated strings.         *)
(***************************************************************************)
EXTENDS Lexer

Some == {"i", "f", "1", "9", "=", "+", "&", Quote, Slash, " ", ";"}

Longer ==
  {<<Quote, "i", "f", "1", "=", Quote, ";">>,
   <<Quote, "i", Slash, "n", Slash, Quote, "+", Quote>>,
   <<Quote, "i", Slash, Slash, Quote, "?", "|", "|">>,
   <<"v", "a", "r", " ", "i", "n", "t", "\t", "x", "=", "7", ";">>,
   <<"f", "n", "i", "1", "2", "1", "2", "1">>,
   <<Quote, "1", "1", "1", "1", Slash>>}

LexerSources == UNION {[1 .. n -> Some] : n \in 0 .. 4} \cup Longer
=============================================================================
