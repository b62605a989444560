----------------------------- MODULE TokenStream -----------------------------
(***************************************************************************)
(* What the lexer promises: the source, read from the front, is cut into   *)
(* its longest lexemes.  No positions, no characters looked at one by one, *)
(* no buffers.                                                             *)
(***************************************************************************)
EXTENDS LexicalGrammar, FiniteSetsExt

CONSTANT Sources

VARIABLES rest,      \* the part of the source not yet cut
          tokens, state

-----------------------------------------------------------------------------
Trimmed ==
  LET blank == {k \in 0 .. Len(rest) : \A i \in 1 .. k : rest[i] \in Space}
  IN  SubSeq(rest, Max(blank) + 1, Len(rest))

StreamInit == rest \in Sources /\ tokens = <<>> /\ state = "reading"

Cut ==
  /\ state = "reading" /\ Lexemes(Trimmed) # {}
  /\ LET n == Max(Lexemes(Trimmed))
         s == SubSeq(Trimmed, 1, n)
     IN  /\ ~TooLong(s)
         /\ \E t \in Readings(s) : tokens' = Append(tokens, t)
         /\ rest' = SubSeq(Trimmed, n + 1, Len(Trimmed))
  /\ UNCHANGED state

End ==
  /\ state = "reading" /\ Trimmed = <<>>
  /\ rest' = <<>> /\ tokens' = Append(tokens, Token("TOK_EOF")) /\ state' = "ended"

Fail ==
  /\ state = "reading" /\ Trimmed # <<>>
  /\ Lexemes(Trimmed) = {} \/ TooLong(SubSeq(Trimmed, 1, Max(Lexemes(Trimmed))))
  /\ state' = "failed" /\ UNCHANGED <<rest, tokens>>

StreamSpec == StreamInit /\ [][Cut \/ End \/ Fail]_<<rest, tokens, state>>
=============================================================================
