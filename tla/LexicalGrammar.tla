----------------------------- MODULE LexicalGrammar ----------------------------
(***************************************************************************)
(* The lexemes of the language and the tokens they stand for, as sets of   *)
(* texts: nothing here says how a lexer finds them.                        *)
(***************************************************************************)
EXTENDS Tokens, FiniteSets

CONSTANTS
  INT_DIGITS,    \* digits of a number at most: 10
  IDENT_MAX,     \* letters of a word at most: 255
  ALLOC_MAX      \* the largest capacity realloc grants a text's buffer

-----------------------------------------------------------------------------
(* Texts.  A character is escaped if an odd number of backslashes stands   *)
(* directly before it.                                                     *)

Backslashes(s, i) == {k \in 1 .. i - 2 : \A j \in i - k .. i - 1 : s[j] = Slash}
IsEscaped(s, i)   == Cardinality(Backslashes(s, i)) % 2 = 1

Closes(s, i) == s[i] = Quote /\ ~IsEscaped(s, i)

IsText(s) ==
  /\ Len(s) >= 2 /\ s[1] = Quote
  /\ Closes(s, Len(s)) /\ \A i \in 2 .. Len(s) - 1 : ~Closes(s, i)

(* What a text stands for: its characters up to the n-th without the       *)
(* backslashes that escape another, in their order.                        *)
Kept(s, n) == {i \in 2 .. n : ~(s[i] = Slash /\ ~IsEscaped(s, i))}

CharOf(s, i) == IF IsEscaped(s, i) THEN Escaped(s[i]) ELSE s[i]

Nth(K, k) == CHOOSE i \in K : Cardinality({j \in K : j <= i}) = k

Spelled(s, K) == [k \in 1 .. Cardinality(K) |-> CharOf(s, Nth(K, k))]

TextOf(s) == Spelled(s, Kept(s, Len(s) - 1))

-----------------------------------------------------------------------------
(* Lexemes.  A number of more than INT_DIGITS digits is several.           *)

IsNumber(s) == Len(s) \in 1 .. INT_DIGITS /\ \A i \in 1 .. Len(s) : s[i] \in Digits
IsWord(s)   == Len(s) > 0 /\ \A i \in 1 .. Len(s) : s[i] \in Alphas

Operators ==
  {<<<<c>>, Alone[c]>> : c \in DOMAIN Alone} \cup {<<<<c>>, Plain[c]>> : c \in DOMAIN Plain}
    \cup {<<<<c, "=">>, WithEquals[c]>> : c \in DOMAIN WithEquals}
    \cup {<<<<c, c>>, Twice[c]>> : c \in DOMAIN Twice}

Readings(s) ==
  {Token(o[2]) : o \in {p \in Operators : p[1] = s}}
    \cup (IF IsWord(s)   THEN {WordToken(s)} ELSE {})
    \cup (IF IsText(s)   THEN {StringToken(TextOf(s))} ELSE {})
    \cup (IF IsNumber(s) THEN {IntToken(NumberOf(s))} ELSE {})
    \cup (IF Len(s) = 1 /\ s[1] \in {Slash, "?"} THEN {Token("TOK_UNKNOWN")} ELSE {})

(* The lengths of the lexemes s begins with.                               *)
Lexemes(s) == {n \in 1 .. Len(s) : Readings(SubSeq(s, 1, n)) # {}}

(* Names and texts have a longest length.                                  *)
TooLong(s) == (IsWord(s) /\ Len(s) > IDENT_MAX) \/ (IsText(s) /\ Len(TextOf(s)) > ALLOC_MAX)
=============================================================================
