---------------------------- MODULE ReadingProofs ----------------------------
(***************************************************************************)
(* The lexer implements TokenStream: for every source text and every size  *)
(* of its buffers, the tokens it returns are the longest-match reading of  *)
(* the text.                                                               *)
(***************************************************************************)
EXTENDS LexerProofs, FiniteSetsExt

(* The lexemes of the abstract reading are those of LexicalGrammar.        *)
LEMMA SameTokens ==
  /\ Reading!Space = Space
  /\ \A type : Reading!Token(type) = Token(type)
BY DEF Reading!Space, Space, Reading!Token, Token

LEMMA SameTexts ==
  /\ \A s : Reading!IsText(s) <=> IsText(s)
  /\ \A s : Reading!TextOf(s) = TextOf(s)
<1>0. \A S : Reading!Cardinality(S) = Cardinality(S)
  BY Zenon DEF Reading!Cardinality, Cardinality
<1>1. Reading!Slash = Slash /\ Reading!Quote = Quote
  BY DEF Reading!Slash, Slash, Reading!Quote, Quote
<1>2. \A s, i : Reading!Backslashes(s, i) = Backslashes(s, i)
  BY <1>1, Zenon DEF Reading!Backslashes, Backslashes
<1>3. \A s, i : Reading!IsEscaped(s, i) <=> IsEscaped(s, i)
  BY <1>0, <1>2, Zenon DEF Reading!IsEscaped, IsEscaped
<1>4. \A s, i : Reading!Closes(s, i) <=> Closes(s, i)
  BY <1>1, <1>3, Zenon DEF Reading!Closes, Closes
<1>5. \A c : Reading!Escaped(c) = Escaped(c)
  BY Zenon DEF Reading!Escaped, Escaped, Reading!NUL, NUL
<1>6. \A s, i : Reading!CharOf(s, i) = CharOf(s, i)
  BY <1>3, <1>5, SMT DEF Reading!CharOf, CharOf
<1>7. \A s, n : Reading!Kept(s, n) = Kept(s, n)
  BY <1>1, <1>3, SMT DEF Reading!Kept, Kept
<1>8. \A K, k : Reading!Nth(K, k) = Nth(K, k)
  BY <1>0, SMT DEF Reading!Nth, Nth
<1>9. \A s, K : Reading!Spelled(s, K) = Spelled(s, K)
  BY <1>0, <1>6, <1>8, SMT DEF Reading!Spelled, Spelled
<1> QED
  BY <1>1, <1>4, <1>7, <1>9, Zenon DEF Reading!IsText, IsText, Reading!TextOf, TextOf

LEMMA SameWords ==
  /\ \A s : Reading!IsWord(s) <=> IsWord(s)
  /\ \A s : Reading!IsNumber(s) <=> IsNumber(s)
  /\ \A s : Reading!NumberOf(s) = NumberOf(s)
  /\ \A s : Reading!WordToken(s) = WordToken(s)
BY Zenon DEF Reading!IsWord, IsWord, Reading!IsNumber, IsNumber, Reading!Alphas, Alphas, Reading!Digits, Digits,
   Reading!NumberOf, NumberOf, Reading!DigitValue, DigitValue, Reading!WordToken, WordToken,
   Reading!Token, Token, Reading!TypeToken, TypeToken, Reading!IdentToken, IdentToken
LEMMA SameOperators ==
  Reading!Operators = Operators
<1>1. Reading!Alone = Alone /\ Reading!Plain = Plain /\ Reading!Twice = Twice
  BY Zenon DEF Reading!Alone, Alone, Reading!Plain, Plain, Reading!Twice, Twice
<1>2. Reading!WithEquals = WithEquals
  BY Zenon DEF Reading!WithEquals, WithEquals, Reading!Plain, Plain
<1> QED
  BY <1>1, <1>2, Zenon DEF Reading!Operators, Operators

LEMMA SameReadings ==
  /\ \A s : Reading!Readings(s) = Readings(s)
  /\ \A s : Reading!TooLong(s) <=> TooLong(s)
  /\ \A s : Reading!Lexemes(s) = Lexemes(s)
<1>1. Reading!Slash = Slash
  BY DEF Reading!Slash, Slash
<1>2. \A text : Reading!StringToken(text) = StringToken(text)
  BY Zenon DEF Reading!StringToken, StringToken, Reading!Token, Token
<1>3. \A n : Reading!IntToken(n) = IntToken(n)
  BY Zenon DEF Reading!IntToken, IntToken, Reading!ErrorToken, ErrorToken, Reading!Token, Token
<1>4. \A s : Reading!Readings(s) = Readings(s)
  <2> TAKE s
  <2>1. {Reading!Token(o[2]) : o \in {p \in Reading!Operators : p[1] = s}}
          = {Token(o[2]) : o \in {p \in Operators : p[1] = s}}
    BY SameTokens, SameOperators, Zenon
  <2>2. {Reading!Token("TOK_UNKNOWN")} = {Token("TOK_UNKNOWN")}
    BY SameTokens
  <2>3. Reading!IsWord(s) <=> IsWord(s)
    BY SameWords
  <2>4. Reading!IsText(s) <=> IsText(s)
    BY SameTexts
  <2>5. Reading!IsNumber(s) <=> IsNumber(s)
    BY SameWords
  <2>6. {Reading!WordToken(s)} = {WordToken(s)} /\ {Reading!IntToken(Reading!NumberOf(s))} = {IntToken(NumberOf(s))}
        /\ {Reading!StringToken(Reading!TextOf(s))} = {StringToken(TextOf(s))}
    BY <1>2, <1>3, SameWords, SameTexts
  <2> QED
    BY <1>1, <2>1, <2>2, <2>3, <2>4, <2>5, <2>6 DEF Reading!Readings, Readings
<1>5. \A s : Reading!TooLong(s) <=> TooLong(s)
  BY SameWords, SameTexts, Zenon DEF Reading!TooLong, TooLong
<1>6. \A s : Reading!Lexemes(s) = Lexemes(s)
  BY <1>4, SMT DEF Reading!Lexemes, Lexemes
<1> QED
  BY <1>4, <1>5, <1>6

-----------------------------------------------------------------------------
(* Where the lexer is in its source.  Ahead(b) is what follows the b-th    *)
(* character, Blank(b) says that a call has only skipped blanks up to it.  *)
Ahead(b) == SubSeq(src, b + 1, Len(src))
Blank(b) == b \in start .. Len(src) /\ \A i \in start + 1 .. b : src[i] \in Space

(* The number, word or text a call is copying begins behind the b-th       *)
(* character; buf holds what has been read of it.  Of a text that ends     *)
(* with the source nothing is said: it is never returned.                  *)
CopiedFrom(b, Chars) ==
  /\ b < Len(src) /\ Ahead(b)[1] \in Chars
  /\ buf = SubSeq(Ahead(b), 1, pos - b) /\ \A i \in 1 .. pos - b : Ahead(b)[i] \in Chars

TextFrom(b) ==
  /\ b < pos /\ Ahead(b)[1] = Quote /\ \A i \in 2 .. pos - b : ~Closes(Ahead(b), i)
  /\ \/ pos = Len(src)
     \/ ~IsEscaped(Ahead(b), pos - b + 1) /\ buf = Spelled(Ahead(b), Kept(Ahead(b), pos - b))

ReadInv ==
  /\ mode = "idle"   => Blank(pos)
  /\ mode = "int"    => \E b \in start .. pos : Blank(b) /\ CopiedFrom(b, Digits)
  /\ mode = "ident"  => \E b \in start .. pos : Blank(b) /\ CopiedFrom(b, Alphas)
  /\ mode = "string" => \E b \in start .. pos : Blank(b) /\ TextFrom(b)

LEMMA AheadIs ==
  ASSUME src \in Seq(Char), NEW b \in 0 .. Len(src)
  PROVE  /\ Len(src) \in Nat
         /\ Ahead(b) \in Seq(Char) /\ Len(Ahead(b)) = Len(src) - b
         /\ \A i \in 1 .. Len(src) - b : Ahead(b)[i] = src[b + i]
<1>1. Len(src) \in Nat /\ \A i \in b + 1 .. Len(src) : src[i] \in Char
  BY LenProperties, ElementOfSeq
<1> QED
  BY <1>1, SubSeqProperties DEF Ahead

LEMMA Places ==
  ASSUME LexInv
  PROVE  /\ src \in Seq(Char) /\ Len(src) \in Nat /\ pos \in 0 .. Len(src) /\ start \in 0 .. pos
         /\ current = CharAt(src, pos)
         /\ \A b \in start .. Len(src) : b \in 0 .. Len(src)
         /\ \A b \in start .. pos : b \in 0 .. Len(src) /\ b \in start .. Len(src)
BY LenProperties DEF LexInv, CopiesFit

(* What follows n characters more.                                         *)
LEMMA AheadAgain ==
  ASSUME src \in Seq(Char), NEW b \in 0 .. Len(src), NEW n \in 0 .. Len(src) - b
  PROVE  SubSeq(Ahead(b), n + 1, Len(Ahead(b))) = Ahead(b + n)
<1> DEFINE s == Ahead(b)
           t == SubSeq(s, n + 1, Len(s))
           u == Ahead(b + n)
<1>1. /\ Len(src) \in Nat /\ s \in Seq(Char) /\ Len(s) = Len(src) - b
      /\ \A i \in 1 .. Len(src) - b : s[i] = src[b + i]
  BY AheadIs
<1>2. b + n \in 0 .. Len(src)
  BY <1>1
<1>3. /\ u \in Seq(Char) /\ Len(u) = Len(src) - (b + n)
      /\ \A i \in 1 .. Len(src) - (b + n) : u[i] = src[(b + n) + i]
  BY <1>2, AheadIs
<1> HIDE DEF s, u
<1>4. /\ t \in Seq(Char) /\ Len(t) = IF n + 1 <= Len(s) THEN Len(s) - (n + 1) + 1 ELSE 0
      /\ \A i \in 1 .. Len(s) - (n + 1) + 1 : t[i] = s[(n + 1) + i - 1]
  <2>1. \A i \in n + 1 .. Len(s) : s[i] \in Char
    BY <1>1, ElementOfSeq
  <2>2. n + 1 \in Int /\ Len(s) \in Int
    BY <1>1
  <2> QED
    BY <2>1, <2>2, SubSeqProperties
<1> HIDE DEF t
<1>5. Len(t) = Len(u) /\ Len(t) = Len(src) - (b + n)
  <2>1. /\ Len(s) - (n + 1) + 1 = Len(src) - (b + n)
        /\ ~(n + 1 <= Len(s)) => Len(src) - (b + n) = 0
    <3>1. Len(src) \in Nat /\ Len(s) = Len(src) - b
      BY <1>1
    <3>2. b \in Nat /\ n \in Nat /\ n <= Len(src) - b
      BY <1>1
    <3> QED
      BY ONLY <3>1, <3>2
  <2> QED
    BY <1>3, <1>4, <2>1
<1>6. \A i \in 1 .. Len(t) : t[i] = u[i]
  <2> TAKE i \in 1 .. Len(t)
  <2>1. /\ i \in 1 .. Len(s) - (n + 1) + 1 /\ i \in 1 .. Len(src) - (b + n)
        /\ (n + 1) + i - 1 \in 1 .. Len(src) - b /\ b + ((n + 1) + i - 1) = (b + n) + i
    BY <1>1, <1>3, <1>5
  <2> QED
    BY <1>1, <1>3, <1>4, <2>1
<1>7. t = u
  BY <1>3, <1>4, <1>5, <1>6, SeqEqual
<1> QED
  BY <1>7 DEF s, t, u

(* The character under the lexer, and the next one.                        *)
LEMMA CharsAhead ==
  ASSUME LexInv, NEW b \in start .. pos
  PROVE  /\ pos < Len(src) => current = Ahead(b)[pos - b + 1]
         /\ pos = Len(src) => current = NUL
         /\ pos + 1 < Len(src) => Following = Ahead(b)[pos - b + 2]
         /\ pos + 1 >= Len(src) => Following = NUL
<1>1. /\ src \in Seq(Char) /\ Len(src) \in Nat /\ pos \in 0 .. Len(src) /\ b \in 0 .. Len(src)
      /\ b \in 0 .. pos /\ current = CharAt(src, pos)
  BY Places
<1>2. \A i \in 1 .. Len(src) - b : Ahead(b)[i] = src[b + i]
  BY <1>1, AheadIs
<1>3. pos < Len(src) => Ahead(b)[pos - b + 1] = src[pos + 1]
  <2>1. pos < Len(src) => pos - b + 1 \in 1 .. Len(src) - b /\ b + (pos - b + 1) = pos + 1
    BY <1>1
  <2> QED
    BY <1>2, <2>1
<1>4. pos + 1 < Len(src) => Ahead(b)[pos - b + 2] = src[pos + 2]
  <2>1. pos + 1 < Len(src) => pos - b + 2 \in 1 .. Len(src) - b /\ b + (pos - b + 2) = pos + 2
    BY <1>1
  <2> QED
    BY <1>2, <2>1
<1> QED
  BY <1>1, <1>3, <1>4 DEF CharAt, Following

LEMMA NulIsNoChar == NUL \notin Char
BY CharsAreNotNul DEF Char, Space, Slash, NUL

-----------------------------------------------------------------------------
(* Steps of the abstract reading.                                          *)

LEMMA GreatestIs ==
  ASSUME NEW T, T \subseteq Nat, NEW n \in T, \A k \in T : k <= n
  PROVE  Reading!Max(T) = n
<1>1. \A x \in T : (\A y \in T : x >= y) => x = n
  <2> SUFFICES ASSUME NEW x \in T, \A y \in T : x >= y PROVE x = n
    OBVIOUS
  <2>1. x >= n /\ x <= n /\ x \in Nat /\ n \in Nat
    OBVIOUS
  <2> QED
    BY <2>1
<1>2. \A y \in T : n >= y
  <2> TAKE y \in T
  <2>1. y \in Nat /\ n \in Nat /\ y <= n
    OBVIOUS
  <2> QED
    BY <2>1
<1> QED
  BY <1>1, <1>2 DEF Reading!Max

LEMMA TrimmedIs ==
  ASSUME LexInv, NEW b, Blank(b), b = Len(src) \/ src[b + 1] \notin Space
  PROVE  Reading!Trimmed = Ahead(b)
<1> DEFINE rest == SubSeq(src, start + 1, Len(src))
           blank == {k \in 0 .. Len(rest) : \A i \in 1 .. k : rest[i] \in Space}
<1>1. /\ src \in Seq(Char) /\ Len(src) \in Nat /\ start \in 0 .. Len(src) /\ b \in 0 .. Len(src)
      /\ start <= b
  BY Places DEF Blank
<1>2. /\ rest \in Seq(Char) /\ Len(rest) = Len(src) - start
      /\ \A i \in 1 .. Len(src) - start : rest[i] = src[start + i]
  BY <1>1, AheadIs DEF Ahead
<1> HIDE DEF rest
<1>3. b - start \in blank
  <2>1. \A i \in 1 .. b - start : rest[i] \in Space
    <3> TAKE i \in 1 .. b - start
    <3>1. start + i \in start + 1 .. b /\ i \in 1 .. Len(src) - start
      BY <1>1
    <3> QED
      BY <1>2, <3>1 DEF Blank
  <2> QED
    BY <1>1, <1>2, <2>1
<1>4. \A k \in blank : k <= b - start
  <2> SUFFICES ASSUME NEW k \in blank, ~(k <= b - start) PROVE FALSE
    OBVIOUS
  <2>1. k \in 0 .. Len(src) - start /\ \A i \in 1 .. k : rest[i] \in Space
    BY <1>2
  <2>2. b - start + 1 \in 1 .. k /\ b - start + 1 \in 1 .. Len(src) - start
        /\ start + (b - start + 1) = b + 1 /\ b # Len(src)
    BY <1>1, <2>1
  <2> QED
    BY <1>2, <2>1, <2>2
<1>5. Reading!Max(blank) = b - start
  <2>1. blank \subseteq Nat
    OBVIOUS
  <2> HIDE DEF blank
  <2> QED
    BY <1>3, <1>4, <2>1, GreatestIs
<1>6. Reading!Trimmed = SubSeq(rest, b - start + 1, Len(rest))
  BY <1>5, SameTokens DEF Reading!Trimmed, rest, blank
<1>7. SubSeq(Ahead(start), (b - start) + 1, Len(Ahead(start))) = Ahead(start + (b - start))
  <2>1. b - start \in 0 .. Len(src) - start
    BY <1>1
  <2> QED
    BY <1>1, <2>1, AheadAgain
<1>8. start + (b - start) = b
  BY <1>1
<1> QED
  BY <1>6, <1>7, <1>8 DEF rest, Ahead

LEMMA CutStep ==
  ASSUME LexInv, mode \notin Ended, NEW b, Blank(b), b < Len(src), src[b + 1] \notin Space,
         NEW n \in 1 .. Len(src) - b, n \in Lexemes(Ahead(b)), \A m \in Lexemes(Ahead(b)) : m <= n,
         ~TooLong(SubSeq(Ahead(b), 1, n)), NEW t \in Readings(SubSeq(Ahead(b), 1, n)),
         tokens' = Append(tokens, t), start' = b + n, src' = src, mode' = "idle"
  PROVE  Reading!Cut
<1>1. Reading!Trimmed = Ahead(b)
  BY TrimmedIs
<1>2. b \in 0 .. Len(src) /\ src \in Seq(Char) /\ Len(src) \in Nat
  BY Places DEF Blank
<1>3. Reading!Lexemes(Ahead(b)) = Lexemes(Ahead(b)) /\ Reading!Max(Lexemes(Ahead(b))) = n
  <2>1. Lexemes(Ahead(b)) \subseteq Nat
    BY DEF Lexemes
  <2> QED
    BY <2>1, GreatestIs, SameReadings
<1>4. SubSeq(src, start + 1, Len(src))' = SubSeq(Ahead(b), n + 1, Len(Ahead(b)))
  <2>1. SubSeq(Ahead(b), n + 1, Len(Ahead(b))) = Ahead(b + n)
    <3>1. n \in 0 .. Len(src) - b
      BY <1>2
    <3> QED
      BY <1>2, <3>1, AheadAgain
  <2> QED
    BY <2>1 DEF Ahead
<1>5. mode # "eof" /\ mode \notin Exits /\ mode' # "eof" /\ mode' \notin Exits
  BY DEF Ended, Exits
<1> QED
  BY <1>1, <1>3, <1>4, <1>5, SameReadings DEF Reading!Cut

LEMMA FailStep ==
  ASSUME LexInv, mode \notin Ended, NEW b, Blank(b), b < Len(src), src[b + 1] \notin Space,
         \/ Lexemes(Ahead(b)) = {}
         \/ \E n \in Lexemes(Ahead(b)) : /\ \A m \in Lexemes(Ahead(b)) : m <= n
                                       /\ TooLong(SubSeq(Ahead(b), 1, n)),
         NEW why \in Exits, Exit(why)
  PROVE  Reading!Fail
<1>1. Reading!Trimmed = Ahead(b)
  BY TrimmedIs
<1>2. Ahead(b) # <<>>
  <2>1. b \in 0 .. Len(src) /\ Len(Ahead(b)) = Len(src) - b /\ Len(src) \in Nat
    BY Places, AheadIs DEF Blank
  <2>2. Len(<<>>) = 0
    OBVIOUS
  <2> QED
    BY <2>1, <2>2
<1>3. \/ Lexemes(Ahead(b)) = {}
      \/ TooLong(SubSeq(Ahead(b), 1, Reading!Max(Lexemes(Ahead(b)))))
  <2>1. Lexemes(Ahead(b)) \subseteq Nat
    BY DEF Lexemes
  <2> QED
    BY <2>1, GreatestIs
<1>4. Reading!Lexemes(Ahead(b)) = Lexemes(Ahead(b))
  BY SameReadings
<1>5. mode # "eof" /\ mode \notin Exits /\ mode' \in Exits /\ mode' # "eof"
  BY DEF Ended, Exits, Exit
<1>6. src' = src /\ start' = start /\ tokens' = tokens
  BY DEF Exit
<1> QED
  BY <1>1, <1>2, <1>3, <1>4, <1>5, <1>6, SameReadings DEF Reading!Fail

LEMMA EndStep ==
  ASSUME LexInv, ReadInv, Eof
  PROVE  Reading!End
<1>1. mode = "idle" /\ Blank(pos) /\ current = NUL
  BY DEF Eof, ReadInv
<1>2. src \in Seq(Char) /\ pos \in 0 .. Len(src) /\ Len(src) \in Nat /\ current = CharAt(src, pos)
  BY Places
<1>3. pos = Len(src)
  <2>1. ASSUME pos < Len(src) PROVE FALSE
    <3>1. src[pos + 1] \in Char /\ current = src[pos + 1]
      BY <1>2, <2>1, ElementOfSeq DEF CharAt
    <3> QED
      BY <1>1, <3>1, NulIsNoChar
  <2> QED
    BY <1>2, <2>1
<1>4. Ahead(pos) = <<>>
  BY <1>2, <1>3, SubSeqEmpty DEF Ahead
<1>5. Reading!Trimmed = <<>>
  BY <1>1, <1>3, <1>4, TrimmedIs
<1>6. SubSeq(src, start + 1, Len(src))' = <<>> /\ tokens' = Append(tokens, Token("TOK_EOF")) /\ mode' = "eof"
  BY <1>4 DEF Eof, Ahead
<1> QED
  BY <1>1, <1>5, <1>6, SameTokens DEF Reading!End, Exits

LEMMA NoStep ==
  ASSUME src' = src, start' = start, tokens' = tokens, mode \notin Ended, mode' \notin Ended
  PROVE  UNCHANGED <<SubSeq(src, start + 1, Len(src)), tokens,
                     CASE mode = "eof" -> "ended" [] mode \in Exits -> "failed" [] OTHER -> "reading">>
BY DEF Ended

(* A token is returned: the lexeme that ends where the call stops is cut   *)
(* off, if it is the longest.                                              *)
LEMMA ReturnCuts ==
  ASSUME LexInv, mode \notin Ended, NEW b \in start .. pos, Blank(b), b < Len(src),
         src[b + 1] \notin Space,
         NEW k \in Nat, NEW t, Return(t, k),
         NEW n \in 1 .. Len(src) - b, pos + k = b + n,
         n \in Lexemes(Ahead(b)), \A m \in Lexemes(Ahead(b)) : m <= n,
         ~TooLong(SubSeq(Ahead(b), 1, n)), t \in Readings(SubSeq(Ahead(b), 1, n))
  PROVE  Reading!Cut
<1>1. /\ pos' = IF pos + k < Len(src) THEN pos + k ELSE Len(src)
      /\ start' = pos' /\ src' = src /\ tokens' = Append(tokens, t) /\ mode' = "idle"
  BY DEF Return, lex_advance
<1>2. b \in 0 .. Len(src) /\ Len(src) \in Nat /\ pos \in 0 .. Len(src)
  BY Places
<1>3. pos' = b + n
  BY <1>1, <1>2
<1> QED
  BY <1>1, <1>3, CutStep

(* The lexer is at the first character of what follows the blanks.         *)
LEMMA AtTheFirst ==
  ASSUME LexInv, ReadInv, mode = "idle", current \notin Space \cup {NUL}
  PROVE  /\ pos \in start .. pos /\ Blank(pos) /\ pos < Len(src) /\ src[pos + 1] \notin Space
         /\ Ahead(pos) \in Seq(Char) /\ Len(Ahead(pos)) = Len(src) - pos /\ Len(src) - pos \in Nat \ {0}
         /\ Ahead(pos)[1] = current
         /\ Len(src) - pos >= 2 => Following = Ahead(pos)[2]
         /\ ~(Len(src) - pos >= 2) => Following = NUL
<1>1. /\ src \in Seq(Char) /\ Len(src) \in Nat /\ pos \in 0 .. Len(src) /\ start \in 0 .. pos
      /\ current = CharAt(src, pos)
  BY Places
<1>2. pos \in start .. pos /\ Blank(pos)
  BY <1>1 DEF ReadInv
<1>3. pos < Len(src)
  BY <1>1 DEF CharAt
<1>4. src[pos + 1] \notin Space
  BY <1>1, <1>3 DEF CharAt
<1>5. Ahead(pos) \in Seq(Char) /\ Len(Ahead(pos)) = Len(src) - pos
  BY <1>1, AheadIs
<1>6. /\ pos < Len(src) => current = Ahead(pos)[pos - pos + 1]
      /\ pos + 1 < Len(src) => Following = Ahead(pos)[pos - pos + 2]
      /\ pos + 1 >= Len(src) => Following = NUL
  BY <1>2, CharsAhead
<1>7. pos - pos + 1 = 1 /\ pos - pos + 2 = 2 /\ Len(src) - pos \in Nat \ {0}
      /\ (Len(src) - pos >= 2 <=> pos + 1 < Len(src))
      /\ (pos + 1 < Len(src) \/ pos + 1 >= Len(src))
  BY <1>1, <1>3
<1> QED
  BY <1>2, <1>3, <1>4, <1>5, <1>6, <1>7

(* Tokens of one or two fixed characters.                                  *)
LEMMA OperatorReads ==
  ASSUME LexInv, ReadInv, Operator \/ Unknown
  PROVE  Reading!Cut \/ Reading!Fail
<1> DEFINE s == Ahead(pos)
           N == Len(src) - pos
<1>1. mode = "idle" /\ mode \notin Ended
  BY DEF Operator, Unknown, Ended, Exits
<1>2. current \in Char \cup {NUL}
  BY Places, CharAtIsCopied DEF Copied
<1>3. Unknown => current \in {Slash, "?"}
  BY <1>2 DEF Unknown, Char
<1>4. current \in DOMAIN Alone \cup DOMAIN Plain \cup DOMAIN Twice \cup {Slash, "?"}
  BY <1>3 DEF Operator
<1>5. current \notin Space \cup {NUL}
  BY <1>4, KindsDiffer, CharsAreNotNul DEF Slash, NUL
<1>6. /\ pos \in start .. pos /\ Blank(pos) /\ pos < Len(src) /\ src[pos + 1] \notin Space
      /\ s \in Seq(Char) /\ Len(s) = N /\ N \in Nat \ {0} /\ s[1] = current
      /\ N >= 2 => Following = s[2]
      /\ ~(N >= 2) => Following = NUL
  BY <1>1, <1>5, AtTheFirst
<1>7. \A n \in 1 .. N : ~TooLong(SubSeq(s, 1, n))
  BY <1>4, <1>6, LexemesOfOperator
<1>8. Lexemes(s) \subseteq 1 .. N
  BY <1>6 DEF Lexemes
<1>9. pos \in Nat
  BY DEF LexInv
<1> HIDE DEF s
<1>10. SubSeq(s, 1, 1) = <<current>>
  <2> DEFINE t == SubSeq(s, 1, 1)
  <2>1. t \in Seq(Char) /\ Len(t) = 1 /\ t[1] = current
    BY <1>6, PrefixOfSeq
  <2> HIDE DEF t
  <2>2. t = <<current>>
    BY <2>1, OneOrTwo
  <2> QED
    BY <2>2 DEF t
<1>11. N >= 2 => SubSeq(s, 1, 2) = <<current, Following>>
  <2> SUFFICES ASSUME N >= 2 PROVE SubSeq(s, 1, 2) = <<current, Following>>
    OBVIOUS
  <2> DEFINE t == SubSeq(s, 1, 2)
  <2>1. t \in Seq(Char) /\ Len(t) = 2 /\ t[1] = current /\ t[2] = Following
    BY <1>6, PrefixOfSeq
  <2> HIDE DEF t
  <2>2. t = <<current, Following>>
    BY <2>1, OneOrTwo
  <2> QED
    BY <2>2 DEF t
<1>12. ASSUME NEW t, Return(t, 1), 1 \in Lexemes(s), \A m \in Lexemes(s) : m <= 1,
              t \in Readings(<<current>>)
       PROVE  Reading!Cut
  <2>1. 1 \in 1 .. Len(src) - pos /\ pos + 1 = pos + 1
    BY <1>6
  <2> QED
    BY <1>1, <1>6, <1>7, <1>10, <1>12, <2>1, ReturnCuts DEF s
<1>13. ASSUME NEW t, Return(t, 2), 2 \in Lexemes(s), t \in Readings(<<current, Following>>),
              \A m \in Lexemes(s) : m <= 2
       PROVE  Reading!Cut
  <2>1. N >= 2 /\ 2 \in 1 .. Len(src) - pos
    BY <1>8, <1>13
  <2> QED
    BY <1>1, <1>6, <1>7, <1>11, <1>13, <2>1, ReturnCuts DEF s
<1>14. CASE current \in DOMAIN Alone \cup {Slash, "?"}
  <2>1. 1 \in Lexemes(s) /\ \A m \in Lexemes(s) : m <= 1
    <3>1. \A n \in 1 .. N : n \in Lexemes(s) <=> n = 1
      BY <1>6, <1>14, LexemesOfOperator
    <3> QED
      BY <1>6, <1>8, <3>1
  <2>2. current \in DOMAIN Alone =>
          /\ Return(Token(Alone[current]), 1) /\ Token(Alone[current]) \in Readings(<<current>>)
    BY <1>3, KindsDiffer, ReadingOfOperator DEF Operator
  <2>3. current \in {Slash, "?"} =>
          /\ Return(Token("TOK_UNKNOWN"), 1) /\ Token("TOK_UNKNOWN") \in Readings(<<current>>)
    <3>1. current \in {Slash, "?"} => Unknown
      BY KindsDiffer DEF Operator
    <3>2. current \in {Slash, "?"} => Token("TOK_UNKNOWN") \in Readings(<<current>>)
      BY ReadingOfOthers
    <3> QED
      BY <3>1, <3>2 DEF Unknown
  <2> QED
    BY <1>12, <1>14, <2>1, <2>2, <2>3
<1>15. CASE current \in DOMAIN Plain
  <2>1. \A n \in 1 .. N : n \in Lexemes(s) <=> n = 1 \/ (n = 2 /\ s[2] = "=")
    BY <1>6, <1>15, LexemesOfOperator
  <2>2. Operator /\ ~(current \in DOMAIN Alone) /\ ~(current \in DOMAIN Twice)
    BY <1>3, <1>15, KindsDiffer
  <2>3. CASE Following = "="
    <3>1. N >= 2 /\ s[2] = "="
      BY <1>6, <2>3 DEF NUL
    <3>2. 2 \in Lexemes(s) /\ \A m \in Lexemes(s) : m <= 2
      BY <1>6, <1>8, <2>1, <3>1
    <3>3. Return(Token(WithEquals[current]), 2)
      BY <2>2, <2>3, <1>15 DEF Operator
    <3>4. Token(WithEquals[current]) \in Readings(<<current, Following>>)
      BY <1>15, <2>3, ReadingOfOperator
    <3> QED
      BY <1>13, <3>2, <3>3, <3>4
  <2>4. CASE Following # "="
    <3>1. 1 \in Lexemes(s) /\ \A m \in Lexemes(s) : m <= 1
      BY <1>6, <1>8, <2>1, <2>4
    <3>2. Return(Token(Plain[current]), 1)
      BY <2>2, <2>4, <1>15 DEF Operator
    <3>3. Token(Plain[current]) \in Readings(<<current>>)
      BY <1>15, ReadingOfOperator
    <3> QED
      BY <1>12, <3>1, <3>2, <3>3
  <2> QED
    BY <2>3, <2>4
<1>16. CASE current \in DOMAIN Twice
  <2>1. \A n \in 1 .. N : n \in Lexemes(s) <=> n = 2 /\ s[2] = s[1]
    BY <1>6, <1>16, LexemesOfOperator
  <2>2. Operator /\ ~(current \in DOMAIN Alone) /\ ~(current \in DOMAIN Plain)
    BY <1>3, <1>16, KindsDiffer
  <2>3. CASE Following = current
    <3>1. N >= 2 /\ s[2] = s[1]
      BY <1>5, <1>6, <2>3
    <3>2. 2 \in Lexemes(s) /\ \A m \in Lexemes(s) : m <= 2
      BY <1>6, <1>8, <2>1, <3>1
    <3>3. Return(Token(Twice[current]), 2)
      BY <2>2, <2>3, <1>16 DEF Operator
    <3>4. Token(Twice[current]) \in Readings(<<current, Following>>)
      BY <1>16, <2>3, ReadingOfOperator
    <3> QED
      BY <1>13, <3>2, <3>3, <3>4
  <2>4. CASE Following # current
    <3>1. Lexemes(s) = {}
      BY <1>6, <1>8, <2>1, <2>4
    <3>2. Exit("second character expected")
      BY <2>2, <2>4, <1>16 DEF Operator
    <3> QED
      BY <1>1, <1>6, <3>1, <3>2, FailStep DEF s, Exits
  <2> QED
    BY <2>3, <2>4
<1> QED
  BY <1>4, <1>14, <1>15, <1>16

-----------------------------------------------------------------------------
(* Copying.                                                                *)

LEMMA SamePlace ==
  ASSUME src' = src, start' = start, NEW b
  PROVE  Ahead(b)' = Ahead(b) /\ (Blank(b)' <=> Blank(b))
BY DEF Ahead, Blank

LEMMA ReturnRestarts ==
  ASSUME LexInv', NEW t, NEW n, Return(t, n)
  PROVE  ReadInv'
<1>1. start' = pos' /\ mode' = "idle"
  BY DEF Return
<1>2. pos' \in Nat /\ pos' <= Len(src') /\ Len(src') \in Nat
  BY LenProperties DEF LexInv, CopiesFit
<1>3. Blank(pos)'
  <2>1. pos' \in start' .. Len(src')
    BY <1>1, <1>2
  <2>2. \A i \in start' + 1 .. pos' : src'[i] \in Space'
    <3>1. \A m \in Nat : \A i \in m + 1 .. m : FALSE
      OBVIOUS
    <3>2. pos' \in Nat /\ start' = pos'
      BY <1>1, <1>2
    <3> QED
      BY ONLY <3>1, <3>2
  <2> QED
    BY <2>1, <2>2 DEF Blank
<1> QED
  BY <1>1, <1>3 DEF ReadInv

LEMMA ExitForgets ==
  ASSUME NEW why \in Exits, Exit(why)
  PROVE  ReadInv'
BY DEF Exit, Exits, ReadInv

(* One more character of a number or a word.                               *)
LEMMA CopyGoesOn ==
  ASSUME LexInv, NEW Chars, NUL \notin Chars, NEW b \in start .. pos, Blank(b),
         CopiedFrom(b, Chars), current \in Chars, Copy(current, 1)
  PROVE  b \in start' .. pos' /\ Blank(b)' /\ CopiedFrom(b, Chars)'
<1> DEFINE s == Ahead(b)
           p == pos - b
<1>1. /\ src \in Seq(Char) /\ Len(src) \in Nat /\ pos \in 0 .. Len(src) /\ start \in 0 .. pos
      /\ b \in 0 .. Len(src)
  BY Places
<1>2. /\ pos < Len(src) => current = s[pos - b + 1]
      /\ pos = Len(src) => current = NUL
  BY CharsAhead
<1>3. pos < Len(src) /\ current = s[p + 1]
  BY <1>1, <1>2
<1>4. src' = src /\ start' = start /\ buf' = Append(buf, current) /\ pos' = pos + 1
  BY <1>1, <1>3 DEF Copy, lex_advance
<1>5. s \in Seq(Char) /\ Len(s) = Len(src) - b
  BY <1>1, AheadIs
<1>6. Ahead(b)' = s /\ Blank(b)'
  BY <1>4, SamePlace
<1>7. buf = SubSeq(s, 1, p) /\ s[1] \in Chars /\ b < Len(src) /\ \A i \in 1 .. p : s[i] \in Chars
  BY DEF CopiedFrom
<1>8. p \in Nat /\ p + 1 \in 1 .. Len(s) /\ pos' - b = p + 1 /\ (p + 1) - 1 = p
  BY <1>1, <1>3, <1>4, <1>5
<1>9. b \in start' .. pos'
  BY <1>1, <1>4
<1> HIDE DEF s, p
<1>10. buf' = SubSeq(s, 1, p + 1)
  <2>1. 1 \in 1 .. Len(s) /\ p + 1 \in 1 .. Len(s)
    BY <1>8
  <2>2. SubSeq(s, 1, p + 1) = SubSeq(s, 1, (p + 1) - 1) \o <<s[p + 1]>>
    BY <1>5, <2>1, SubSeqRecursiveSecond
  <2>3. SubSeq(s, 1, p) \in Seq(Char) /\ s[p + 1] \in Char
    BY <1>5, <1>8, PrefixOfSeq, ElementOfSeq
  <2>4. Append(SubSeq(s, 1, p), s[p + 1]) = SubSeq(s, 1, p) \o <<s[p + 1]>>
    BY <2>3, AppendIsConcat
  <2> QED
    BY <1>3, <1>4, <1>7, <1>8, <2>2, <2>4
<1>11. \A i \in 1 .. p + 1 : s[i] \in Chars
  <2> TAKE i \in 1 .. p + 1
  <2>1. i \in 1 .. p \/ i = p + 1
    BY <1>8
  <2> QED
    BY <1>3, <1>7, <2>1
<1> QED
  BY <1>4, <1>6, <1>7, <1>8, <1>9, <1>10, <1>11 DEF CopiedFrom

LEMMA NumberReads ==
  ASSUME LexInv, LexInv', ReadInv, lex_parse_int
  PROVE  ReadInv' /\ (Reading!Cut \/ (src' = src /\ start' = start /\ tokens' = tokens /\ mode' = mode))
<1>1. mode = "int" /\ mode \notin Ended
  BY DEF lex_parse_int, Ended, Exits
<1>2. PICK b \in start .. pos : Blank(b) /\ CopiedFrom(b, Digits)
  BY <1>1 DEF ReadInv
<1>3. CASE MoreDigits
  <2>1. Copy(current, 1) /\ current \in Digits
    BY <1>3 DEF lex_parse_int, MoreDigits
  <2>2. b \in start' .. pos' /\ Blank(b)' /\ CopiedFrom(b, Digits)'
    BY <1>2, <2>1, CharsAreNotNul, CopyGoesOn
  <2>3. src' = src /\ start' = start /\ tokens' = tokens /\ mode' = mode
    BY <2>1 DEF Copy
  <2> QED
    BY <1>1, <2>2, <2>3 DEF ReadInv
<1>4. CASE ~MoreDigits
  <2> DEFINE s == Ahead(b)
             p == pos - b
  <2>1. /\ src \in Seq(Char) /\ Len(src) \in Nat /\ pos \in 0 .. Len(src) /\ start \in 0 .. pos
        /\ b \in 0 .. Len(src) /\ b <= pos
    BY <1>2, Places
  <2>2. s \in Seq(Char) /\ Len(s) = Len(src) - b /\ s[1] = src[b + 1]
    <3>1. b < Len(src)
      BY <1>2 DEF CopiedFrom
    <3> QED
      BY <2>1, <3>1, AheadIs
  <2>3. b < Len(src) /\ s[1] \in Digits /\ buf = SubSeq(s, 1, p) /\ \A i \in 1 .. p : s[i] \in Digits
    BY <1>2 DEF CopiedFrom
  <2>4. pos < Len(src) => current = s[p + 1]
    BY <1>2, CharsAhead
  <2>5. p \in 0 .. Len(s)
    BY <2>1, <2>2
  <2> HIDE DEF s
  <2>6. Len(buf) = p
    BY <2>2, <2>3, <2>5, PrefixOfSeq
  <2>7. p < Len(s) /\ s[p + 1] \in Digits => p >= INT_DIGITS
    <3>1. p < Len(s) => pos < Len(src)
      BY <2>1, <2>2
    <3>2. INT_DIGITS \in Nat /\ p \in Nat
      BY <2>5, LexerBoundsAssumption
    <3> QED
      BY <1>4, <2>4, <2>6, <3>1, <3>2 DEF MoreDigits
  <2>8. p >= 1
    <3>1. p = 0 => p + 1 = 1 /\ p < Len(s) /\ ~(p >= INT_DIGITS)
      BY <2>1, <2>2, <2>3, LexerBoundsAssumption
    <3> QED
      BY <2>3, <2>5, <2>7, <3>1
  <2>9. p <= INT_DIGITS
    BY <1>1, <2>6 DEF LexInv, CopiesFit
  <2>10. \A m \in 1 .. Len(s) : m \in Lexemes(s) <=> m <= INT_DIGITS /\ \A i \in 1 .. m : s[i] \in Digits
    BY <2>2, <2>3, LexemesOfLiteral
  <2>11. p \in 1 .. Len(s) /\ p \in Lexemes(s)
    BY <2>3, <2>5, <2>8, <2>9, <2>10
  <2>12. \A m \in Lexemes(s) : m <= p
    <3> SUFFICES ASSUME NEW m \in Lexemes(s), ~(m <= p) PROVE FALSE
      OBVIOUS
    <3>1. m \in 1 .. Len(s)
      BY DEF Lexemes
    <3>2. p + 1 \in 1 .. m /\ p < Len(s)
      BY <2>2, <2>5, <2>1, <3>1
    <3>3. m <= INT_DIGITS /\ s[p + 1] \in Digits
      BY <2>10, <3>1, <3>2
    <3>4. INT_DIGITS \in Nat /\ m \in Nat /\ p \in Nat
      BY <2>5, <3>1, LexerBoundsAssumption
    <3> QED
      BY <2>7, <3>2, <3>3, <3>4
  <2>13. ~TooLong(SubSeq(s, 1, p))
    BY <2>2, <2>3, <2>11, LexemesOfLiteral
  <2>14. IntToken(NumberOf(buf)) \in Readings(SubSeq(s, 1, p))
    <3>1. IsNumber(SubSeq(s, 1, p))
      <4>1. /\ Len(SubSeq(s, 1, p)) = p
            /\ \A i \in 1 .. p : SubSeq(s, 1, p)[i] = s[i]
        BY <2>2, <2>5, PrefixOfSeq
      <4>2. p \in 1 .. INT_DIGITS
        BY <2>8, <2>9, <2>5, LexerBoundsAssumption
      <4> QED
        BY <2>3, <4>1, <4>2 DEF IsNumber
    <3> QED
      BY <2>3, <3>1, ReadingOfOthers
  <2>15. Return(IntToken(NumberOf(buf)), 0)
    BY <1>4 DEF lex_parse_int
  <2>16. p \in 1 .. Len(src) - b /\ pos + 0 = b + p
    BY <2>1, <2>2, <2>11
  <2>17. src[b + 1] \notin Space
    BY <2>2, <2>3, KindsDiffer
  <2>18. Reading!Cut
    BY <1>1, <1>2, <2>3, <2>11, <2>12, <2>13, <2>14, <2>15, <2>16, <2>17, ReturnCuts DEF s
  <2> QED
    BY <2>15, <2>18, ReturnRestarts
<1> QED
  BY <1>3, <1>4

LEMMA WordReads ==
  ASSUME LexInv, LexInv', ReadInv, lex_parse_ident
  PROVE  ReadInv' /\ (Reading!Cut \/ Reading!Fail
                       \/ (src' = src /\ start' = start /\ tokens' = tokens /\ mode' = mode))
<1> DEFINE Goes == src' = src /\ start' = start /\ tokens' = tokens /\ mode' = mode
<1>1. mode = "ident" /\ mode \notin Ended
  BY DEF lex_parse_ident, Ended, Exits
<1>2. PICK b \in start .. pos : Blank(b) /\ CopiedFrom(b, Alphas)
  BY <1>1 DEF ReadInv
<1> DEFINE s == Ahead(b)
           p == pos - b
<1>3. /\ src \in Seq(Char) /\ Len(src) \in Nat /\ pos \in 0 .. Len(src) /\ start \in 0 .. pos
      /\ b \in 0 .. Len(src) /\ b <= pos
  BY <1>2, Places
<1>4. s \in Seq(Char) /\ Len(s) = Len(src) - b /\ s[1] = src[b + 1]
  <2>1. b < Len(src)
    BY <1>2 DEF CopiedFrom
  <2> QED
    BY <1>3, <2>1, AheadIs
<1>5. b < Len(src) /\ s[1] \in Alphas /\ buf = SubSeq(s, 1, p) /\ \A i \in 1 .. p : s[i] \in Alphas
  BY <1>2 DEF CopiedFrom
<1>6. p \in 0 .. Len(s) /\ IDENT_MAX \in Nat
  BY <1>3, <1>4, LexerBoundsAssumption
<1>7. /\ p < Len(s) => current = s[p + 1]
      /\ ~(p < Len(s)) => current = NUL
  <2>1. (p < Len(s) => pos < Len(src)) /\ (~(p < Len(s)) => pos = Len(src))
    BY <1>3, <1>4
  <2> QED
    BY <1>2, <2>1, CharsAhead
<1>8. src[b + 1] \notin Space
  BY <1>4, <1>5, KindsDiffer
<1> HIDE DEF s
<1>9. Len(buf) = p
  BY <1>4, <1>5, <1>6, PrefixOfSeq
<1>10. \A m \in 1 .. Len(s) : /\ m \in Lexemes(s) <=> \A i \in 1 .. m : s[i] \in Alphas
                              /\ m \in Lexemes(s) => (TooLong(SubSeq(s, 1, m)) <=> m > IDENT_MAX)
  BY <1>4, <1>5, LexemesOfLiteral
<1>11. Lexemes(s) \subseteq 1 .. Len(s)
  BY DEF Lexemes
<1>12. CASE current \notin Alphas
  <2>1. p >= 1
    <3>1. p = 0 => p + 1 = 1 /\ p < Len(s)
      BY <1>3, <1>4, <1>5
    <3> QED
      BY <1>5, <1>6, <1>7, <1>12, <3>1
  <2>2. p \in 1 .. Len(s) /\ p \in Lexemes(s)
    BY <1>5, <1>6, <1>10, <2>1
  <2>3. \A m \in Lexemes(s) : m <= p
    <3> SUFFICES ASSUME NEW m \in Lexemes(s), ~(m <= p) PROVE FALSE
      OBVIOUS
    <3>1. m \in 1 .. Len(s)
      BY <1>11
    <3>2. p + 1 \in 1 .. m /\ p < Len(s)
      BY <1>3, <1>4, <1>6, <3>1
    <3> QED
      BY <1>7, <1>10, <1>12, <3>1, <3>2
  <2>4. p <= IDENT_MAX
    BY <1>1, <1>9 DEF LexInv, CopiesFit
  <2>5. ~TooLong(SubSeq(s, 1, p))
    BY <1>6, <1>10, <2>2, <2>4
  <2>6. WordToken(buf) \in Readings(SubSeq(s, 1, p))
    <3>1. /\ Len(SubSeq(s, 1, p)) = p
          /\ \A i \in 1 .. p : SubSeq(s, 1, p)[i] = s[i]
      BY <1>4, <1>6, PrefixOfSeq
    <3>2. IsWord(SubSeq(s, 1, p))
      BY <1>5, <1>6, <2>1, <3>1 DEF IsWord
    <3> QED
      BY <1>5, <3>2, ReadingOfOthers
  <2>7. Return(WordToken(buf), 0)
    BY <1>12 DEF lex_parse_ident
  <2>8. p \in 1 .. Len(src) - b /\ pos + 0 = b + p
    BY <1>3, <1>4, <2>2
  <2>9. Reading!Cut
    BY <1>1, <1>2, <1>5, <1>8, <2>2, <2>3, <2>5, <2>6, <2>7, <2>8, ReturnCuts DEF s
  <2> QED
    BY <2>7, <2>9, ReturnRestarts
<1>13. CASE current \in Alphas /\ Len(buf) >= IDENT_MAX
  <2>1. p < Len(s) /\ current = s[p + 1] /\ p + 1 \in 1 .. Len(s)
    BY <1>3, <1>4, <1>6, <1>7, <1>13, CharsAreNotNul
  <2>2. p + 1 \in Lexemes(s)
    <3>1. \A i \in 1 .. p + 1 : s[i] \in Alphas
      <4> TAKE i \in 1 .. p + 1
      <4>1. i \in 1 .. p \/ i = p + 1
        BY <1>6
      <4> QED
        BY <1>5, <1>13, <2>1, <4>1
    <3> QED
      BY <1>10, <2>1, <3>1
  <2>3. PICK n \in Lexemes(s) : \A m \in Lexemes(s) : m <= n
    <3>1. Lexemes(s) \subseteq 0 .. Len(s) /\ Len(s) \in Nat
      BY <1>3, <1>4, <1>11
    <3> QED
      BY <2>2, <3>1, GreatestNumber
  <2>4. TooLong(SubSeq(s, 1, n))
    <3>1. p + 1 <= n /\ n \in 1 .. Len(s)
      BY <1>11, <2>2, <2>3
    <3>2. n > IDENT_MAX
      BY <1>6, <1>9, <1>13, <3>1
    <3> QED
      BY <1>10, <2>3, <3>1, <3>2
  <2>5. Exit("identifier too long") /\ "identifier too long" \in Exits
    BY <1>13 DEF lex_parse_ident, Exits
  <2>6. Reading!Fail
    BY <1>1, <1>2, <1>5, <1>8, <2>3, <2>4, <2>5, FailStep DEF s
  <2> QED
    BY <2>5, <2>6, ExitForgets
<1>14. CASE current \in Alphas /\ ~(Len(buf) >= IDENT_MAX)
  <2>1. Copy(current, 1)
    BY <1>14 DEF lex_parse_ident
  <2>2. b \in start' .. pos' /\ Blank(b)' /\ CopiedFrom(b, Alphas)'
    BY <1>2, <1>14, <2>1, CharsAreNotNul, CopyGoesOn
  <2>3. Goes
    BY <2>1 DEF Copy
  <2> QED
    BY <1>1, <2>2, <2>3 DEF ReadInv
<1> QED
  BY <1>12, <1>13, <1>14

-----------------------------------------------------------------------------
(* Capacities double, and the largest that is granted is the last one.     *)

LEMMA Capacities ==
  /\ \A n \in 0 .. ALLOC_MAX : Capacity[n] \in Nat \ {0}
  /\ Capacity[0] = STRING_INIT
  /\ \A n \in 1 .. ALLOC_MAX : Capacity[n] = 2 * Capacity[n - 1]
<1> DEFINE L == ALLOC_MAX
           step == [n \in 1 .. L |-> [v \in Nat |-> 2 * v]]
           Def(f) == f = [n \in 0 .. L |-> IF n = 0 THEN STRING_INIT ELSE 2 * f[n - 1]]
<1>1. L \in Nat /\ STRING_INIT \in Nat \ {0}
  BY LexerBoundsAssumption
<1>2. step \in [1 .. L -> [Nat -> Nat]] /\ \A n \in 1 .. L, v \in Nat : step[n][v] = 2 * v
  OBVIOUS
<1> HIDE DEF step
<1>3. PICK g \in [0 .. L -> Nat] :
             \A n \in 0 .. L : g[n] = IF n = 0 THEN STRING_INIT ELSE step[n][g[n - 1]]
  BY <1>1, <1>2, RecursionHasSolution
<1>4. Def(g)
  <2>1. \A n \in 0 .. L : g[n] = IF n = 0 THEN STRING_INIT ELSE 2 * g[n - 1]
    <3> SUFFICES ASSUME NEW n \in 0 .. L, n # 0 PROVE g[n] = 2 * g[n - 1]
      BY <1>3
    <3>1. n \in 1 .. L /\ g[n - 1] \in Nat
      BY <1>1
    <3> QED
      BY <1>2, <1>3, <3>1
  <2> QED
    BY <2>1
<1>5. Def(Capacity)
  BY <1>4, Zenon DEF Capacity
<1>6. \A n \in 0 .. L : Capacity[n] \in Nat \ {0}
  <2> DEFINE U == {m \in 0 .. L : Capacity[m] \notin Nat \ {0}}
  <2>1. SUFFICES ASSUME U # {} PROVE FALSE
    OBVIOUS
  <2>2. U \subseteq Nat
    BY <1>1
  <2>3. PICK m \in U : \A k \in U : m <= k
    BY ONLY <2>1, <2>2, LeastNumber
  <2>4. m # 0
    BY <1>1, <1>5
  <2>5. m \in 1 .. L /\ m - 1 \in 0 .. L /\ Capacity[m - 1] \in Nat \ {0}
    BY <1>1, <2>3, <2>4
  <2>6. Capacity[m] = 2 * Capacity[m - 1]
    BY <1>1, <1>5, <2>5
  <2> QED
    BY <2>3, <2>5, <2>6
<1> QED
  BY <1>1, <1>5, <1>6

LEMMA CapacitiesGrow ==
  ASSUME NEW m \in 0 .. ALLOC_MAX, NEW n \in 0 .. ALLOC_MAX, m <= n
  PROVE  Capacity[m] <= Capacity[n]
<1> DEFINE U == {k \in m .. ALLOC_MAX : ~(Capacity[m] <= Capacity[k])}
<1>1. SUFFICES ASSUME U # {} PROVE FALSE
  OBVIOUS
<1>2. ALLOC_MAX \in Nat /\ U \subseteq Nat
  BY LexerBoundsAssumption
<1>3. PICK k \in U : \A j \in U : k <= j
  BY ONLY <1>1, <1>2, LeastNumber
<1>4. k \in m .. ALLOC_MAX /\ ~(Capacity[m] <= Capacity[k]) /\ Capacity[m] \in Nat
  BY Capacities
<1>5. k # m
  BY <1>4
<1>6. k \in 1 .. ALLOC_MAX /\ k - 1 \in m .. ALLOC_MAX /\ k - 1 \in 0 .. ALLOC_MAX
  BY <1>2, <1>4, <1>5
<1>7. Capacity[m] <= Capacity[k - 1]
  BY <1>2, <1>3, <1>6
<1>8. Capacity[k] = 2 * Capacity[k - 1] /\ Capacity[k - 1] \in Nat
  BY <1>6, Capacities
<1> QED
  BY <1>4, <1>7, <1>8

(* A capacity that cannot be doubled is the largest, and one that can has  *)
(* its double among the capacities.                                        *)
CapacityInv == \E n \in 0 .. ALLOC_MAX : capacity = Capacity[n]

LEMMA CapacityDoubles ==
  ASSUME CapacityInv, capacity <= ALLOC_MAX
  PROVE  /\ 2 * capacity > ALLOC_MAX => capacity = ALLOC_MAX
         /\ 2 * capacity <= ALLOC_MAX => \E n \in 0 .. ALLOC_MAX : 2 * capacity = Capacity[n]
<1>1. PICK n \in 0 .. ALLOC_MAX : capacity = Capacity[n]
  BY DEF CapacityInv
<1>2. PICK k \in 0 .. ALLOC_MAX : ALLOC_MAX = Capacity[k]
  BY AllocAssumption
<1>3. ALLOC_MAX \in Nat /\ capacity \in Nat \ {0}
  BY <1>1, Capacities, LexerBoundsAssumption
<1>4. CASE n < k
  <2>1. n + 1 \in 1 .. ALLOC_MAX /\ n + 1 \in 0 .. ALLOC_MAX /\ n + 1 <= k /\ (n + 1) - 1 = n
    BY <1>3, <1>4
  <2>2. Capacity[n + 1] = 2 * capacity /\ Capacity[n + 1] <= ALLOC_MAX
    BY <1>1, <1>2, <2>1, Capacities, CapacitiesGrow
  <2> QED
    BY <1>3, <2>1, <2>2
<1>5. CASE k <= n
  <2>1. ALLOC_MAX <= capacity
    BY <1>1, <1>2, <1>5, CapacitiesGrow
  <2> QED
    BY <1>3, <2>1
<1> QED
  BY <1>3, <1>4, <1>5

-----------------------------------------------------------------------------
(* Texts.  What the lexer sees of a text it has read up to the p-th        *)
(* character.                                                              *)
LEMMA TextSeen ==
  ASSUME LexInv, NEW b \in start .. pos, Blank(b), TextFrom(b)
  PROVE  /\ Ahead(b) \in Seq(Char) /\ Len(Ahead(b)) = Len(src) - b /\ Len(src) \in Nat /\ b \in Nat
         /\ pos - b \in 1 .. Len(src) - b /\ b < Len(src) /\ src[b + 1] \notin Space
         /\ pos - b < Len(src) - b => current = Ahead(b)[pos - b + 1]
         /\ pos - b = Len(src) - b => current = NUL
         /\ pos - b + 1 < Len(src) - b => Following = Ahead(b)[pos - b + 2]
<1>1. /\ src \in Seq(Char) /\ Len(src) \in Nat /\ pos \in 0 .. Len(src) /\ start \in 0 .. pos
      /\ b \in 0 .. Len(src) /\ b < pos
  BY Places DEF TextFrom
<1>2. /\ Ahead(b) \in Seq(Char) /\ Len(Ahead(b)) = Len(src) - b
      /\ \A i \in 1 .. Len(src) - b : Ahead(b)[i] = src[b + i]
  BY <1>1, AheadIs
<1>3. b < Len(src) /\ pos - b \in 1 .. Len(src) - b /\ 1 \in 1 .. Len(src) - b
      /\ (pos - b < Len(src) - b => pos < Len(src)) /\ (pos - b = Len(src) - b => pos = Len(src))
      /\ (pos - b + 1 < Len(src) - b => pos + 1 < Len(src))
  BY <1>1
<1>4. src[b + 1] = Quote /\ Quote \notin Space
  BY <1>2, <1>3, KindsDiffer DEF TextFrom
<1> QED
  BY <1>1, <1>2, <1>3, <1>4, CharsAhead

(* Of the lengths of the text's beginnings only one is a lexeme's: the     *)
(* first that closes it.                                                   *)
LEMMA OneTextOnly ==
  ASSUME NEW S, NEW s \in Seq(S), s # <<>>, s[1] = Quote
  PROVE  /\ Lexemes(s) \subseteq 1 .. Len(s) /\ \A n \in Lexemes(s) : TextAt(s, n)
         /\ \A n \in 1 .. Len(s) : TextAt(s, n) => n \in Lexemes(s)
         /\ \A m, n \in Lexemes(s) : m = n
<1>1. Lexemes(s) \subseteq 1 .. Len(s) /\ Len(s) \in Nat
  BY LenProperties DEF Lexemes
<1>2. \A n \in 1 .. Len(s) : n \in Lexemes(s) <=> TextAt(s, n)
  BY LexemesOfLiteral
<1>3. \A m, n \in Lexemes(s) : ~(m < n)
  <2> SUFFICES ASSUME NEW m \in Lexemes(s), NEW n \in Lexemes(s), m < n PROVE FALSE
    OBVIOUS
  <2>1. m \in 2 .. n - 1 /\ Closes(s, m)
    BY <1>1, <1>2 DEF TextAt
  <2> QED
    BY <1>1, <1>2, <2>1 DEF TextAt
<1>4. \A m, n \in Lexemes(s) : m \in Nat /\ n \in Nat
  BY <1>1
<1> QED
  BY <1>1, <1>2, <1>3, <1>4

LEMMA TextReturns ==
  ASSUME LexInv, mode = "string", NEW b \in start .. pos, Blank(b), TextFrom(b), current = Quote,
         Return(StringToken(buf), 1)
  PROVE  Reading!Cut
<1> DEFINE s == Ahead(b)
           p == pos - b
<1>1. /\ s \in Seq(Char) /\ Len(s) = Len(src) - b /\ Len(src) \in Nat /\ b \in Nat
      /\ p \in 1 .. Len(src) - b /\ b < Len(src) /\ src[b + 1] \notin Space
      /\ p < Len(src) - b => current = s[p + 1]
      /\ p = Len(src) - b => current = NUL
  BY TextSeen
<1>2. p < Len(s) /\ s[p + 1] = Quote
  <2>1. p < Len(s) \/ p = Len(src) - b
    BY <1>1
  <2> QED
    BY <1>1, <2>1, CharsAreNotNul
<1>3. /\ s[1] = Quote /\ \A i \in 2 .. p : ~Closes(s, i)
      /\ ~IsEscaped(s, p + 1) /\ buf = Spelled(s, Kept(s, p))
  <2>1. pos # Len(src)
    BY <1>1, <1>2
  <2> QED
    BY <2>1 DEF TextFrom
<1>4. pos \in Nat /\ pos + 1 = b + (p + 1) /\ p + 1 \in 1 .. Len(src) - b /\ p + 1 \in 1 .. Len(s)
      /\ (p + 1) - 1 = p /\ p \in Nat /\ p + 1 >= 2
  BY <1>1, <1>2, Places
<1>5. mode \notin Ended
  BY DEF Ended, Exits
<1>6. Len(buf) <= ALLOC_MAX
  <2>1. Len(buf) <= capacity /\ capacity <= ALLOC_MAX /\ Len(buf) \in Nat /\ capacity \in Nat
    BY LenProperties DEF LexInv, CopiesFit
  <2> QED
    BY <2>1, LexerBoundsAssumption
<1> HIDE DEF s, p
<1>7. TextAt(s, p + 1)
  BY <1>2, <1>3, <1>4 DEF TextAt, Closes
<1>8. s # <<>>
  BY <1>4
<1>9. p + 1 \in Lexemes(s) /\ \A m \in Lexemes(s) : m <= p + 1
  <2>1. p + 1 \in Lexemes(s) /\ \A m \in Lexemes(s) : m = p + 1
    BY <1>1, <1>3, <1>4, <1>7, <1>8, OneTextOnly
  <2> QED
    BY <1>4, <2>1
<1>10. ~TooLong(SubSeq(s, 1, p + 1))
  <2>1. TooLong(SubSeq(s, 1, p + 1)) <=> Len(Spelled(s, Kept(s, (p + 1) - 1))) > ALLOC_MAX
    BY <1>1, <1>3, <1>4, <1>9, LexemesOfLiteral
  <2>2. Len(buf) \in Nat
    BY LenProperties DEF LexInv
  <2> QED
    BY <1>3, <1>4, <1>6, <2>1, <2>2, LexerBoundsAssumption
<1>11. StringToken(buf) \in Readings(SubSeq(s, 1, p + 1))
  <2>1. IsText(SubSeq(s, 1, p + 1)) /\ TextOf(SubSeq(s, 1, p + 1)) = buf
    BY <1>1, <1>3, <1>4, <1>7, PrefixIsText, PrefixTextOf
  <2> QED
    BY <2>1, ReadingOfOthers
<1> QED
  BY <1>1, <1>4, <1>5, <1>9, <1>10, <1>11, ReturnCuts DEF s

(* A text that no buffer is granted for.                                   *)
BufferIsLast == Len(buf) >= capacity /\ 2 * capacity > ALLOC_MAX

LEMMA TextOverflows ==
  ASSUME LexInv, CapacityInv, mode = "string", NEW b \in start .. pos, Blank(b), TextFrom(b),
         current # Quote, BufferIsLast, NEW why \in Exits, Exit(why)
  PROVE  Reading!Fail
<1> DEFINE s == Ahead(b)
           p == pos - b
<1>1. /\ s \in Seq(Char) /\ Len(s) = Len(src) - b /\ Len(src) \in Nat /\ b \in Nat
      /\ p \in 1 .. Len(src) - b /\ b < Len(src) /\ src[b + 1] \notin Space
      /\ p < Len(src) - b => current = s[p + 1]
  BY TextSeen
<1>2. mode \notin Ended
  BY DEF Ended, Exits
<1>3. Len(buf) >= ALLOC_MAX
  <2>1. capacity <= ALLOC_MAX
    BY DEF LexInv
  <2>2. capacity = ALLOC_MAX
    BY <2>1, CapacityDoubles DEF BufferIsLast
  <2> QED
    BY <2>2 DEF BufferIsLast
<1>4. s[1] = Quote /\ \A i \in 2 .. p : ~Closes(s, i)
  BY DEF TextFrom
<1>5. p < Len(s) => ~IsEscaped(s, p + 1) /\ buf = Spelled(s, Kept(s, p)) /\ s[p + 1] # Quote
  <2>1. p < Len(s) => pos # Len(src)
    BY <1>1
  <2> QED
    BY <1>1, <2>1 DEF TextFrom
<1>6. p \in Nat /\ p >= 1 /\ Len(s) \in Nat /\ p <= Len(s)
  BY <1>1
<1> HIDE DEF s, p
<1>7. s # <<>>
  BY <1>6
<1>8. /\ Lexemes(s) \subseteq 1 .. Len(s) /\ \A n \in Lexemes(s) : TextAt(s, n)
      /\ \A m, n \in Lexemes(s) : m = n
  BY <1>1, <1>4, <1>7, OneTextOnly
<1>9. ASSUME NEW n \in Lexemes(s)
      PROVE  TooLong(SubSeq(s, 1, n))
  <2>1. n \in 1 .. Len(s) /\ n >= 2 /\ Closes(s, n) /\ s[n] = Quote
    BY <1>8 DEF TextAt, Closes
  <2>2. n >= p + 1 /\ p < Len(s)
    <3>1. ~(n \in 2 .. p)
      BY <1>4, <2>1
    <3> QED
      BY <1>6, <2>1, <3>1
  <2>3. n # p + 1
    BY <1>5, <2>1, <2>2
  <2>4. \E q \in Nat : q <= n - 1 /\ \E c : Spelled(s, Kept(s, q)) = Append(buf, c)
    <3>1. CASE s[p + 1] # Slash
      <4>1. Spelled(s, Kept(s, p + 1)) = Append(buf, s[p + 1])
        BY <1>5, <1>6, <2>2, <3>1, PlainStep
      <4>2. p + 1 \in Nat /\ p + 1 <= n - 1
        BY <1>6, <2>1, <2>2, <2>3
      <4> QED
        BY <4>1, <4>2
    <3>2. CASE s[p + 1] = Slash
      <4>1. Spelled(s, Kept(s, p + 2)) = Append(buf, Escaped(s[p + 2])) /\ ~Closes(s, p + 2)
        BY <1>5, <1>6, <2>2, <3>2, EscapeStep
      <4>2. n # p + 2
        BY <2>1, <4>1
      <4>3. p + 2 \in Nat /\ p + 2 <= n - 1
        BY <1>6, <2>1, <2>2, <2>3, <4>2
      <4> QED
        BY <4>1, <4>3
    <3> QED
      BY <3>1, <3>2
  <2>5. PICK q \in Nat : q <= n - 1 /\ \E c : Spelled(s, Kept(s, q)) = Append(buf, c)
    BY <2>4
  <2>6. PICK c : Spelled(s, Kept(s, q)) = Append(buf, c)
    BY <2>5
  <2>7. n - 1 \in Nat /\ Len(Spelled(s, Kept(s, q))) <= Len(Spelled(s, Kept(s, n - 1)))
    BY <2>1, <2>5, KeptGrows
  <2>8. Len(Append(buf, c)) = Len(buf) + 1 /\ Len(buf) \in Nat
    <3>1. buf \in Seq(Copied \cup {c}) /\ c \in Copied \cup {c}
      BY DEF LexInv
    <3> QED
      BY <3>1, AppendProperties, LenProperties
  <2>9. Len(Spelled(s, Kept(s, n - 1))) \in Nat
    BY <2>7, KeptIsFinite
  <2>10. Len(Spelled(s, Kept(s, n - 1))) > ALLOC_MAX
    BY <1>3, <2>5, <2>6, <2>7, <2>8, <2>9, LexerBoundsAssumption
  <2> QED
    BY <1>1, <1>4, <2>1, <2>10, LexemesOfLiteral
<1>10. \/ Lexemes(s) = {}
       \/ \E n \in Lexemes(s) : (\A m \in Lexemes(s) : m <= n) /\ TooLong(SubSeq(s, 1, n))
  <2> SUFFICES ASSUME NEW n \in Lexemes(s)
               PROVE  (\A m \in Lexemes(s) : m <= n) /\ TooLong(SubSeq(s, 1, n))
    OBVIOUS
  <2>1. \A m \in Lexemes(s) : m = n /\ m \in Nat
    BY <1>6, <1>8
  <2> QED
    BY <1>9, <2>1
<1> QED
  BY <1>1, <1>2, <1>10, FailStep DEF s

(* One more character of a text.                                           *)
LEMMA TextGoesOn ==
  ASSUME LexInv, NEW b \in start .. pos, Blank(b), TextFrom(b), current # Quote,
         IF current = Slash THEN Copy(Escaped(Following), 2) ELSE Copy(current, 1)
  PROVE  b \in start' .. pos' /\ Blank(b)' /\ TextFrom(b)'
<1> DEFINE s == Ahead(b)
           p == pos - b
           q == pos' - b
           n == IF current = Slash THEN 2 ELSE 1
<1>1. /\ s \in Seq(Char) /\ Len(s) = Len(src) - b /\ Len(src) \in Nat /\ b \in Nat
      /\ p \in 1 .. Len(src) - b /\ b < Len(src)
      /\ p < Len(src) - b => current = s[p + 1]
      /\ p = Len(src) - b => current = NUL
      /\ p + 1 < Len(src) - b => Following = s[p + 2]
  BY TextSeen
<1>2. start' = start /\ src' = src /\ pos' = IF pos + n < Len(src) THEN pos + n ELSE Len(src)
  BY DEF Copy, lex_advance
<1>3. Ahead(b)' = s /\ Blank(b)'
  BY <1>2, SamePlace
<1>4. pos \in 0 .. Len(src) /\ start \in 0 .. pos /\ b <= pos
  BY Places
<1>5. b \in start' .. pos' /\ b < pos'
  BY <1>1, <1>2, <1>4
<1>6. s[1] = Quote /\ \A i \in 2 .. p : ~Closes(s, i)
  BY DEF TextFrom
<1>7. p < Len(s) => ~IsEscaped(s, p + 1) /\ buf = Spelled(s, Kept(s, p)) /\ s[p + 1] # Quote
  <2>1. p < Len(s) => pos # Len(src)
    BY <1>1
  <2> QED
    BY <1>1, <2>1 DEF TextFrom
<1>8. /\ p \in Nat /\ p >= 1 /\ Len(s) \in Nat /\ p <= Len(s)
      /\ q = (IF p + n < Len(s) THEN p + n ELSE Len(s)) /\ q \in Nat
      /\ (p + n < Len(s) <=> pos' # Len(src)) /\ pos' \in Nat
  BY <1>1, <1>2, <1>4
<1>9. current = Slash => p < Len(s) /\ s[p + 1] = Slash
  <2>1. p < Len(s) \/ p = Len(src) - b
    BY <1>1
  <2>2. NUL # Slash
    BY DEF NUL, Slash
  <2> QED
    BY <1>1, <2>1, <2>2
<1>10. current # Slash /\ p < Len(s) => s[p + 1] = current
  BY <1>1
<1>11. buf' = Append(buf, IF current = Slash THEN Escaped(Following) ELSE current)
  BY DEF Copy
<1> HIDE DEF s, p, q
<1>12. \A i \in 2 .. q : ~Closes(s, i)
  <2> SUFFICES ASSUME NEW i \in 2 .. q, Closes(s, i) PROVE FALSE
    OBVIOUS
  <2>1. n \in {1, 2} /\ (n = 1 \/ current = Slash)
    OBVIOUS
  <2> HIDE DEF n
  <2>2. q <= Len(s) /\ q <= p + n
    BY <1>8, <2>1
  <2>3. i \in Nat /\ ~(i \in 2 .. p) /\ i <= Len(s) /\ i <= p + n /\ i >= 2 /\ s[i] = Quote
    BY <1>6, <1>8, <2>1, <2>2 DEF Closes
  <2>4. p < Len(s) /\ i >= p + 1
    BY <1>8, <2>3
  <2>5. i # p + 1
    BY <1>7, <2>3, <2>4
  <2>6. current = Slash /\ i = p + 2
    BY <1>8, <2>1, <2>3, <2>4, <2>5
  <2>7. ~Closes(s, p + 2)
    BY <1>7, <1>8, <1>9, <2>4, <2>6, EscapeStep
  <2> QED
    BY <2>6, <2>7
<1>13. p + n < Len(s) => ~IsEscaped(s, p + n + 1) /\ buf' = Spelled(s, Kept(s, p + n))
  <2> SUFFICES ASSUME p + n < Len(s)
               PROVE  ~IsEscaped(s, p + n + 1) /\ buf' = Spelled(s, Kept(s, p + n))
    OBVIOUS
  <2>1. p < Len(s)
    BY <1>8
  <2>2. CASE current = Slash
    <3>1. /\ Spelled(s, Kept(s, p + 2)) = Append(Spelled(s, Kept(s, p)), Escaped(s[p + 2]))
          /\ ~IsEscaped(s, p + 3)
      BY <1>7, <1>8, <1>9, <2>1, <2>2, EscapeStep
    <3>2. Following = s[p + 2]
      <4>1. p + 1 < Len(src) - b
        BY <1>1, <1>8, <2>2
      <4> QED
        BY <1>1, <4>1 DEF p
    <3>3. n = 2 /\ p + n + 1 = p + 3
      BY <1>8, <2>2
    <3> QED
      BY <1>7, <1>11, <2>1, <2>2, <3>1, <3>2, <3>3
  <2>3. CASE current # Slash
    <3>1. /\ Spelled(s, Kept(s, p + 1)) = Append(Spelled(s, Kept(s, p)), s[p + 1])
          /\ ~IsEscaped(s, p + 2)
      BY <1>7, <1>8, <1>10, <2>1, <2>3, PlainStep
    <3>2. n = 1 /\ p + n + 1 = p + 2
      BY <1>8, <2>3
    <3> QED
      BY <1>7, <1>10, <1>11, <2>1, <2>3, <3>1, <3>2
  <2> QED
    BY <2>2, <2>3
<1>14. TextFrom(b)'
  BY <1>2, <1>3, <1>5, <1>6, <1>8, <1>12, <1>13 DEF TextFrom, q
<1> QED
  BY <1>3, <1>5, <1>14

LEMMA TextReads ==
  ASSUME LexInv, LexInv', ReadInv, CapacityInv, lex_parse_string
  PROVE  ReadInv' /\ (Reading!Cut \/ Reading!Fail
                       \/ (src' = src /\ start' = start /\ tokens' = tokens /\ mode' = mode))
<1>1. mode = "string"
  BY DEF lex_parse_string
<1>2. PICK b \in start .. pos : Blank(b) /\ TextFrom(b)
  BY <1>1 DEF ReadInv
<1>3. CASE current = Quote
  <2>1. Return(StringToken(buf), 1)
    BY <1>3 DEF lex_parse_string
  <2> QED
    BY <1>1, <1>2, <1>3, <2>1, TextReturns, ReturnRestarts
<1>4. CASE current # Quote /\ BufferIsLast
  <2>1. \E why \in Exits : Exit(why)
    BY <1>4 DEF lex_parse_string, Exits, BufferIsLast
  <2> QED
    BY <1>1, <1>2, <1>4, <2>1, TextOverflows, ExitForgets
<1>5. CASE current # Quote /\ ~BufferIsLast
  <2>1. IF current = Slash THEN Copy(Escaped(Following), 2) ELSE Copy(current, 1)
    BY <1>5 DEF lex_parse_string, BufferIsLast
  <2>2. src' = src /\ start' = start /\ tokens' = tokens /\ mode' = mode
    BY <2>1 DEF Copy
  <2>3. b \in start' .. pos' /\ Blank(b)' /\ TextFrom(b)'
    BY <1>2, <1>5, <2>1, TextGoesOn
  <2> QED
    BY <1>1, <2>2, <2>3 DEF ReadInv
<1> QED
  BY <1>3, <1>4, <1>5

-----------------------------------------------------------------------------
(* The other steps of lex_next, the initial states, and the refinement.    *)

Silent == src' = src /\ start' = start /\ tokens' = tokens /\ mode' \notin Ended

LEMMA WhitespaceReads ==
  ASSUME LexInv, ReadInv, SkipWhitespace
  PROVE  ReadInv' /\ Silent
<1>1. /\ mode = "idle" /\ mode' = mode /\ src' = src /\ start' = start /\ tokens' = tokens
      /\ current \in Space /\ pos' = IF pos + 1 < Len(src) THEN pos + 1 ELSE Len(src)
  BY DEF SkipWhitespace, lex_advance
<1>2. /\ Len(src) \in Nat /\ pos \in 0 .. Len(src) /\ start \in 0 .. pos
      /\ current = CharAt(src, pos) /\ Blank(pos)
  BY <1>1, Places DEF ReadInv
<1>3. pos < Len(src) /\ src[pos + 1] \in Space /\ pos' = pos + 1
  <2>1. NUL \notin Space
    BY DEF NUL, Space
  <2>2. pos < Len(src)
    BY <1>1, <1>2, <2>1 DEF CharAt
  <2> QED
    BY <1>1, <1>2, <2>2 DEF CharAt
<1>4. \A i \in start + 1 .. pos + 1 : src[i] \in Space
  <2> TAKE i \in start + 1 .. pos + 1
  <2>1. i \in start + 1 .. pos \/ i = pos + 1
    BY <1>2
  <2> QED
    BY <1>2, <1>3, <2>1 DEF Blank
<1>5. Blank(pos)'
  BY <1>1, <1>2, <1>3, <1>4 DEF Blank
<1> QED
  BY <1>1, <1>5 DEF ReadInv, Silent, Ended, Exits

LEMMA BeginReads ==
  ASSUME LexInv, ReadInv, Begin
  PROVE  ReadInv' /\ Silent
<1> DEFINE s == Ahead(pos)
<1>1. /\ mode = "idle" /\ src' = src /\ start' = start /\ tokens' = tokens /\ buf' = buf
      /\ mode' \in {"int", "ident", "string"}
  BY DEF Begin
<1>2. current \in Digits \cup Alphas \cup {Quote}
  BY DEF Begin
<1>3. current \notin Space \cup {NUL}
  BY <1>2, KindsDiffer, CharsAreNotNul
<1>4. /\ pos \in start .. pos /\ Blank(pos) /\ pos < Len(src)
      /\ s \in Seq(Char) /\ Len(s) = Len(src) - pos /\ s[1] = current
  BY <1>1, <1>3, AtTheFirst
<1>5. Len(src) \in Nat /\ pos \in 0 .. Len(src) /\ start \in 0 .. pos /\ buf = <<>>
  BY <1>1, Places DEF LexInv
<1>6. Ahead(pos) = s /\ \A b : Ahead(b)' = Ahead(b) /\ (Blank(b)' <=> Blank(b))
  BY <1>1, SamePlace
<1>7. SubSeq(s, 1, 0) = <<>> /\ pos - pos = 0
  <2>1. SubSeq(s, 1, 0) = <<>>
    BY <1>4, <1>5, SubSeqEmpty
  <2> QED
    BY <1>5, <2>1
<1>8. CASE current \in Digits /\ mode' = "int" /\ pos' = pos
  <2>1. pos' - pos = 0 /\ \A i \in 1 .. 0 : s[i] \in Digits
    BY <1>7, <1>8
  <2>2. CopiedFrom(pos, Digits)'
    BY <1>1, <1>4, <1>5, <1>6, <1>7, <1>8, <2>1 DEF CopiedFrom
  <2>3. Blank(pos)'
    BY <1>4, <1>6, <1>8
  <2>4. pos' \in start' .. pos'
    BY <1>1, <1>4, <1>8
  <2>5. \E b \in start' .. pos' : Blank(b)' /\ CopiedFrom(b, Digits)'
    BY <1>8, <2>2, <2>3, <2>4 DEF CopiedFrom, Blank
  <2> QED
    BY <1>1, <1>8, <2>5 DEF ReadInv, Silent, Ended, Exits
<1>9. CASE current \in Alphas /\ mode' = "ident" /\ pos' = pos
  <2>1. pos' - pos = 0 /\ \A i \in 1 .. 0 : s[i] \in Alphas
    BY <1>7, <1>9
  <2>2. CopiedFrom(pos, Alphas)'
    BY <1>1, <1>4, <1>5, <1>6, <1>7, <1>9, <2>1 DEF CopiedFrom
  <2>3. Blank(pos)'
    BY <1>4, <1>6, <1>9
  <2>4. pos' \in start' .. pos'
    BY <1>1, <1>4, <1>9
  <2>5. \E b \in start' .. pos' : Blank(b)' /\ CopiedFrom(b, Alphas)'
    BY <1>9, <2>2, <2>3, <2>4 DEF CopiedFrom, Blank
  <2> QED
    BY <1>1, <1>9, <2>5 DEF ReadInv, Silent, Ended, Exits
<1>10. CASE current = Quote /\ mode' = "string" /\ lex_advance(1)
  <2> DEFINE b == pos
  <2>1. pos' = pos + 1 /\ pos' - pos = 1 /\ pos \in start' .. pos' /\ pos < pos'
    BY <1>1, <1>4, <1>5, <1>10 DEF lex_advance
  <2>2. ~IsEscaped(s, 2) /\ (pos' - pos) + 1 = 2
    BY <2>1, FirstIsNotEscaped
  <2>3. Spelled(s, Kept(s, 1)) = <<>>
    <3>1. Kept(s, 1) = {}
      BY DEF Kept
    <3>2. Cardinality({}) = 0
      BY FS_EmptySet
    <3> QED
      BY <3>1, <3>2 DEF Spelled
  <2>4. PICK c : c = pos
    OBVIOUS
  <2>5. Blank(c)'
    BY <1>4, <1>6, <2>4
  <2>6. Ahead(c)' = s
    BY <1>6, <2>4
  <2>7. c \in start' .. pos' /\ c < pos' /\ pos' - c = 1 /\ (pos' - c) + 1 = 2
    BY <2>1, <2>2, <2>4
  <2> HIDE DEF s
  <2>8. TextFrom(c)'
    BY <1>1, <1>4, <1>5, <1>10, <2>2, <2>3, <2>6, <2>7 DEF TextFrom
  <2> QED
    BY <1>1, <1>10, <2>5, <2>7, <2>8 DEF ReadInv, Silent, Ended, Exits
<1> QED
  BY <1>8, <1>9, <1>10 DEF Begin

LEMMA StepReads ==
  ASSUME LexInv, LexInv', ReadInv, CapacityInv, LexNext
  PROVE  ReadInv' /\ (Reading!Cut \/ Reading!Fail \/ Reading!End \/ Silent)
<1>1. CASE SkipWhitespace
  BY <1>1, WhitespaceReads
<1>2. CASE Operator \/ Unknown
  <2>1. (\E t, n : Return(t, n)) \/ (\E why \in Exits : Exit(why))
    BY <1>2 DEF Operator, Unknown, Exits
  <2> QED
    BY <1>2, <2>1, OperatorReads, ReturnRestarts, ExitForgets
<1>3. CASE Eof
  <2>1. ReadInv'
    BY <1>3 DEF Eof, ReadInv
  <2> QED
    BY <1>3, <2>1, EndStep
<1>4. CASE Begin
  BY <1>4, BeginReads
<1>5. CASE lex_parse_int
  <2>1. mode \notin Ended
    BY <1>5 DEF lex_parse_int, Ended, Exits
  <2> QED
    BY <1>5, <2>1, NumberReads DEF Silent
<1>6. CASE lex_parse_ident
  <2>1. mode \notin Ended
    BY <1>6 DEF lex_parse_ident, Ended, Exits
  <2> QED
    BY <1>6, <2>1, WordReads DEF Silent
<1>7. CASE lex_parse_string
  <2>1. mode \notin Ended
    BY <1>7 DEF lex_parse_string, Ended, Exits
  <2> QED
    BY <1>7, <2>1, TextReads DEF Silent
<1> QED
  BY <1>1, <1>2, <1>3, <1>4, <1>5, <1>6, <1>7 DEF LexNext

LEMMA StepKeepsCapacity ==
  ASSUME LexInv, CapacityInv, LexNext
  PROVE  CapacityInv'
<1>1. CASE capacity' = capacity
  BY <1>1 DEF CapacityInv
<1>2. CASE capacity' = STRING_INIT
  <2>1. 0 \in 0 .. ALLOC_MAX
    BY LexerBoundsAssumption
  <2> QED
    BY <1>2, <2>1, Capacities DEF CapacityInv
<1>3. CASE capacity' = 2 * capacity /\ 2 * capacity <= ALLOC_MAX
  <2>1. capacity <= ALLOC_MAX
    BY DEF LexInv
  <2> QED
    BY <1>3, <2>1, CapacityDoubles DEF CapacityInv
<1>4. capacity \in Nat /\ ALLOC_MAX \in Nat
  BY LexerBoundsAssumption DEF LexInv
<1>5. 2 * capacity > ALLOC_MAX \/ 2 * capacity <= ALLOC_MAX
  BY <1>4
<1>6. \A t, n : Return(t, n) => capacity' = capacity
  BY DEF Return
<1>7. \A why : Exit(why) => capacity' = capacity
  BY DEF Exit
<1>8. CASE SkipWhitespace \/ Operator \/ Unknown \/ Eof
  BY <1>1, <1>6, <1>7, <1>8 DEF SkipWhitespace, Operator, Unknown, Eof
<1>9. CASE Begin
  BY <1>1, <1>2, <1>9 DEF Begin
<1>10. CASE lex_parse_int \/ lex_parse_ident
  BY <1>1, <1>6, <1>7, <1>10 DEF lex_parse_int, lex_parse_ident
<1>11. CASE lex_parse_string
  BY <1>1, <1>3, <1>5, <1>6, <1>7, <1>11 DEF lex_parse_string
<1> QED
  BY <1>8, <1>9, <1>10, <1>11 DEF LexNext

LEMMA InitReads == LexInit => ReadInv /\ CapacityInv /\ Reading!StreamInit
<1> SUFFICES ASSUME LexInit PROVE ReadInv /\ CapacityInv /\ Reading!StreamInit
  OBVIOUS
<1>1. /\ src \in Sources /\ pos = 0 /\ mode = "idle" /\ capacity = STRING_INIT /\ start = 0
      /\ tokens = <<>>
  BY DEF LexInit, lexer_init
<1>2. src \in Seq(Char) /\ Len(src) \in Nat
  BY <1>1, SourcesAssumption, LenProperties
<1>3. Blank(pos)
  BY <1>1, <1>2 DEF Blank
<1>4. CapacityInv
  <2>1. 0 \in 0 .. ALLOC_MAX
    BY LexerBoundsAssumption
  <2> QED
    BY <1>1, <2>1, Capacities DEF CapacityInv
<1>5. SubSeq(src, start + 1, Len(src)) = src
  <2>1. SubSeq(src, 1, Len(src)) = src
    BY <1>2, SubSeqFull
  <2> QED
    BY <1>1, <2>1
<1>6. mode # "eof" /\ mode \notin Exits
  BY <1>1 DEF Exits
<1> QED
  BY <1>1, <1>3, <1>4, <1>5, <1>6 DEF ReadInv, Reading!StreamInit

(* What the lexer returns is the longest-match reading of its source: each *)
(* token stands for the longest lexeme at the front of what is left, a     *)
(* text for its characters without the backslashes that escape them, and   *)
(* the lexer exits only where no lexeme is, or one too long for its        *)
(* buffer.                                                                 *)
THEOREM LexerReads == LexSpec => ReadsLongestMatch
<1> DEFINE Inv == LexInv /\ ReadInv /\ CapacityInv
           rest == SubSeq(src, start + 1, Len(src))
           state == CASE mode = "eof" -> "ended" [] mode \in Exits -> "failed" [] OTHER -> "reading"
<1>1. LexInit => Inv /\ Reading!StreamInit
  BY InitInv, InitReads
<1>2. Inv /\ [LexNext]_lexvars
        => Inv' /\ [Reading!Cut \/ Reading!End \/ Reading!Fail]_<<rest, tokens, state>>
  <2>1. SUFFICES ASSUME Inv, [LexNext]_lexvars
                 PROVE  Inv' /\ [Reading!Cut \/ Reading!End \/ Reading!Fail]_<<rest, tokens, state>>
    OBVIOUS
  <2>2. LexInv'
    BY <2>1, StepKeepsInv
  <2>3. CASE UNCHANGED lexvars
    <3>1. ReadInv' /\ CapacityInv'
      BY <2>1, <2>3 DEF lexvars, ReadInv, CapacityInv, Blank, CopiedFrom, TextFrom, Ahead
    <3>2. UNCHANGED <<rest, tokens, state>>
      BY <2>3 DEF lexvars
    <3> QED
      BY <2>2, <3>1, <3>2
  <2>4. CASE LexNext
    <3>1. CapacityInv'
      BY <2>1, <2>4, StepKeepsCapacity
    <3>2. ReadInv' /\ (Reading!Cut \/ Reading!Fail \/ Reading!End \/ Silent)
      BY <2>1, <2>2, <2>4, StepReads
    <3>3. mode \notin Ended
      BY <2>4 DEF LexNext, SkipWhitespace, Operator, Unknown, Eof, Begin, lex_parse_int,
                  lex_parse_ident, lex_parse_string, Ended, Exits
    <3>4. Silent => UNCHANGED <<rest, tokens, state>>
      BY <3>3, NoStep DEF Silent
    <3> QED
      BY <2>2, <3>1, <3>2, <3>4
  <2> QED
    BY <2>1, <2>3, <2>4
<1> HIDE DEF Inv
<1>3. LexSpec => Reading!StreamInit /\ [][Reading!Cut \/ Reading!End \/ Reading!Fail]_<<rest, tokens, state>>
  BY <1>1, <1>2, PTL DEF LexSpec
<1> QED
  BY <1>3 DEF ReadsLongestMatch, Reading!StreamSpec
=============================================================================
