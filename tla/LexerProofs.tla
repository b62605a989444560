----------------------------- MODULE LexerProofs -----------------------------
(***************************************************************************)
(* Theorems about Lexer, for every source text and every size of its       *)
(* buffers.                                                                *)
(***************************************************************************)
EXTENDS Lexer, LexicalGrammarProofs

(* The types of what the lexer works with, the copies that fit, and what   *)
(* makes the latter and EveryTokenAdvances inductive: how far a call has   *)
(* come by the time it may return.                                         *)
LexInv ==
  /\ src \in Seq(Char) /\ pos \in Nat /\ start \in Nat /\ start <= pos
  /\ buf \in Seq(Copied) /\ capacity \in Nat \ {0}
  /\ capacity <= ALLOC_MAX
  /\ CopiesFit
  /\ mode = "idle"   => buf = <<>>
  /\ mode = "int"    => pos > start \/ (buf = <<>> /\ current \in Digits)
  /\ mode = "ident"  => pos > start \/ (buf = <<>> /\ current \in Alphas)
  /\ mode = "string" => pos > start

-----------------------------------------------------------------------------
(* NUL is no character of a source: reading it is being at the end.        *)
LEMMA AtEnd ==
  ASSUME src \in Seq(Char), pos \in Nat, pos <= Len(src), CharAt(src, pos) # NUL
  PROVE  pos < Len(src)
BY DEF CharAt

(* Moving on keeps the position inside the source and the cached character *)
(* up to date, and does move unless the end is reached.                    *)
LEMMA Advances ==
  ASSUME src \in Seq(Char), pos \in Nat, pos <= Len(src), NEW n \in Nat, lex_advance(n)
  PROVE  /\ pos' \in Nat /\ pos' <= Len(src) /\ current' = CharAt(src, pos') /\ pos' >= pos
         /\ n > 0 /\ pos < Len(src) => pos' > pos
         /\ n = 0 => pos' = pos
<1>1. Len(src) \in Nat
  BY LenProperties
<1> QED
  BY <1>1 DEF lex_advance

LEMMA EscapedIsCopied ==
  ASSUME NEW c \in Copied
  PROVE  Escaped(c) \in Copied
BY DEF Escaped, Copied, Char, Space

LEMMA CharAtIsCopied ==
  ASSUME NEW s \in Seq(Char), NEW p \in Nat
  PROVE  CharAt(s, p) \in Copied
<1>1. Len(s) \in Nat
  BY LenProperties
<1>2. CASE p < Len(s)
  <2>1. s[p + 1] \in Char
    BY <1>1, <1>2, ElementOfSeq
  <2> QED
    BY <1>2, <2>1 DEF CharAt, Copied
<1>3. CASE ~(p < Len(s))
  BY <1>3 DEF CharAt, Copied
<1> QED
  BY <1>2, <1>3

-----------------------------------------------------------------------------
LEMMA InitInv == LexInit => LexInv
<1> SUFFICES ASSUME NEW s \in Sources, lexer_init(s) PROVE LexInv
  BY DEF LexInit
<1>1. s \in Seq(Char) /\ Len(s) \in Nat
  BY SourcesAssumption, LenProperties
<1>2. STRING_INIT \in Nat \ {0} /\ STRING_INIT <= ALLOC_MAX
  BY LexerBoundsAssumption
<1> QED
  BY <1>1, <1>2 DEF lexer_init, LexInv, CopiesFit

(* Returning a token after n more characters, at least one in all.         *)
LEMMA ReturnKeepsInv ==
  ASSUME LexInv, NEW t, NEW n \in Nat, Return(t, n),
         pos > start \/ (n > 0 /\ current # NUL)
  PROVE  LexInv' /\ pos' > start
<1>1. /\ src \in Seq(Char) /\ pos \in Nat /\ pos <= Len(src) /\ current = CharAt(src, pos)
      /\ start \in Nat /\ start <= pos /\ capacity \in Nat \ {0} /\ Len(src) \in Nat
  BY LenProperties DEF LexInv, CopiesFit
<1>2. lex_advance(n) /\ src' = src /\ capacity' = capacity /\ buf' = <<>> /\ start' = pos'
      /\ mode' = "idle"
  BY DEF Return
<1>3. /\ pos' \in Nat /\ pos' <= Len(src) /\ current' = CharAt(src, pos') /\ pos' >= pos
      /\ n > 0 /\ pos < Len(src) => pos' > pos
  BY <1>1, <1>2, Advances
<1>4. current # NUL => pos < Len(src)
  BY <1>1, AtEnd
<1>5. pos' > start
  BY <1>1, <1>3, <1>4
<1>6. CopiesFit'
  BY <1>1, <1>2, <1>3 DEF CopiesFit
<1>7. capacity' <= ALLOC_MAX
  BY <1>2 DEF LexInv
<1> QED
  BY <1>1, <1>2, <1>3, <1>5, <1>6, <1>7 DEF LexInv

LEMMA ExitKeepsInv ==
  ASSUME LexInv, NEW why \in Exits, Exit(why)
  PROVE  LexInv'
BY DEF LexInv, CopiesFit, Exit, Exits

(* Copying a character into the array of a literal or a word.              *)
LEMMA CopyKeepsInv ==
  ASSUME LexInv, NEW c \in Copied, NEW n \in Nat, Copy(c, n), n > 0,
         mode \in {"int", "ident", "string"}, pos > start \/ current # NUL,
         mode = "int"   => Len(buf) < INT_DIGITS,
         mode = "ident" => Len(buf) < IDENT_MAX,
         capacity' \in Nat \ {0}, capacity' <= ALLOC_MAX, mode = "string" => Len(buf) < capacity'
  PROVE  LexInv'
<1>1. /\ src \in Seq(Char) /\ pos \in Nat /\ pos <= Len(src) /\ current = CharAt(src, pos)
      /\ start \in Nat /\ start <= pos /\ Len(src) \in Nat /\ buf \in Seq(Copied)
  BY LenProperties DEF LexInv, CopiesFit
<1>2. lex_advance(n) /\ src' = src /\ start' = start /\ mode' = mode /\ buf' = Append(buf, c)
  BY DEF Copy
<1>3. /\ pos' \in Nat /\ pos' <= Len(src) /\ current' = CharAt(src, pos') /\ pos' >= pos
      /\ pos < Len(src) => pos' > pos
  BY <1>1, <1>2, Advances
<1>4. current # NUL => pos < Len(src)
  BY <1>1, AtEnd
<1>5. pos' > start'
  BY <1>1, <1>2, <1>3, <1>4
<1>6. buf' \in Seq(Copied) /\ Len(buf') = Len(buf) + 1 /\ Len(buf) \in Nat
  BY <1>1, <1>2, AppendProperties, LenProperties
<1>7. INT_DIGITS \in Nat /\ IDENT_MAX \in Nat
  BY LexerBoundsAssumption
<1>8. CopiesFit'
  BY <1>1, <1>2, <1>3, <1>6, <1>7 DEF CopiesFit
<1> QED
  BY <1>1, <1>2, <1>3, <1>5, <1>6, <1>8 DEF LexInv

-----------------------------------------------------------------------------
(* A step keeps the invariant, and a step that returns a token has moved   *)
(* past the place where lex_next was called, unless it returns TOK_EOF.    *)
Moves == tokens' # tokens => pos' > start \/ mode' = "eof"

LEMMA CharsAreNotNul ==
  /\ NUL \notin Digits /\ NUL \notin Alphas /\ NUL # Quote
  /\ NUL \notin DOMAIN Alone /\ NUL \notin DOMAIN Plain /\ NUL \notin DOMAIN Twice
BY DEF NUL, Digits, Alphas, Quote, Alone, Plain, Twice

LEMMA CallKeepsInv ==
  ASSUME LexInv, SkipWhitespace \/ Operator \/ Unknown \/ Eof \/ Begin
  PROVE  LexInv' /\ Moves
<1>1. CASE SkipWhitespace
  <2>1. /\ src \in Seq(Char) /\ pos \in Nat /\ pos <= Len(src) /\ Len(src) \in Nat
        /\ start \in Nat /\ start <= pos
    BY LenProperties DEF LexInv, CopiesFit
  <2>2. pos' \in Nat /\ pos' <= Len(src) /\ current' = CharAt(src, pos') /\ pos' >= pos
    BY <1>1, <2>1, Advances DEF SkipWhitespace
  <2> QED
    BY <1>1, <2>1, <2>2 DEF SkipWhitespace, LexInv, CopiesFit, Moves
<1>2. CASE Operator
  <2>1. CASE current \in DOMAIN Alone /\ Return(Token(Alone[current]), 1)
    BY <2>1, ReturnKeepsInv, CharsAreNotNul DEF Moves
  <2>2. CASE current \in DOMAIN Plain /\ Return(Token(WithEquals[current]), 2)
    BY <2>2, ReturnKeepsInv, CharsAreNotNul DEF Moves
  <2>3. CASE current \in DOMAIN Plain /\ Return(Token(Plain[current]), 1)
    BY <2>3, ReturnKeepsInv, CharsAreNotNul DEF Moves
  <2>4. CASE current \in DOMAIN Twice /\ Return(Token(Twice[current]), 2)
    BY <2>4, ReturnKeepsInv, CharsAreNotNul DEF Moves
  <2>5. CASE Exit("second character expected")
    <3>1. LexInv'
      BY <2>5, ExitKeepsInv DEF Exits
    <3> QED
      BY <2>5, <3>1 DEF Exit, Moves
  <2> QED
    BY <1>2, <2>1, <2>2, <2>3, <2>4, <2>5 DEF Operator
<1>3. CASE Unknown
  <2>1. current # NUL /\ Return(Token("TOK_UNKNOWN"), 1)
    BY <1>3 DEF Unknown
  <2> QED
    BY <2>1, ReturnKeepsInv DEF Moves
<1>4. CASE Eof
  <2>1. /\ src \in Seq(Char) /\ pos \in Nat /\ pos <= Len(src) /\ current = CharAt(src, pos)
        /\ buf = <<>> /\ capacity \in Nat \ {0} /\ capacity <= ALLOC_MAX
    BY <1>4 DEF Eof, LexInv, CopiesFit
  <2>2. /\ mode' = "eof" /\ start' = pos
        /\ src' = src /\ pos' = pos /\ current' = current /\ buf' = buf /\ capacity' = capacity
    BY <1>4 DEF Eof
  <2>3. buf' \in Seq(Copied)
    BY <2>2 DEF LexInv
  <2>4. CopiesFit'
    BY <2>1, <2>2 DEF CopiesFit
  <2> QED
    BY <2>1, <2>2, <2>3, <2>4 DEF LexInv, Moves
<1>5. CASE Begin
  <2>1. /\ src \in Seq(Char) /\ pos \in Nat /\ pos <= Len(src) /\ current = CharAt(src, pos)
        /\ start \in Nat /\ start <= pos /\ Len(src) \in Nat /\ buf = <<>> /\ mode = "idle"
        /\ capacity \in Nat \ {0} /\ capacity <= ALLOC_MAX
    BY <1>5, LenProperties DEF LexInv, CopiesFit, Begin
  <2>2. src' = src /\ buf' = <<>> /\ start' = start /\ tokens' = tokens /\ Len(<<>>) = 0
    BY <1>5, <2>1 DEF Begin
  <2>3. INT_DIGITS \in Nat /\ IDENT_MAX \in Nat /\ STRING_INIT \in Nat \ {0} /\ STRING_INIT <= ALLOC_MAX
    BY LexerBoundsAssumption
  <2>4. CASE /\ mode' \in {"int", "ident"} /\ UNCHANGED <<pos, current, capacity>>
             /\ mode' = "int" => current \in Digits
             /\ mode' = "ident" => current \in Alphas
    BY <2>1, <2>2, <2>3, <2>4 DEF LexInv, CopiesFit, Moves
  <2>5. CASE current = Quote /\ mode' = "string" /\ lex_advance(1) /\ capacity' = STRING_INIT
    <3>1. pos < Len(src)
      BY <2>1, <2>5, AtEnd, CharsAreNotNul
    <3>2. pos' \in Nat /\ pos' <= Len(src) /\ current' = CharAt(src, pos') /\ pos' > pos
      BY <2>1, <2>5, <3>1, Advances
    <3> QED
      BY <2>1, <2>2, <2>3, <2>5, <3>2 DEF LexInv, CopiesFit, Moves
  <2> QED
    BY <1>5, <2>4, <2>5 DEF Begin
<1> QED
  BY <1>1, <1>2, <1>3, <1>4, <1>5

LEMMA LiteralsKeepInv ==
  ASSUME LexInv, lex_parse_int \/ lex_parse_ident \/ lex_parse_string
  PROVE  LexInv' /\ Moves
<1>1. /\ src \in Seq(Char) /\ pos \in Nat /\ pos <= Len(src) /\ current = CharAt(src, pos)
      /\ capacity \in Nat \ {0} /\ capacity <= ALLOC_MAX /\ buf \in Seq(Copied)
  BY DEF LexInv, CopiesFit
<1>2. current \in Copied /\ Following \in Copied /\ Len(buf) \in Nat
  BY <1>1, CharAtIsCopied, LenProperties DEF Following
<1>3. IDENT_MAX \in Nat /\ ALLOC_MAX \in Nat
  BY LexerBoundsAssumption
<1>4. \A t, n : Return(t, n) /\ n \in Nat /\ pos > start => LexInv' /\ Moves
  BY ReturnKeepsInv DEF Moves
<1>5. \A c, n : Copy(c, n) => Moves
  BY DEF Copy, Moves
<1>6. CASE lex_parse_int
  <2>1. mode = "int" /\ (pos > start \/ current # NUL)
    BY <1>6, CharsAreNotNul DEF lex_parse_int, LexInv
  <2>2. CASE MoreDigits
    <3>1. Copy(current, 1) /\ capacity' = capacity /\ Len(buf) < INT_DIGITS
      BY <1>6, <2>2 DEF lex_parse_int, MoreDigits
    <3> QED
      BY <1>1, <1>2, <1>5, <2>1, <3>1, CopyKeepsInv
  <2>3. CASE ~MoreDigits
    <3>1. pos > start
      <4>1. CASE buf = <<>> /\ current \in Digits
        BY <2>3, <4>1, LexerBoundsAssumption DEF MoreDigits
      <4> QED
        BY <2>1, <4>1 DEF LexInv
    <3>2. Return(IntToken(NumberOf(buf)), 0)
      BY <1>6, <2>3 DEF lex_parse_int
    <3> QED
      BY <1>4, <3>1, <3>2
  <2> QED
    BY <2>2, <2>3
<1>7. CASE lex_parse_ident
  <2>1. mode = "ident" /\ (pos > start \/ current \in Alphas)
    BY <1>7 DEF lex_parse_ident, LexInv
  <2>2. CASE current \notin Alphas
    <3>1. Return(WordToken(buf), 0)
      BY <1>7, <2>2 DEF lex_parse_ident
    <3> QED
      BY <1>4, <2>1, <2>2, <3>1
  <2>3. CASE current \in Alphas /\ Len(buf) >= IDENT_MAX
    <3>1. Exit("identifier too long")
      BY <1>7, <2>3 DEF lex_parse_ident
    <3>2. LexInv'
      BY <3>1, ExitKeepsInv DEF Exits
    <3> QED
      BY <3>1, <3>2 DEF Exit, Moves
  <2>4. CASE current \in Alphas /\ ~(Len(buf) >= IDENT_MAX)
    <3>1. Copy(current, 1) /\ capacity' = capacity /\ Len(buf) < IDENT_MAX /\ current # NUL
      BY <1>2, <1>3, <1>7, <2>4, CharsAreNotNul DEF lex_parse_ident
    <3> QED
      BY <1>1, <1>2, <1>5, <2>1, <3>1, CopyKeepsInv
  <2> QED
    BY <2>2, <2>3, <2>4
<1>8. CASE lex_parse_string
  <2>1. mode = "string" /\ pos > start /\ Len(buf) <= capacity
    BY <1>8 DEF lex_parse_string, LexInv, CopiesFit
  <2>2. CASE Return(StringToken(buf), 1)
    BY <1>4, <2>1, <2>2
  <2>3. CASE Exit("out of memory")
    <3>1. LexInv'
      BY <2>3, ExitKeepsInv DEF Exits
    <3> QED
      BY <2>3, <3>1 DEF Exit, Moves
  <2>4. CASE /\ ~(Len(buf) >= capacity /\ 2 * capacity > ALLOC_MAX)
             /\ capacity' = IF Len(buf) >= capacity THEN 2 * capacity ELSE capacity
             /\ Copy(Escaped(Following), 2) \/ Copy(current, 1)
    <3>1. capacity' \in Nat \ {0} /\ capacity' <= ALLOC_MAX /\ Len(buf) < capacity'
      BY <1>1, <1>2, <1>3, <2>1, <2>4
    <3>2. Escaped(Following) \in Copied
      BY <1>2, EscapedIsCopied
    <3> QED
      BY <1>2, <1>5, <2>1, <2>4, <3>1, <3>2, CopyKeepsInv
  <2> QED
    BY <1>8, <2>2, <2>3, <2>4 DEF lex_parse_string
<1> QED
  BY <1>6, <1>7, <1>8

LEMMA StepKeepsInv == LexInv /\ [LexNext]_lexvars => LexInv' /\ Moves
<1> SUFFICES ASSUME LexInv, [LexNext]_lexvars PROVE LexInv' /\ Moves
  OBVIOUS
<1>1. CASE SkipWhitespace \/ Operator \/ Unknown \/ Eof \/ Begin
  BY <1>1, CallKeepsInv
<1>2. CASE lex_parse_int \/ lex_parse_ident \/ lex_parse_string
  BY <1>2, LiteralsKeepInv
<1>3. CASE UNCHANGED lexvars
  BY <1>3 DEF lexvars, LexInv, CopiesFit, Moves
<1> QED
  BY <1>1, <1>2, <1>3 DEF LexNext

-----------------------------------------------------------------------------
(* The invariant from which the other two theorems follow holds for every  *)
(* source and every size of the lexer's arrays.                            *)
THEOREM LexerInductive == LexSpec => []LexInv
<1>1. LexInv /\ [LexNext]_lexvars => LexInv'
  BY StepKeepsInv
<1> QED
  BY <1>1, InitInv, PTL DEF LexSpec

(* The copies lex_parse_int, lex_parse_ident and lex_parse_string make     *)
(* stay inside their arrays, and `current' always repeats src[pos].        *)
THEOREM CopiesAlwaysFit == LexSpec => []CopiesFit
<1>1. LexInv => CopiesFit
  BY DEF LexInv
<1> QED
  BY <1>1, LexerInductive, PTL

(* Every call of lex_next that does not return TOK_EOF moves on in the     *)
(* source.                                                                 *)
THEOREM TokensAdvance == LexSpec => EveryTokenAdvances
<1>1. LexInv /\ [LexNext]_lexvars => [tokens' # tokens => pos' > start \/ mode' = "eof"]_lexvars
  BY StepKeepsInv DEF Moves
<1> QED
  BY <1>1, LexerInductive, PTL DEF LexSpec, EveryTokenAdvances

-----------------------------------------------------------------------------
(* Types.  What is copied in a number or a word, and the tokens returned.  *)
TokenInv ==
  /\ mode \in Mode /\ tokens \in Seq(LexToken)
  /\ mode = "int"   => buf \in Seq(Digits)
  /\ mode = "ident" => buf \in Seq(Alphas)

LEMMA PlainTokens ==
  ASSUME NEW type \in TokenType
  PROVE  Token(type) \in LexToken
<1>1. 0 \in -1 .. INT_MAX
  BY IntMaxAssumption
<1>2. <<>> \in Seq(Alphas) /\ <<>> \in Seq(Copied)
  BY EmptySeq
<1>3. "int" \in BaseType
  BY DEF BaseType
<1> QED
  BY <1>1, <1>2, <1>3 DEF Token, LexToken

LEMMA ValuedTokens ==
  /\ \A n \in Nat : IntToken(n) \in LexToken
  /\ \A w \in Seq(Alphas) : WordToken(w) \in LexToken
  /\ \A text \in Seq(Copied) : StringToken(text) \in LexToken
<1>1. /\ Token("TOK_ERROR") \in LexToken /\ Token("TOK_INT") \in LexToken
      /\ Token("TOK_IDENT") \in LexToken /\ Token("TOK_STRING") \in LexToken
      /\ Token("TOK_TYPE") \in LexToken
  BY PlainTokens DEF TokenType
<1>2. \A n \in Nat : IntToken(n) \in LexToken
  <2> SUFFICES ASSUME NEW n \in Nat PROVE IntToken(n) \in LexToken
    OBVIOUS
  <2>1. -1 \in -1 .. INT_MAX /\ (~(n > INT_MAX) => n \in -1 .. INT_MAX)
    BY IntMaxAssumption
  <2> QED
    BY <1>1, <2>1 DEF IntToken, ErrorToken, LexToken
<1>3. \A text \in Seq(Copied) : StringToken(text) \in LexToken
  BY <1>1 DEF StringToken, LexToken
<1>4. \A w \in Seq(Alphas) : IdentToken(w) \in LexToken
  BY <1>1 DEF IdentToken, LexToken
<1>5. TypeToken("int") \in LexToken /\ TypeToken("bool") \in LexToken /\ TypeToken("string") \in LexToken
  BY <1>1 DEF TypeToken, LexToken, BaseType
<1>6. /\ Token("TOK_IF") \in LexToken /\ Token("TOK_FN") \in LexToken /\ Token("TOK_VAR") \in LexToken
      /\ Token("TOK_TRUE") \in LexToken /\ Token("TOK_ELSE") \in LexToken
      /\ Token("TOK_FALSE") \in LexToken /\ Token("TOK_WHILE") \in LexToken
      /\ Token("TOK_RETURN") \in LexToken
  BY PlainTokens DEF TokenType
<1>7. \A w \in Seq(Alphas) : WordToken(w) \in LexToken
  BY <1>4, <1>5, <1>6, Zenon DEF WordToken
<1> QED
  BY <1>2, <1>3, <1>7

LEMMA OperatorTokens ==
  /\ \A c \in DOMAIN Alone : Alone[c] \in TokenType
  /\ \A c \in DOMAIN Plain : Plain[c] \in TokenType /\ WithEquals[c] \in TokenType
  /\ \A c \in DOMAIN Twice : Twice[c] \in TokenType
<1>1. ASSUME NEW c \in DOMAIN Alone PROVE Alone[c] \in TokenType
  <2>1. Alone[c] \in {"TOK_LPAREN", "TOK_RPAREN", "TOK_SEMICOLON", "TOK_COLON", "TOK_LBRACE",
                      "TOK_RBRACE", "TOK_LBRACKET", "TOK_RBRACKET", "TOK_COMMA", "TOK_MODULO"}
    BY DEF Alone
  <2> QED
    BY <2>1 DEF TokenType
<1>2. ASSUME NEW c \in DOMAIN Plain PROVE Plain[c] \in TokenType
  <2>1. Plain[c] \in {"TOK_PLUS", "TOK_MINUS", "TOK_MULT", "TOK_DIV", "TOK_ASSIGN", "TOK_EXCLAM",
                      "TOK_LESS", "TOK_GREATER"}
    BY DEF Plain
  <2> QED
    BY <2>1 DEF TokenType
<1>3. ASSUME NEW c \in DOMAIN Plain PROVE WithEquals[c] \in TokenType
  <2>1. WithEquals[c] \in {"TOK_PLUS_EQUALS", "TOK_MINUS_EQUALS", "TOK_MULT_EQUALS",
                           "TOK_DIV_EQUALS", "TOK_EQUALS", "TOK_NOT_EQUALS", "TOK_LESS_EQUALS",
                           "TOK_GREATER_EQUALS"}
    BY DEF WithEquals, Plain
  <2> QED
    BY <2>1 DEF TokenType
<1>4. \A c \in DOMAIN Twice : Twice[c] \in TokenType
  BY DEF Twice, TokenType
<1> QED
  BY <1>1, <1>2, <1>3, <1>4

LEMMA ReturnKeepsTokens ==
  ASSUME TokenInv, NEW t \in LexToken, NEW n, Return(t, n)
  PROVE  TokenInv'
<1>1. tokens' \in Seq(LexToken) /\ mode' = "idle"
  BY AppendProperties DEF TokenInv, Return
<1> QED
  BY <1>1 DEF TokenInv, Mode

LEMMA StepKeepsTokens == LexInv /\ TokenInv /\ [LexNext]_lexvars => TokenInv'
<1> SUFFICES ASSUME LexInv, TokenInv, [LexNext]_lexvars PROVE TokenInv'
  OBVIOUS
<1>1. CASE SkipWhitespace
  BY <1>1 DEF SkipWhitespace, TokenInv
<1>2. CASE Operator
  <2>1. CASE \E type \in TokenType, n \in {1, 2} : Return(Token(type), n)
    BY <2>1, PlainTokens, ReturnKeepsTokens
  <2>2. CASE Exit("second character expected")
    BY <2>2 DEF Exit, TokenInv, Mode, Ended, Exits
  <2> QED
    BY <1>2, <2>1, <2>2, OperatorTokens DEF Operator
<1>3. CASE Unknown
  <2>1. Token("TOK_UNKNOWN") \in LexToken
    BY PlainTokens DEF TokenType
  <2> QED
    BY <1>3, <2>1, ReturnKeepsTokens DEF Unknown
<1>4. CASE Eof
  <2>1. Token("TOK_EOF") \in LexToken
    BY PlainTokens DEF TokenType
  <2> QED
    BY <1>4, <2>1, AppendProperties DEF Eof, TokenInv, Mode, Ended
<1>5. CASE Begin
  <2>1. buf' = <<>> /\ tokens' = tokens /\ mode' \in Mode
    BY <1>5 DEF Begin, LexInv, Mode
  <2> QED
    BY <2>1, EmptySeq DEF TokenInv
<1>6. CASE lex_parse_int
  <2>1. mode = "int" /\ buf \in Seq(Digits)
    BY <1>6 DEF lex_parse_int, TokenInv
  <2>2. CASE MoreDigits
    <3>1. buf' \in Seq(Digits) /\ mode' = mode /\ tokens' = tokens
      BY <1>6, <2>1, <2>2, AppendProperties DEF lex_parse_int, MoreDigits, Copy
    <3> QED
      BY <2>1, <3>1 DEF TokenInv
  <2>3. CASE ~MoreDigits
    <3>1. IntToken(NumberOf(buf)) \in LexToken
      BY <2>1, NumbersAreNatural, ValuedTokens
    <3> QED
      BY <1>6, <2>3, <3>1, ReturnKeepsTokens DEF lex_parse_int
  <2> QED
    BY <2>2, <2>3
<1>7. CASE lex_parse_ident
  <2>1. mode = "ident" /\ buf \in Seq(Alphas)
    BY <1>7 DEF lex_parse_ident, TokenInv
  <2>2. CASE Return(WordToken(buf), 0)
    BY <2>1, <2>2, ValuedTokens, ReturnKeepsTokens
  <2>3. CASE Exit("identifier too long")
    BY <2>3 DEF Exit, TokenInv, Mode, Ended, Exits
  <2>4. CASE current \in Alphas /\ Copy(current, 1)
    <3>1. buf' \in Seq(Alphas) /\ mode' = mode /\ tokens' = tokens
      BY <2>1, <2>4, AppendProperties DEF Copy
    <3> QED
      BY <2>1, <3>1 DEF TokenInv
  <2> QED
    BY <1>7, <2>2, <2>3, <2>4 DEF lex_parse_ident
<1>8. CASE lex_parse_string
  <2>1. mode = "string" /\ buf \in Seq(Copied)
    BY <1>8 DEF lex_parse_string, LexInv
  <2>2. CASE Return(StringToken(buf), 1)
    BY <2>1, <2>2, ValuedTokens, ReturnKeepsTokens
  <2>3. CASE Exit("out of memory")
    BY <2>3 DEF Exit, TokenInv, Mode, Ended, Exits
  <2>4. CASE mode' = mode /\ tokens' = tokens
    BY <2>1, <2>4 DEF TokenInv
  <2> QED
    BY <1>8, <2>2, <2>3, <2>4 DEF lex_parse_string, Copy
<1>9. CASE UNCHANGED lexvars
  BY <1>9 DEF lexvars, TokenInv
<1> QED
  BY <1>1, <1>2, <1>3, <1>4, <1>5, <1>6, <1>7, <1>8, <1>9 DEF LexNext

(* What the lexer, its buffers and the tokens it returns hold: no integer  *)
(* token is ever above INT_MAX, whatever the digits in the source.         *)
THEOREM TypesAlwaysHold == LexSpec => []LexTypeOK
<1>1. LexInit => TokenInv
  BY EmptySeq DEF LexInit, lexer_init, TokenInv, Mode
<1>2. LexInv /\ TokenInv => LexTypeOK
  <2> SUFFICES ASSUME LexInv, TokenInv PROVE LexTypeOK
    OBVIOUS
  <2>1. current \in Char \cup {NUL}
    BY CharAtIsCopied DEF LexInv, CopiesFit, Copied
  <2> QED
    BY <2>1 DEF LexInv, TokenInv, LexTypeOK
<1> QED
  BY <1>1, <1>2, StepKeepsTokens, LexerInductive, PTL DEF LexSpec

-----------------------------------------------------------------------------
(* What is left to do.  A number or a name that nothing has been copied of *)
(* stands at a character of its own.                                       *)
WorkInv ==
  /\ mode = "int" /\ buf = <<>>   => current \in Digits
  /\ mode = "ident" /\ buf = <<>> => current \in Alphas

Counts == pos' > pos \/ (pos' = pos /\ Work' < Work /\ Work' >= 0)

LEMMA WorkIs ==
  /\ mode = "idle" => Work = 2
  /\ mode \in {"int", "ident"} => Work = IF buf = <<>> THEN 1 ELSE 3
  /\ mode = "string" => Work = 1 + ALLOC_MAX - Len(buf)
  /\ mode \in Ended => Work = 0
BY Zenon DEF Work, Ended, Exits

LEMMA WorkWillBe ==
  /\ mode' = "idle" => Work' = 2
  /\ mode' \in {"int", "ident"} => Work' = IF buf' = <<>> THEN 1 ELSE 3
  /\ mode' = "string" => Work' = 1 + ALLOC_MAX - Len(buf')
  /\ mode' \in Ended => Work' = 0
BY Zenon DEF Work, Ended, Exits

LEMMA ReturnCounts ==
  ASSUME LexInv, NEW t, NEW n \in Nat, Return(t, n), \/ n > 0 /\ current # NUL
                                                     \/ mode \in {"int", "ident"} /\ buf # <<>>
  PROVE  Counts /\ WorkInv'
<1>1. src \in Seq(Char) /\ pos \in Nat /\ pos <= Len(src) /\ Len(src) \in Nat /\ current = CharAt(src, pos)
  BY LenProperties DEF LexInv, CopiesFit
<1>2. /\ pos' \in Nat /\ pos' >= pos /\ mode' = "idle" /\ Work' = 2
      /\ n > 0 /\ pos < Len(src) => pos' > pos
  BY <1>1, Advances, WorkWillBe DEF Return
<1>3. CASE n > 0 /\ current # NUL
  <2>1. pos < Len(src)
    BY <1>1, <1>3, AtEnd
  <2> QED
    BY <1>2, <1>3, <2>1 DEF Counts, WorkInv
<1>4. CASE mode \in {"int", "ident"} /\ buf # <<>>
  <2>1. Work = 3
    BY <1>4, WorkIs
  <2> QED
    BY <1>1, <1>2, <2>1 DEF Counts, WorkInv
<1> QED
  BY <1>3, <1>4

LEMMA ExitCounts ==
  ASSUME LexInv, NEW why \in Exits, Exit(why), Work > 0
  PROVE  Counts /\ WorkInv'
<1>1. pos' = pos /\ mode' = why /\ mode' \in Ended /\ mode' \notin {"int", "ident"}
  BY DEF Exit, Exits, Ended
<1>2. Work' = 0
  BY <1>1, WorkWillBe
<1> QED
  BY <1>1, <1>2 DEF Counts, WorkInv

LEMMA CopyCounts ==
  ASSUME LexInv, NEW c \in Copied, NEW n \in Nat, Copy(c, n), n > 0, current # NUL
  PROVE  Counts /\ buf' # <<>>
<1>1. /\ src \in Seq(Char) /\ pos \in Nat /\ pos <= Len(src) /\ current = CharAt(src, pos)
      /\ buf \in Seq(Copied)
  BY DEF LexInv, CopiesFit
<1>2. pos < Len(src)
  BY <1>1, AtEnd
<1>3. pos' > pos
  BY <1>1, <1>2, Advances DEF Copy
<1>4. Len(buf') = Len(buf) + 1 /\ Len(buf) \in Nat
  BY <1>1, AppendProperties, LenProperties DEF Copy
<1>5. Len(<<>>) = 0
  OBVIOUS
<1> QED
  BY <1>3, <1>4, <1>5 DEF Counts

LEMMA StepCounts == LexInv /\ WorkInv /\ LexNext => Counts /\ WorkInv'
<1> SUFFICES ASSUME LexInv, WorkInv, LexNext PROVE Counts /\ WorkInv'
  OBVIOUS
<1>1. /\ src \in Seq(Char) /\ pos \in Nat /\ pos <= Len(src) /\ current = CharAt(src, pos)
      /\ buf \in Seq(Copied) /\ capacity \in Nat /\ capacity <= ALLOC_MAX /\ Len(buf) \in Nat
      /\ ALLOC_MAX \in Nat
  BY LexerBoundsAssumption, LenProperties DEF LexInv, CopiesFit
<1>2. CASE SkipWhitespace
  <2>1. pos < Len(src)
    BY <1>1, <1>2, AtEnd DEF SkipWhitespace, Space, NUL
  <2> QED
    BY <1>1, <1>2, <2>1, Advances DEF SkipWhitespace, Counts, WorkInv
<1>3. CASE Operator \/ Unknown
  <2>1. Work > 0
    <3>1. mode = "idle"
      BY <1>3 DEF Operator, Unknown
    <3>2. Work = 2
      BY <3>1, WorkIs
    <3> QED
      BY <3>2
  <2>2. \/ current # NUL /\ \E t, n : n \in {1, 2} /\ Return(t, n)
        \/ \E why \in Exits : Exit(why)
    BY <1>3, CharsAreNotNul DEF Operator, Unknown, Exits
  <2> QED
    BY <2>1, <2>2, ReturnCounts, ExitCounts
<1>4. CASE Eof
  <2>1. mode = "idle" /\ mode' = "eof" /\ pos' = pos
    BY <1>4 DEF Eof
  <2>2. Work = 2 /\ Work' = 0
    BY <2>1, WorkIs, WorkWillBe DEF Ended
  <2> QED
    BY <1>1, <2>1, <2>2 DEF Counts, WorkInv
<1>5. CASE Begin
  <2>1. mode = "idle" /\ Work = 2 /\ buf' = <<>>
    BY <1>5, WorkIs DEF Begin, LexInv
  <2>2. CASE current = Quote /\ mode' = "string" /\ lex_advance(1)
    <3>1. pos < Len(src)
      BY <1>1, <2>2, AtEnd, CharsAreNotNul
    <3> QED
      BY <1>1, <2>2, <3>1, Advances DEF Counts, WorkInv
  <2>3. CASE mode' \in {"int", "ident"} /\ pos' = pos
    <3>1. Work' = 1
      BY <2>1, <2>3, WorkWillBe
    <3>2. WorkInv'
      BY <1>5, <2>3 DEF Begin, WorkInv
    <3> QED
      BY <1>1, <2>1, <2>3, <3>1, <3>2 DEF Counts
  <2> QED
    BY <1>5, <2>2, <2>3 DEF Begin
<1>6. CASE lex_parse_int
  <2>1. mode = "int"
    BY <1>6 DEF lex_parse_int
  <2>2. CASE MoreDigits
    <3>1. Copy(current, 1) /\ current \in Copied /\ current # NUL
      BY <1>1, <1>6, <2>2, CharsAreNotNul, CharAtIsCopied DEF lex_parse_int, MoreDigits
    <3>2. mode' = "int"
      BY <2>1, <3>1 DEF Copy
    <3> QED
      BY <3>1, <3>2, CopyCounts DEF WorkInv
  <2>3. CASE ~MoreDigits
    <3>1. buf # <<>>
      BY <2>1, <2>3, LexerBoundsAssumption DEF MoreDigits, WorkInv
    <3>2. Return(IntToken(NumberOf(buf)), 0)
      BY <1>6, <2>3 DEF lex_parse_int
    <3> QED
      BY <2>1, <3>1, <3>2, ReturnCounts
  <2> QED
    BY <2>2, <2>3
<1>7. CASE lex_parse_ident
  <2>1. mode = "ident" /\ Work > 0
    <3>1. mode = "ident"
      BY <1>7 DEF lex_parse_ident
    <3>2. Work = 1 \/ Work = 3
      BY <3>1, WorkIs
    <3> QED
      BY <3>1, <3>2
  <2>2. CASE Return(WordToken(buf), 0) /\ current \notin Alphas
    BY <2>1, <2>2, ReturnCounts DEF WorkInv
  <2>3. CASE Exit("identifier too long")
    BY <2>1, <2>3, ExitCounts DEF Exits
  <2>4. CASE current \in Alphas /\ Copy(current, 1)
    <3>1. current \in Copied /\ current # NUL
      BY <1>1, <2>4, CharsAreNotNul, CharAtIsCopied
    <3>2. mode' = "ident"
      BY <2>1, <2>4 DEF Copy
    <3> QED
      BY <2>4, <3>1, <3>2, CopyCounts DEF WorkInv
  <2> QED
    BY <1>7, <2>2, <2>3, <2>4 DEF lex_parse_ident
<1>8. CASE lex_parse_string
  <2>1. mode = "string" /\ Len(buf) <= capacity /\ Work = 1 + ALLOC_MAX - Len(buf)
    BY <1>8, WorkIs DEF lex_parse_string, LexInv, CopiesFit
  <2>2. Work > 0
    BY <1>1, <2>1
  <2>3. CASE current = Quote /\ Return(StringToken(buf), 1)
    BY <2>3, ReturnCounts, CharsAreNotNul
  <2>4. CASE Exit("out of memory")
    BY <2>2, <2>4, ExitCounts DEF Exits
  <2>5. CASE \E c, n : n \in {1, 2} /\ Copy(c, n)
    <3>1. PICK c, n : n \in {1, 2} /\ Copy(c, n)
      BY <2>5
    <3>2. pos' \in Nat /\ pos' >= pos /\ mode' = "string" /\ buf' = Append(buf, c)
      BY <1>1, <2>1, <3>1, Advances DEF Copy
    <3>3. LexInv'
      BY StepKeepsInv
    <3>4. Len(buf') <= ALLOC_MAX
      <4>1. Len(buf') <= capacity' /\ capacity' <= ALLOC_MAX /\ Len(buf') \in Nat /\ capacity' \in Nat
        BY <3>2, <3>3, LenProperties DEF LexInv, CopiesFit
      <4> QED
        BY <1>1, <4>1
    <3>5. Len(buf') = Len(buf) + 1
      <4>1. buf \in Seq(Copied \cup {c}) /\ c \in Copied \cup {c}
        BY <1>1
      <4> QED
        BY <3>2, <4>1, AppendProperties
    <3>6. Work' = 1 + ALLOC_MAX - Len(buf')
      BY <3>2, WorkWillBe
    <3> QED
      BY <1>1, <2>1, <3>2, <3>4, <3>5, <3>6 DEF Counts, WorkInv
  <2> QED
    BY <1>8, <2>3, <2>4, <2>5 DEF lex_parse_string
<1> QED
  BY <1>2, <1>3, <1>4, <1>5, <1>6, <1>7, <1>8 DEF LexNext

(* No step of the lexer is in vain, whatever the source, terminated or     *)
(* not: it moves on, or has less to do before it does or exits.            *)
THEOREM StepsAlwaysCount == LexSpec => EveryStepCounts
<1>1. LexInit => WorkInv
  BY DEF LexInit, lexer_init, WorkInv
<1>2. LexInv /\ WorkInv /\ [LexNext]_lexvars => WorkInv' /\ [Counts]_lexvars
  <2>1. UNCHANGED lexvars /\ WorkInv => WorkInv'
    BY DEF lexvars, WorkInv
  <2> QED
    BY <2>1, StepCounts
<1> QED
  BY <1>1, <1>2, LexerInductive, PTL DEF LexSpec, EveryStepCounts, Counts
=============================================================================
