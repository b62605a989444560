-------------------------------- MODULE Lexer --------------------------------
(***************************************************************************)
(* lexer.c: lex_next called until it returns TOK_EOF, one iteration of its *)
(* loops per step.                                                         *)
(*                                                                         *)
(* `mode' is "idle" in lex_next itself, and names the loop the lexer is    *)
(* in; it is "eof" when the source is used up and one of Exits after       *)
(* exit(1).                                                                *)
(***************************************************************************)
EXTENDS LexicalGrammar

CONSTANTS
  Sources,       \* the texts lexer_init may be handed
  STRING_INIT    \* initial capacity of a string's buffer: 256

Char == Space \cup Digits \cup Alphas \cup DOMAIN Alone \cup DOMAIN Plain \cup DOMAIN Twice
          \cup {Quote, Slash, "?"}

Copied == Char \cup {NUL}      \* what can be copied: \0 is written for NUL

ASSUME SourcesAssumption == Sources \subseteq Seq(Char)
ASSUME LexerBoundsAssumption ==
  /\ INT_DIGITS \in Nat \ {0} /\ IDENT_MAX \in Nat \ {0}
  /\ STRING_INIT \in Nat \ {0} /\ ALLOC_MAX \in Nat /\ STRING_INIT <= ALLOC_MAX

(* The capacities a string's buffer may be given, one doubling after the   *)
(* other.  No other capacity is asked for, so the largest one that is      *)
(* granted is one of them.                                                 *)
Capacity[n \in 0 .. ALLOC_MAX] == IF n = 0 THEN STRING_INIT ELSE 2 * Capacity[n - 1]

ASSUME AllocAssumption == \E n \in 0 .. ALLOC_MAX : ALLOC_MAX = Capacity[n]

VARIABLES
  src, pos, current,   \* struct Lexer; `current' repeats src[pos]
  mode,
  buf, capacity,       \* characters copied so far; capacity of a string's buffer
  start,               \* where the running call of lex_next began
  tokens               \* tokens returned so far

lexvars == <<src, pos, current, mode, buf, capacity, start, tokens>>

Exits == {"second character expected", "identifier too long", "out of memory"}
Ended == Exits \cup {"eof"}
Mode  == {"idle", "int", "ident", "string"} \cup Ended

CharAt(s, p) == IF p < Len(s) THEN s[p + 1] ELSE NUL

lexer_init(s) ==
  /\ src = s /\ pos = 0 /\ current = CharAt(s, 0)
  /\ mode = "idle" /\ buf = <<>> /\ capacity = STRING_INIT /\ start = 0 /\ tokens = <<>>

LexInit == \E s \in Sources : lexer_init(s)

-----------------------------------------------------------------------------
(* Mutant: the cached character is the second of the two that were read.   *)
lex_advance_stale(n) ==
  /\ pos' = IF pos + n < Len(src) THEN pos + n ELSE Len(src)
  /\ current' = IF n = 2 THEN CharAt(src, pos + 1) ELSE CharAt(src, pos')

(* n calls of lex_advance.                                                 *)
lex_advance(n) ==
  /\ pos' = IF pos + n < Len(src) THEN pos + n ELSE Len(src)
  /\ current' = CharAt(src, pos')

Following == CharAt(src, pos + 1)

(* lex_next returns a token after n more characters.                       *)
Return(token, n) ==
  /\ lex_advance(n)
  /\ tokens' = Append(tokens, token)
  /\ mode' = "idle" /\ buf' = <<>> /\ start' = pos'
  /\ UNCHANGED <<src, capacity>>

Exit(why) ==
  /\ mode' = why
  /\ UNCHANGED <<src, pos, current, buf, capacity, start, tokens>>

(* Mutants: the loop, and the last case of the switch, without their       *)
(* lex_advance.                                                            *)
SkipWhitespace_stays == mode = "idle" /\ current \in Space /\ UNCHANGED lexvars
Unknown_stays ==
  /\ mode = "idle" /\ current \in {Slash, "?"}
  /\ Return(Token("TOK_UNKNOWN"), 0)

SkipWhitespace ==
  /\ mode = "idle" /\ current \in Space
  /\ lex_advance(1)
  /\ UNCHANGED <<src, mode, buf, capacity, start, tokens>>

Operator ==
  /\ mode = "idle"
  /\ \/ current \in DOMAIN Alone /\ Return(Token(Alone[current]), 1)
     \/ /\ current \in DOMAIN Plain
        /\ IF Following = "=" THEN Return(Token(WithEquals[current]), 2)
           ELSE Return(Token(Plain[current]), 1)
     \/ /\ current \in DOMAIN Twice
        /\ IF Following = current THEN Return(Token(Twice[current]), 2)
           ELSE Exit("second character expected")

Unknown ==
  /\ mode = "idle"
  /\ current \notin Space \cup Digits \cup Alphas \cup DOMAIN Alone \cup DOMAIN Plain
                      \cup DOMAIN Twice \cup {Quote, NUL}
  /\ Return(Token("TOK_UNKNOWN"), 1)

Eof ==
  /\ mode = "idle" /\ current = NUL
  /\ mode' = "eof" /\ tokens' = Append(tokens, Token("TOK_EOF")) /\ start' = pos
  /\ UNCHANGED <<src, pos, current, buf, capacity>>

-----------------------------------------------------------------------------
(* Literals and words: the call, each character copied, the return.        *)

Begin ==
  /\ mode = "idle"
  /\ \/ current \in Digits /\ mode' = "int"   /\ UNCHANGED <<pos, current, capacity>>
     \/ current \in Alphas /\ mode' = "ident" /\ UNCHANGED <<pos, current, capacity>>
     \/ current = Quote /\ mode' = "string" /\ lex_advance(1) /\ capacity' = STRING_INIT
  /\ UNCHANGED <<src, buf, start, tokens>>

Copy(c, n) ==
  /\ buf' = Append(buf, c) /\ lex_advance(n)
  /\ UNCHANGED <<src, mode, start, tokens>>

MoreDigits_late == current \in Digits /\ Len(buf) <= INT_DIGITS     \* mutant: one too many
MoreDigits == current \in Digits /\ Len(buf) < INT_DIGITS

lex_parse_int ==
  /\ mode = "int"
  /\ IF MoreDigits THEN Copy(current, 1) /\ UNCHANGED capacity
     ELSE Return(IntToken(NumberOf(buf)), 0)

lex_parse_ident ==
  /\ mode = "ident"
  /\ IF current \notin Alphas THEN Return(WordToken(buf), 0)
     ELSE IF Len(buf) >= IDENT_MAX THEN Exit("identifier too long")
     ELSE Copy(current, 1) /\ UNCHANGED capacity

(* The loop ends at a quote only: at the end of the source it goes on      *)
(* copying NUL until realloc fails.                                        *)
lex_parse_string ==
  /\ mode = "string"
  /\ IF current = Quote THEN Return(StringToken(buf), 1)
     ELSE IF Len(buf) >= capacity /\ 2 * capacity > ALLOC_MAX THEN Exit("out of memory")
     ELSE /\ capacity' = IF Len(buf) >= capacity THEN 2 * capacity ELSE capacity
          /\ IF current = Slash THEN Copy(Escaped(Following), 2) ELSE Copy(current, 1)

LexNext ==
  \/ SkipWhitespace \/ Operator \/ Unknown \/ Eof
  \/ Begin \/ lex_parse_int \/ lex_parse_ident \/ lex_parse_string

LexSpec == LexInit /\ [][LexNext]_lexvars

(* One thread that never waits.                                            *)
LexFairSpec == LexSpec /\ WF_lexvars(LexNext)

-----------------------------------------------------------------------------
(* Properties.                                                             *)

LexToken ==
  [type : TokenType, int_val : -1 .. INT_MAX, ident_val : Seq(Alphas), string_val : Seq(Copied),
   type_val : BaseType]

(* What the lexer, its buffers and the tokens it returned can hold: an     *)
(* integer token never holds more than INT_MAX.                            *)
LexTypeOK ==
  /\ src \in Seq(Char) /\ pos \in Nat /\ current \in Char \cup {NUL} /\ mode \in Mode
  /\ buf \in Seq(Copied) /\ capacity \in Nat \ {0} /\ start \in 0 .. pos
  /\ tokens \in Seq(LexToken)

(* `current' repeats the character at `pos', and the copies made so far    *)
(* fit the arrays they are made into.  (The terminator of a string may     *)
(* still be written one past its buffer.)                                  *)
CopiesFit ==
  /\ current = CharAt(src, pos) /\ pos <= Len(src)
  /\ mode = "int"    => Len(buf) <= INT_DIGITS
  /\ mode = "ident"  => Len(buf) <= IDENT_MAX
  /\ mode = "string" => Len(buf) <= capacity /\ capacity <= ALLOC_MAX

(* A token other than TOK_EOF stands for at least one character: parse     *)
(* loops that call lex_next come to an end.                                *)
EveryTokenAdvances ==
  [][tokens' # tokens => pos' > start \/ mode' = "eof"]_lexvars

(* No step is in vain: it moves on in the source or, where it stays, leaves *)
(* less to do.  At the end of the source a text goes on being copied, but  *)
(* only until its buffer is the largest one.                               *)
Work ==
  CASE mode = "idle"            -> 2
    [] mode \in {"int", "ident"} -> IF buf = <<>> THEN 1 ELSE 3
    [] mode = "string"          -> 1 + ALLOC_MAX - Len(buf)
    [] OTHER                    -> 0

EveryStepCounts ==
  [][pos' > pos \/ (pos' = pos /\ Work' < Work /\ Work' >= 0)]_lexvars

(* What the lexer returns is the longest-match reading of its source.      *)
Reading == INSTANCE TokenStream WITH
  rest  <- SubSeq(src, start + 1, Len(src)),
  state <- CASE mode = "eof" -> "ended" [] mode \in Exits -> "failed" [] OTHER -> "reading"

ReadsLongestMatch == Reading!StreamSpec

(* The lexer returns TOK_EOF or exits, whatever the source.                *)
LexerEnds == <>(mode \in Ended)
=============================================================================
