------------------------- MODULE LexicalGrammarProofs ------------------------
(***************************************************************************)
(* What the lexemes of the language are like: lemmas for the theorems      *)
(* about the lexer.                                                        *)
(*                                                                         *)
(* Where a fact about a recursive definition needs induction it is proved  *)
(* by its least counterexample.                                            *)
(***************************************************************************)
EXTENDS LexicalGrammar, FiniteSetTheorems, FunctionTheorems, SequenceTheorems, WellFoundedInduction, TLAPS

(* A set of natural numbers that is not empty has a least element.         *)
LEMMA LeastNumber ==
  ASSUME NEW T, T \subseteq Nat, T # {}
  PROVE  \E m \in T : \A k \in T : m <= k
<1> DEFINE R == OpToRel(<, Nat)
<1>1. IsWellFoundedOn(R, Nat)
  BY NatLessThanWellFounded
<1>2. \A a, b \in Nat : a < b => <<a, b>> \in R
  BY DEF OpToRel
<1> HIDE DEF R
<1>3. \E x \in T : \A y \in T : ~ (<<y, x>> \in R)
  BY <1>1, WFMin
<1>4. PICK m \in T : \A y \in T : ~ (<<y, m>> \in R)
  BY <1>3
<1>5. \A k \in T : m <= k
  <2> TAKE k \in T
  <2>1. ~(k < m)
    BY <1>2, <1>4
  <2>2. k \in Nat /\ m \in Nat
    OBVIOUS
  <2> QED
    BY <2>1, <2>2
<1> QED
  BY <1>5

(* A bounded set of numbers that is not empty has a greatest.              *)
LEMMA GreatestNumber ==
  ASSUME NEW N \in Nat, NEW T, T \subseteq 0 .. N, T # {}
  PROVE  \E m \in T : \A k \in T : k <= m
<1> DEFINE U == {N - k : k \in T}
<1>1. U \subseteq Nat /\ U # {}
  <2>1. \A k \in T : N - k \in Nat
    <3> TAKE k \in T
    <3>1. k \in 0 .. N
      OBVIOUS
    <3> QED
      BY <3>1
  <2>2. PICK k \in T : TRUE
    OBVIOUS
  <2>3. N - k \in U
    OBVIOUS
  <2> QED
    BY <2>1, <2>3
<1>2. PICK u \in U : \A v \in U : u <= v
  <2> HIDE DEF U
  <2> QED
    BY <1>1, LeastNumber
<1>3. PICK m \in T : u = N - m
  OBVIOUS
<1>4. \A k \in T : k <= m
  <2> TAKE k \in T
  <2>1. N - m <= N - k
    BY <1>2, <1>3
  <2>2. k \in Nat /\ m \in Nat
    OBVIOUS
  <2> QED
    BY <2>1, <2>2
<1> QED
  BY <1>4

(* A recursion along 0 .. L has a solution in the natural numbers.         *)
LEMMA RecursionHasSolution ==
  ASSUME NEW L \in Nat, NEW a \in Nat, NEW step \in [1 .. L -> [Nat -> Nat]]
  PROVE  \E f \in [0 .. L -> Nat] :
            \A n \in 0 .. L : f[n] = IF n = 0 THEN a ELSE step[n][f[n - 1]]
<1> DEFINE Solves(g, m) == \A n \in 0 .. m : g[n] = IF n = 0 THEN a ELSE step[n][g[n - 1]]
           Solvable(m) == \E g \in [0 .. m -> Nat] : Solves(g, m)
           T == {m \in 0 .. L : ~Solvable(m)}
<1>1. SUFFICES ASSUME T # {} PROVE FALSE
  <2>1. L \in 0 .. L
    OBVIOUS
  <2>2. T = {} => Solvable(L)
    BY <2>1
  <2> QED
    BY <2>2
<1>2. PICK m \in T : \A k \in T : m <= k
  <2>1. T \subseteq Nat
    OBVIOUS
  <2> QED
    BY ONLY <1>1, <2>1, LeastNumber
<1>3. m \in 0 .. L /\ ~Solvable(m)
  OBVIOUS
<1>4. m # 0
  <2>1. [n \in 0 .. 0 |-> a] \in [0 .. 0 -> Nat] /\ Solves([n \in 0 .. 0 |-> a], 0)
    OBVIOUS
  <2> QED
    BY <1>3, <2>1
<1>5. m \in 1 .. L /\ m - 1 \in 0 .. L
  BY <1>3, <1>4
<1>6. Solvable(m - 1)
  <2>1. m - 1 \notin T
    <3> HIDE DEF T
    <3> QED
      BY <1>2, <1>5
  <2> HIDE DEF Solvable
  <2> QED
    BY <1>5, <2>1
<1>7. PICK g \in [0 .. m - 1 -> Nat] : Solves(g, m - 1)
  BY <1>6
<1> DEFINE h == [n \in 0 .. m |-> IF n = m THEN step[m][g[m - 1]] ELSE g[n]]
<1>8. step[m][g[m - 1]] \in Nat
  BY <1>5
<1>9. h \in [0 .. m -> Nat]
  <2> SUFFICES ASSUME NEW n \in 0 .. m PROVE h[n] \in Nat
    OBVIOUS
  <2>1. n = m \/ n \in 0 .. m - 1
    BY <1>5
  <2> QED
    BY <1>7, <1>8, <2>1
<1>10. Solves(h, m)
  <2> SUFFICES ASSUME NEW n \in 0 .. m
               PROVE  h[n] = IF n = 0 THEN a ELSE step[n][h[n - 1]]
    OBVIOUS
  <2>1. CASE n = m
    BY <1>5, <2>1
  <2>2. CASE n \in 0 .. m - 1
    <3>1. n # m /\ n - 1 # m /\ n \in 0 .. m /\ (n # 0 => n - 1 \in 0 .. m)
      BY <1>5, <2>2
    <3>2. h[n] = g[n] /\ (n # 0 => h[n - 1] = g[n - 1])
      BY <3>1
    <3> QED
      BY <1>7, <2>2, <3>2
  <2> QED
    BY <1>5, <2>1, <2>2
<1> QED
  BY <1>3, <1>9, <1>10

-----------------------------------------------------------------------------
(* A digit has a value, and a sequence of digits is a number.              *)
LEMMA DigitsHaveValues ==
  ASSUME NEW c \in Digits
  PROVE  DigitValue(c) \in 0 .. 9
<1>1. \E n \in 0 .. 9 : <<"0", "1", "2", "3", "4", "5", "6", "7", "8", "9">>[n + 1] = c
  BY DEF Digits
<1> QED
  BY <1>1 DEF DigitValue

LEMMA NumbersAreNatural ==
  ASSUME NEW digits \in Seq(Digits)
  PROVE  NumberOf(digits) \in Nat
<1> DEFINE L == Len(digits)
           V(n) == DigitValue(digits[n])
           step == [n \in 1 .. L |-> [v \in Nat |-> 10 * v + V(n)]]
           Def(f) == f = [n \in 0 .. L |-> IF n = 0 THEN 0 ELSE 10 * f[n - 1] + V(n)]
<1>1. L \in Nat
  BY LenProperties
<1>2. \A n \in 1 .. L : V(n) \in Nat
  <2>1. \A n \in 1 .. L : digits[n] \in Digits
    BY ElementOfSeq
  <2> QED
    BY <2>1, DigitsHaveValues
<1> HIDE DEF L, V
<1>3. step \in [1 .. L -> [Nat -> Nat]]
  BY <1>1, <1>2
<1>4. \A n \in 1 .. L, v \in Nat : step[n][v] = 10 * v + V(n)
  OBVIOUS
<1> HIDE DEF step
<1>5. PICK g \in [0 .. L -> Nat] : \A n \in 0 .. L : g[n] = IF n = 0 THEN 0 ELSE step[n][g[n - 1]]
  BY <1>1, <1>3, RecursionHasSolution, ZenonT(60)
<1>6. Def(g)
  <2>1. \A n \in 0 .. L : g[n] = IF n = 0 THEN 0 ELSE 10 * g[n - 1] + V(n)
    <3> SUFFICES ASSUME NEW n \in 0 .. L, n # 0
                 PROVE  g[n] = 10 * g[n - 1] + V(n)
      BY <1>5
    <3>1. n \in 1 .. L /\ g[n - 1] \in Nat
      BY <1>1
    <3> QED
      BY <1>4, <1>5, <3>1
  <2> QED
    BY <2>1
<1> DEFINE value == CHOOSE f : Def(f)
<1>7. Def(value)
  BY <1>6
<1> HIDE DEF value
<1>8. value[L] \in Nat
  <2> DEFINE U == {m \in 0 .. L : value[m] \notin Nat}
  <2>1. SUFFICES ASSUME U # {} PROVE FALSE
    BY <1>1
  <2>2. U \subseteq Nat
    OBVIOUS
  <2>3. PICK m \in U : \A k \in U : m <= k
    BY ONLY <2>1, <2>2, LeastNumber
  <2>4. m # 0
    BY <1>1, <1>7
  <2>5. m \in 1 .. L /\ m - 1 \in 0 .. L /\ value[m - 1] \in Nat
    BY <1>1, <2>3, <2>4
  <2>6. value[m] = 10 * value[m - 1] + V(m)
    BY <1>1, <1>7, <2>5
  <2>7. V(m) \in Nat
    BY <1>2, <2>5
  <2> QED
    BY <2>3, <2>5, <2>6, <2>7
<1> QED
  BY <1>8 DEF NumberOf, value, L, V

-----------------------------------------------------------------------------
(* Escapes.                                                                *)

LEMMA BackslashesFinite ==
  ASSUME NEW s, NEW i \in Nat
  PROVE  IsFiniteSet(Backslashes(s, i)) /\ Cardinality(Backslashes(s, i)) \in Nat
<1>1. Backslashes(s, i) \in SUBSET (1 .. i - 2) /\ IsFiniteSet(1 .. i - 2)
  BY FS_Interval DEF Backslashes
<1> QED
  BY <1>1, FS_Subset, FS_CardinalityType

(* Nothing is escaped at the start of a text.                              *)
LEMMA FirstIsNotEscaped ==
  ASSUME NEW s
  PROVE  ~IsEscaped(s, 2)
<1>1. Backslashes(s, 2) = {}
  BY DEF Backslashes
<1> QED
  BY <1>1, FS_EmptySet DEF IsEscaped

(* One backslash more stands before the next position than before a        *)
(* backslash.                                                              *)
LEMMA OneBackslashMore ==
  ASSUME NEW s, NEW i \in Nat, i >= 2, s[i] = Slash
  PROVE  Cardinality(Backslashes(s, i + 1)) = Cardinality(Backslashes(s, i)) + 1
<1> DEFINE B == Backslashes(s, i)
           C == {k + 1 : k \in B}
           f == [k \in B |-> k + 1]
<1>1. B \subseteq 1 .. i - 2
  BY DEF Backslashes
<1>2. Backslashes(s, i + 1) = C \cup {1}
  <2>1. ASSUME NEW m \in Backslashes(s, i + 1), m # 1 PROVE m - 1 \in B
    <3>1. m \in 2 .. i - 1 /\ \A j \in i + 1 - m .. i : s[j] = Slash
      BY <2>1 DEF Backslashes
    <3>2. m - 1 \in 1 .. i - 2
      BY <3>1
    <3>3. \A j \in i - (m - 1) .. i - 1 : s[j] = Slash
      BY <3>1
    <3> QED
      BY <3>2, <3>3 DEF Backslashes
  <2>2. ASSUME NEW k \in B PROVE k + 1 \in Backslashes(s, i + 1)
    <3>1. k \in 1 .. i - 2 /\ \A j \in i - k .. i - 1 : s[j] = Slash
      BY DEF Backslashes
    <3>2. k + 1 \in 1 .. (i + 1) - 2
      BY <3>1
    <3>3. \A j \in (i + 1) - (k + 1) .. (i + 1) - 1 : s[j] = Slash
      <4> TAKE j \in (i + 1) - (k + 1) .. (i + 1) - 1
      <4>1. j \in i - k .. i - 1 \/ j = i
        BY <3>1
      <4> QED
        BY <3>1, <4>1
    <3> QED
      BY <3>2, <3>3 DEF Backslashes
  <2>3. 1 \in Backslashes(s, i + 1)
    <3>1. \A j \in (i + 1) - 1 .. (i + 1) - 1 : s[j] = Slash
      OBVIOUS
    <3> QED
      BY <3>1 DEF Backslashes
  <2>4. \A m \in Backslashes(s, i + 1) : m \in Int
    BY DEF Backslashes
  <2> HIDE DEF B
  <2>5. \A m \in Backslashes(s, i + 1) : m = 1 \/ (m - 1 \in B /\ m = (m - 1) + 1)
    BY <2>1, <2>4
  <2> QED
    BY <2>2, <2>3, <2>5
<1>3. IsFiniteSet(B)
  BY BackslashesFinite
<1> HIDE DEF B
<1>4. f \in [B -> C] /\ (\A a, b \in B : f[a] = f[b] => a = b) /\ \A t \in C : \E k \in B : f[k] = t
  BY <1>1
<1>5. ExistsBijection(B, C)
  <2> HIDE DEF f
  <2>1. f \in Bijection(B, C)
    BY <1>4, Fun_IsBij
  <2> QED
    BY <2>1 DEF ExistsBijection
<1>6. IsFiniteSet(C) /\ Cardinality(C) = Cardinality(B)
  BY ONLY <1>3, <1>5, FS_Bijection
<1>7. 1 \notin C
  BY <1>1
<1> HIDE DEF C
<1>8. Cardinality(C \cup {1}) = Cardinality(C) + 1
  BY <1>6, <1>7, FS_AddElement
<1> QED
  BY <1>2, <1>6, <1>8 DEF B

(* A position is escaped if the one before it holds a backslash that is    *)
(* not escaped itself.                                                     *)
LEMMA EscapesAlternate ==
  ASSUME NEW s, NEW i \in Nat, i >= 2
  PROVE  IsEscaped(s, i + 1) <=> s[i] = Slash /\ ~IsEscaped(s, i)
<1>1. CASE s[i] = Slash
  <2>1. Cardinality(Backslashes(s, i)) \in Nat
    BY BackslashesFinite
  <2>2. \A n \in Nat : (n + 1) % 2 = 1 <=> ~(n % 2 = 1)
    OBVIOUS
  <2> QED
    BY <1>1, <2>1, <2>2, OneBackslashMore DEF IsEscaped
<1>2. CASE s[i] # Slash
  <2>1. ASSUME NEW k \in Backslashes(s, i + 1) PROVE FALSE
    <3>1. k \in 1 .. i - 1 /\ \A j \in i + 1 - k .. i : s[j] = Slash
      BY DEF Backslashes
    <3>2. i \in i + 1 - k .. i
      BY <3>1
    <3> QED
      BY <1>2, <3>1, <3>2
  <2>2. Backslashes(s, i + 1) = {}
    BY <2>1
  <2> QED
    BY <1>2, <2>2, FS_EmptySet DEF IsEscaped
<1> QED
  BY <1>1, <1>2

-----------------------------------------------------------------------------
(* What a text stands for, one position at a time.                         *)

(* Adding a position behind the others adds its character at the end.      *)
LEMMA SpelledGrows ==
  ASSUME NEW s, NEW K, K \subseteq Nat, IsFiniteSet(K), NEW i \in Nat, \A k \in K : k < i
  PROVE  Spelled(s, K \cup {i}) = Append(Spelled(s, K), CharOf(s, i))
<1> DEFINE n == Cardinality(K)
           L == K \cup {i}
           Upto(M, x) == {j \in M : j <= x}
           S == {CharOf(s, Nth(K, k)) : k \in 1 .. n} \cup {CharOf(s, i)}
<1>1. n \in Nat /\ Cardinality(L) = n + 1
  <2>1. i \notin K
    OBVIOUS
  <2> QED
    BY <2>1, FS_CardinalityType, FS_AddElement
<1>2. \A x \in K : Upto(L, x) = Upto(K, x) /\ Cardinality(Upto(K, x)) <= n
  <2> TAKE x \in K
  <2>1. Upto(L, x) = Upto(K, x)
    OBVIOUS
  <2>2. Upto(K, x) \in SUBSET K
    OBVIOUS
  <2> QED
    BY <2>1, <2>2, FS_Subset
<1>3. Upto(L, i) = L
  <2>1. \A k \in L : k <= i
    OBVIOUS
  <2> QED
    BY <2>1
<1>4. \A k \in 1 .. n : Nth(L, k) = Nth(K, k)
  <2> TAKE k \in 1 .. n
  <2>1. \A x : (x \in L /\ Cardinality(Upto(L, x)) = k) <=> (x \in K /\ Cardinality(Upto(K, x)) = k)
    <3>1. i \notin K /\ Cardinality(Upto(L, i)) # k
      BY <1>1, <1>3
    <3> HIDE DEF Upto
    <3> QED
      BY <1>2, <3>1
  <2> QED
    BY <2>1 DEF Nth
<1>5. Nth(L, n + 1) = i
  <2>1. \A x \in L : Cardinality(Upto(L, x)) = n + 1 <=> x = i
    <3> TAKE x \in L
    <3>1. CASE x \in K
      <4>1. Cardinality(Upto(K, x)) \in Nat
        <5>1. Upto(K, x) \in SUBSET K
          OBVIOUS
        <5> QED
          BY <5>1, FS_Subset, FS_CardinalityType
      <4> QED
        BY <1>1, <1>2, <3>1, <4>1
    <3>2. CASE x = i
      BY <1>1, <1>3, <3>2
    <3> QED
      BY <3>1, <3>2
  <2> QED
    BY <2>1 DEF Nth
<1>6. Spelled(s, K) = [k \in 1 .. n |-> CharOf(s, Nth(K, k))]
  BY DEF Spelled
<1>7. Spelled(s, L) = [k \in 1 .. n + 1 |-> CharOf(s, Nth(L, k))]
  BY <1>1 DEF Spelled
<1> HIDE DEF n, L, Upto
<1>8. Spelled(s, K) \in [1 .. n -> S]
  BY <1>6
<1>9. CharOf(s, i) \in S
  OBVIOUS
<1> HIDE DEF S
<1>10. Spelled(s, K) \in Seq(S) /\ Len(Spelled(s, K)) = n
  BY <1>1, <1>8, SeqDef, LenProperties
<1> DEFINE a == Append(Spelled(s, K), CharOf(s, i))
<1>11. /\ a \in Seq(S) /\ Len(a) = n + 1
       /\ \A k \in 1 .. n : a[k] = Spelled(s, K)[k]
       /\ a[n + 1] = CharOf(s, i)
  BY <1>9, <1>10, AppendProperties
<1>12. a \in [1 .. n + 1 -> S]
  BY <1>11, LenProperties
<1> HIDE DEF a
<1>13. \A k \in 1 .. n + 1 : a[k] = CharOf(s, Nth(L, k))
  <2> TAKE k \in 1 .. n + 1
  <2>1. k \in 1 .. n \/ k = n + 1
    BY <1>1
  <2> QED
    BY <1>4, <1>5, <1>6, <1>11, <2>1
<1>14. a = [k \in 1 .. n + 1 |-> CharOf(s, Nth(L, k))]
  BY <1>12, <1>13
<1> QED
  BY <1>7, <1>14 DEF a, L

(* Every rank is some position's.                                          *)
LEMMA NthIsMember ==
  ASSUME NEW K, K \subseteq Nat, IsFiniteSet(K), NEW k \in 1 .. Cardinality(K)
  PROVE  Nth(K, k) \in K
<1> DEFINE n == Cardinality(K)
           Upto(x) == {j \in K : j <= x}
           rank == [x \in K |-> Cardinality(Upto(x))]
<1>1. n \in Nat /\ IsFiniteSet(1 .. n) /\ Cardinality(1 .. n) = n
  <2>1. n \in Nat
    BY FS_CardinalityType
  <2> QED
    BY <2>1, FS_Interval
<1>2. ASSUME NEW x \in K
      PROVE  IsFiniteSet(Upto(x)) /\ Cardinality(Upto(x)) \in 1 .. n
  <2>1. Upto(x) \in SUBSET K /\ {x} \in SUBSET Upto(x)
    OBVIOUS
  <2>2. IsFiniteSet(Upto(x)) /\ Cardinality(Upto(x)) \in Nat /\ Cardinality(Upto(x)) <= n
    BY <2>1, FS_Subset, FS_CardinalityType
  <2>3. 1 <= Cardinality(Upto(x))
    <3>1. Cardinality({x}) = 1
      BY FS_Singleton
    <3> HIDE DEF Upto
    <3>2. Cardinality({x}) <= Cardinality(Upto(x))
      BY <2>1, <2>2, FS_Subset
    <3> QED
      BY <3>1, <3>2
  <2> QED
    BY <1>1, <2>2, <2>3
<1>3. ASSUME NEW x \in K, NEW y \in K, rank[x] = rank[y], x < y
      PROVE  FALSE
  <2>1. Upto(x) \in SUBSET Upto(y) /\ y \in Upto(y) /\ y \notin Upto(x)
    <3>1. x \in Nat /\ y \in Nat /\ x < y /\ \A j \in K : j \in Nat
      BY <1>3
    <3>2. \A j \in K : j <= x => j <= y
      BY <3>1
    <3>3. y <= y /\ ~(y <= x)
      BY <3>1
    <3> QED
      BY <3>2, <3>3
  <2>2. Cardinality(Upto(x)) = Cardinality(Upto(y))
    BY <1>3
  <2> HIDE DEF Upto
  <2> QED
    BY <1>2, <2>1, <2>2, FS_Subset
<1>4. rank \in [K -> 1 .. n]
  BY <1>2
<1>5. \A x, y \in K : rank[x] = rank[y] => x = y
  <2> SUFFICES ASSUME NEW x \in K, NEW y \in K, rank[x] = rank[y] PROVE x = y
    OBVIOUS
  <2>1. ~(x < y) /\ ~(y < x)
    BY <1>3
  <2>2. x \in Nat /\ y \in Nat
    OBVIOUS
  <2> HIDE DEF rank
  <2> QED
    BY <2>1, <2>2
<1> HIDE DEF rank
<1>6. rank \in Injection(K, 1 .. n)
  BY <1>4, <1>5 DEF Injection, IsInjective
<1>7. rank \in Surjection(K, 1 .. n)
  BY <1>1, <1>6, FS_Injection
<1>8. \E x \in K : rank[x] = k
  BY <1>7 DEF Surjection
<1>9. \E x \in K : Cardinality(Upto(x)) = k
  BY <1>8 DEF rank
<1> QED
  BY <1>9 DEF Nth

LEMMA KeptIsFinite ==
  ASSUME NEW s, NEW n \in Nat
  PROVE  /\ Kept(s, n) \subseteq Nat /\ IsFiniteSet(Kept(s, n))
         /\ Cardinality(Kept(s, n)) \in Nat /\ Len(Spelled(s, Kept(s, n))) = Cardinality(Kept(s, n))
         /\ \A k \in Kept(s, n) : k \in 2 .. n
<1>1. Kept(s, n) \in SUBSET (2 .. n) /\ IsFiniteSet(2 .. n)
  BY FS_Interval DEF Kept
<1>2. IsFiniteSet(Kept(s, n)) /\ Cardinality(Kept(s, n)) \in Nat
  BY <1>1, FS_Subset, FS_CardinalityType
<1>3. Len(Spelled(s, Kept(s, n))) = Cardinality(Kept(s, n))
  BY <1>2 DEF Spelled
<1> QED
  BY <1>1, <1>2, <1>3

(* What is kept of a longer piece is no shorter.                           *)
LEMMA KeptGrows ==
  ASSUME NEW s, NEW m \in Nat, NEW n \in Nat, m <= n
  PROVE  Len(Spelled(s, Kept(s, m))) <= Len(Spelled(s, Kept(s, n)))
<1>1. Kept(s, m) \in SUBSET Kept(s, n)
  BY DEF Kept
<1> QED
  BY <1>1, KeptIsFinite, FS_Subset

(* A character that neither is escaped nor escapes stands for itself, an   *)
(* escaping backslash and its character for one; the position behind them  *)
(* is not escaped.                                                         *)
LEMMA PlainStep ==
  ASSUME NEW s, NEW p \in Nat, p >= 1, ~IsEscaped(s, p + 1), s[p + 1] # Slash
  PROVE  /\ Spelled(s, Kept(s, p + 1)) = Append(Spelled(s, Kept(s, p)), s[p + 1])
         /\ ~IsEscaped(s, p + 2)
<1>1. Kept(s, p + 1) = Kept(s, p) \cup {p + 1}
  BY DEF Kept
<1>2. \A k \in Kept(s, p) : k < p + 1
  BY KeptIsFinite
<1>3. CharOf(s, p + 1) = s[p + 1]
  BY DEF CharOf
<1>4. IsEscaped(s, (p + 1) + 1) <=> s[p + 1] = Slash /\ ~IsEscaped(s, p + 1)
  BY EscapesAlternate
<1>5. (p + 1) + 1 = p + 2
  OBVIOUS
<1>6. Spelled(s, Kept(s, p) \cup {p + 1}) = Append(Spelled(s, Kept(s, p)), CharOf(s, p + 1))
  BY <1>2, KeptIsFinite, SpelledGrows
<1> QED
  BY <1>1, <1>3, <1>4, <1>5, <1>6

LEMMA EscapeStep ==
  ASSUME NEW s, NEW p \in Nat, p >= 1, ~IsEscaped(s, p + 1), s[p + 1] = Slash
  PROVE  /\ Spelled(s, Kept(s, p + 2)) = Append(Spelled(s, Kept(s, p)), Escaped(s[p + 2]))
         /\ ~IsEscaped(s, p + 3) /\ ~Closes(s, p + 1) /\ ~Closes(s, p + 2)
<1>1. (p + 1) + 1 = p + 2 /\ (p + 2) + 1 = p + 3
  OBVIOUS
<1>2. IsEscaped(s, p + 2)
  BY <1>1, EscapesAlternate
<1>3. ~IsEscaped(s, p + 3)
  <2>1. IsEscaped(s, (p + 2) + 1) <=> s[p + 2] = Slash /\ ~IsEscaped(s, p + 2)
    BY EscapesAlternate
  <2> QED
    BY <1>1, <1>2, <2>1
<1>4. Kept(s, p + 2) = Kept(s, p) \cup {p + 2}
  <2>1. \A i : i \in 2 .. p + 2 <=> i \in 2 .. p \/ i = p + 1 \/ i = p + 2
    OBVIOUS
  <2> QED
    BY <1>2, <2>1 DEF Kept
<1>5. \A k \in Kept(s, p) : k < p + 2
  BY KeptIsFinite
<1>6. Spelled(s, Kept(s, p) \cup {p + 2}) = Append(Spelled(s, Kept(s, p)), CharOf(s, p + 2))
  BY <1>5, KeptIsFinite, SpelledGrows
<1> QED
  BY <1>2, <1>3, <1>4, <1>6 DEF CharOf, Closes, Slash, Quote

(* Escapes, and what is kept, do not depend on what follows.               *)
LEMMA PrefixOfSeq ==
  ASSUME NEW S, NEW s \in Seq(S), NEW n \in 0 .. Len(s)
  PROVE  /\ SubSeq(s, 1, n) \in Seq(S) /\ Len(SubSeq(s, 1, n)) = n
         /\ \A i \in 1 .. n : SubSeq(s, 1, n)[i] = s[i]
<1>1. Len(s) \in Nat /\ \A i \in 1 .. n : s[i] \in S
  BY LenProperties, ElementOfSeq
<1> QED
  BY <1>1, SubSeqProperties

LEMMA PrefixIsEscaped ==
  ASSUME NEW S, NEW s \in Seq(S), NEW n \in 1 .. Len(s), NEW i \in Nat, i <= n + 1
  PROVE  IsEscaped(SubSeq(s, 1, n), i) <=> IsEscaped(s, i)
<1> DEFINE t == SubSeq(s, 1, n)
<1>1. n \in Nat /\ \A j \in 1 .. n : t[j] = s[j]
  BY PrefixOfSeq, LenProperties
<1> HIDE DEF t
<1>2. \A k \in 1 .. i - 2 : \A j \in i - k .. i - 1 : t[j] = s[j]
  BY <1>1
<1>3. Backslashes(t, i) = Backslashes(s, i)
  BY <1>2 DEF Backslashes
<1> QED
  BY <1>3 DEF IsEscaped, t

LEMMA PrefixTextOf ==
  ASSUME NEW S, NEW s \in Seq(S), NEW n \in 1 .. Len(s)
  PROVE  TextOf(SubSeq(s, 1, n)) = Spelled(s, Kept(s, n - 1))
<1> DEFINE t == SubSeq(s, 1, n)
           K == Kept(s, n - 1)
<1>1. n \in Nat /\ Len(t) = n /\ \A j \in 1 .. n : t[j] = s[j]
  BY PrefixOfSeq, LenProperties
<1>2. \A i \in 2 .. n : IsEscaped(t, i) <=> IsEscaped(s, i)
  BY <1>1, PrefixIsEscaped
<1> HIDE DEF t
<1>3. Kept(t, n - 1) = K
  BY <1>1, <1>2 DEF Kept
<1>4. \A i \in 2 .. n : CharOf(t, i) = CharOf(s, i)
  BY <1>1, <1>2 DEF CharOf
<1>5. K \subseteq 2 .. n /\ K \subseteq Nat /\ IsFiniteSet(K)
  BY <1>1, KeptIsFinite
<1> HIDE DEF K
<1>6. \A k \in 1 .. Cardinality(K) : CharOf(t, Nth(K, k)) = CharOf(s, Nth(K, k))
  BY <1>4, <1>5, NthIsMember
<1>7. Spelled(t, K) = Spelled(s, K)
  BY <1>6 DEF Spelled
<1> QED
  BY <1>1, <1>3, <1>7 DEF TextOf, K, t

-----------------------------------------------------------------------------
(* Lexemes.                                                                *)

(* What a text is and whether a piece of one is, seen from the sequence it *)
(* is the beginning of.                                                    *)
TextAt(s, n) ==
  n >= 2 /\ s[1] = Quote /\ Closes(s, n) /\ \A i \in 2 .. n - 1 : ~Closes(s, i)

LEMMA PrefixIsText ==
  ASSUME NEW S, NEW s \in Seq(S), NEW n \in 1 .. Len(s)
  PROVE  IsText(SubSeq(s, 1, n)) <=> TextAt(s, n)
<1> DEFINE t == SubSeq(s, 1, n)
<1>1. n \in Nat /\ n >= 1 /\ Len(t) = n /\ \A j \in 1 .. n : t[j] = s[j]
  BY PrefixOfSeq, LenProperties
<1>2. \A i \in 1 .. n : IsEscaped(t, i) <=> IsEscaped(s, i)
  BY <1>1, PrefixIsEscaped
<1> HIDE DEF t
<1>3. \A i \in 1 .. n : Closes(t, i) <=> Closes(s, i)
  BY <1>1, <1>2 DEF Closes
<1>4. IsText(t) <=> TextAt(s, n)
  BY <1>1, <1>3 DEF IsText, TextAt
<1> QED
  BY <1>4 DEF t

(* The texts that have a reading.                                          *)
LEMMA HasReading ==
  ASSUME NEW t
  PROVE  Readings(t) # {} <=>
           \/ \E c \in DOMAIN Alone : t = <<c>>
           \/ \E c \in DOMAIN Plain : t = <<c>> \/ t = <<c, "=">>
           \/ \E c \in DOMAIN Twice : t = <<c, c>>
           \/ IsWord(t) \/ IsText(t) \/ IsNumber(t)
           \/ Len(t) = 1 /\ t[1] \in {Slash, "?"}
<1> DEFINE ops == {p \in Operators : p[1] = t}
<1>1. ops # {} <=> \/ \E c \in DOMAIN Alone : t = <<c>>
                   \/ \E c \in DOMAIN Plain : t = <<c>> \/ t = <<c, "=">>
                   \/ \E c \in DOMAIN Twice : t = <<c, c>>
  <2>1. DOMAIN WithEquals = DOMAIN Plain
    BY DEF WithEquals
  <2>2. \A p \in Operators : \/ \E c \in DOMAIN Alone : p = <<<<c>>, Alone[c]>>
                             \/ \E c \in DOMAIN Plain : p = <<<<c>>, Plain[c]>>
                             \/ \E c \in DOMAIN Plain : p = <<<<c, "=">>, WithEquals[c]>>
                             \/ \E c \in DOMAIN Twice : p = <<<<c, c>>, Twice[c]>>
    BY <2>1, Zenon DEF Operators
  <2>3. /\ \A c \in DOMAIN Alone : <<<<c>>, Alone[c]>> \in Operators
        /\ \A c \in DOMAIN Plain : <<<<c>>, Plain[c]>> \in Operators
        /\ \A c \in DOMAIN Plain : <<<<c, "=">>, WithEquals[c]>> \in Operators
        /\ \A c \in DOMAIN Twice : <<<<c, c>>, Twice[c]>> \in Operators
    BY <2>1, Zenon DEF Operators
  <2>4. \A p \in Operators : p[1] = t =>
               \/ \E c \in DOMAIN Alone : t = <<c>>
               \/ \E c \in DOMAIN Plain : t = <<c>> \/ t = <<c, "=">>
               \/ \E c \in DOMAIN Twice : t = <<c, c>>
    <3> TAKE p \in Operators
    <3>1. CASE \E c \in DOMAIN Alone : p = <<<<c>>, Alone[c]>>
      BY <3>1
    <3>2. CASE \E c \in DOMAIN Plain : p = <<<<c>>, Plain[c]>>
      BY <3>2
    <3>3. CASE \E c \in DOMAIN Plain : p = <<<<c, "=">>, WithEquals[c]>>
      BY <3>3
    <3>4. CASE \E c \in DOMAIN Twice : p = <<<<c, c>>, Twice[c]>>
      BY <3>4
    <3> QED
      BY <2>2, <3>1, <3>2, <3>3, <3>4
  <2>5. \A u, v : <<u, v>> \in Operators /\ u = t => ops # {}
    OBVIOUS
  <2>6. (\E p \in ops : TRUE) <=> ops # {}
    OBVIOUS
  <2>7. \A p \in ops : p \in Operators /\ p[1] = t
    OBVIOUS
  <2> HIDE DEF ops
  <2> QED
    BY <2>3, <2>4, <2>5, <2>6, <2>7
<1>2. {Token(o[2]) : o \in ops} # {} <=> ops # {}
  OBVIOUS
<1> HIDE DEF ops
<1>3. Readings(t) # {} <=> \/ {Token(o[2]) : o \in ops} # {} \/ IsWord(t) \/ IsText(t) \/ IsNumber(t)
                           \/ Len(t) = 1 /\ t[1] \in {Slash, "?"}
  BY Zenon DEF Readings, ops
<1> QED
  BY <1>1, <1>2, <1>3

LEMMA ReadingOfOperator ==
  /\ \A c \in DOMAIN Alone : Token(Alone[c]) \in Readings(<<c>>)
  /\ \A c \in DOMAIN Plain : Token(Plain[c]) \in Readings(<<c>>)
  /\ \A c \in DOMAIN Plain : Token(WithEquals[c]) \in Readings(<<c, "=">>)
  /\ \A c \in DOMAIN Twice : Token(Twice[c]) \in Readings(<<c, c>>)
<1>1. DOMAIN WithEquals = DOMAIN Plain
  BY DEF WithEquals
<1>2. ASSUME NEW t, NEW v, <<t, v>> \in Operators
      PROVE  Token(v) \in Readings(t)
  <2>1. <<t, v>> \in {p \in Operators : p[1] = t} /\ <<t, v>>[2] = v
    BY <1>2
  <2>2. Token(v) \in {Token(o[2]) : o \in {p \in Operators : p[1] = t}}
    BY <2>1
  <2> QED
    BY <2>2, Zenon DEF Readings
<1>3. /\ \A c \in DOMAIN Alone : <<<<c>>, Alone[c]>> \in Operators
      /\ \A c \in DOMAIN Plain : <<<<c>>, Plain[c]>> \in Operators
      /\ \A c \in DOMAIN Plain : <<<<c, "=">>, WithEquals[c]>> \in Operators
      /\ \A c \in DOMAIN Twice : <<<<c, c>>, Twice[c]>> \in Operators
  BY <1>1, Zenon DEF Operators
<1> QED
  BY <1>2, <1>3

LEMMA ReadingOfOthers ==
  ASSUME NEW t
  PROVE  /\ IsWord(t)   => WordToken(t) \in Readings(t)
         /\ IsText(t)   => StringToken(TextOf(t)) \in Readings(t)
         /\ IsNumber(t) => IntToken(NumberOf(t)) \in Readings(t)
         /\ Len(t) = 1 /\ t[1] \in {Slash, "?"} => Token("TOK_UNKNOWN") \in Readings(t)
BY Zenon DEF Readings

(* The first character tells what a lexeme is.                             *)
LexemeAt(s, n) ==
  \/ n = 1 /\ s[1] \in DOMAIN Alone \cup DOMAIN Plain \cup {Slash, "?"}
  \/ n = 2 /\ s[1] \in DOMAIN Plain /\ s[2] = "="
  \/ n = 2 /\ s[1] \in DOMAIN Twice /\ s[2] = s[1]
  \/ \A i \in 1 .. n : s[i] \in Alphas
  \/ n <= INT_DIGITS /\ \A i \in 1 .. n : s[i] \in Digits
  \/ TextAt(s, n)

LEMMA OneOrTwo ==
  ASSUME NEW S, NEW t \in Seq(S)
  PROVE  /\ \A c : t = <<c>> <=> Len(t) = 1 /\ t[1] = c
         /\ \A c, d : t = <<c, d>> <=> Len(t) = 2 /\ t[1] = c /\ t[2] = d
<1>1. t \in [1 .. Len(t) -> S]
  BY LenProperties
<1>2. Len(t) = 1 => t = <<t[1]>>
  BY <1>1
<1>3. Len(t) = 2 => t = <<t[1], t[2]>>
  BY <1>1
<1> QED
  BY <1>2, <1>3

LEMMA LexemesAre ==
  ASSUME NEW S, NEW s \in Seq(S), NEW n \in 1 .. Len(s)
  PROVE  n \in Lexemes(s) <=> LexemeAt(s, n)
<1> DEFINE t == SubSeq(s, 1, n)
<1>1. n \in Nat /\ n >= 1 /\ Len(t) = n /\ t \in Seq(S) /\ \A j \in 1 .. n : t[j] = s[j]
  BY PrefixOfSeq, LenProperties
<1>2. n \in Lexemes(s) <=> Readings(t) # {}
  BY DEF Lexemes
<1>3. IsText(t) <=> TextAt(s, n)
  BY PrefixIsText
<1> HIDE DEF t
<1>4. IsWord(t) <=> \A i \in 1 .. n : s[i] \in Alphas
  BY <1>1 DEF IsWord
<1>5. IsNumber(t) <=> n <= INT_DIGITS /\ \A i \in 1 .. n : s[i] \in Digits
  BY <1>1 DEF IsNumber
<1>6. /\ \A c : t = <<c>> <=> n = 1 /\ s[1] = c
      /\ \A c, d : t = <<c, d>> <=> n = 2 /\ s[1] = c /\ s[2] = d
  BY <1>1, OneOrTwo
<1>7. Len(t) = 1 /\ t[1] \in {Slash, "?"} <=> n = 1 /\ s[1] \in {Slash, "?"}
  BY <1>1
<1>8. Readings(t) # {} <=>
        \/ \E c \in DOMAIN Alone : n = 1 /\ s[1] = c
        \/ \E c \in DOMAIN Plain : (n = 1 /\ s[1] = c) \/ (n = 2 /\ s[1] = c /\ s[2] = "=")
        \/ \E c \in DOMAIN Twice : n = 2 /\ s[1] = c /\ s[2] = c
        \/ IsWord(t) \/ IsText(t) \/ IsNumber(t)
        \/ n = 1 /\ s[1] \in {Slash, "?"}
  BY <1>6, <1>7, HasReading, SMTT(60)
<1> QED
  BY <1>2, <1>3, <1>4, <1>5, <1>8 DEF LexemeAt

(* A lexeme that is too long is a word or a text.                          *)
LEMMA PrefixTooLong ==
  ASSUME NEW S, NEW s \in Seq(S), NEW n \in 1 .. Len(s)
  PROVE  TooLong(SubSeq(s, 1, n)) <=>
           \/ n > IDENT_MAX /\ \A i \in 1 .. n : s[i] \in Alphas
           \/ TextAt(s, n) /\ Len(Spelled(s, Kept(s, n - 1))) > ALLOC_MAX
<1> DEFINE t == SubSeq(s, 1, n)
<1>1. n \in Nat /\ n >= 1 /\ Len(t) = n /\ \A j \in 1 .. n : t[j] = s[j]
  BY PrefixOfSeq, LenProperties
<1>2. (IsText(t) <=> TextAt(s, n)) /\ TextOf(t) = Spelled(s, Kept(s, n - 1))
  BY PrefixIsText, PrefixTextOf
<1> HIDE DEF t
<1>3. IsWord(t) <=> \A i \in 1 .. n : s[i] \in Alphas
  BY <1>1 DEF IsWord
<1>4. TooLong(t) <=> \/ n > IDENT_MAX /\ \A i \in 1 .. n : s[i] \in Alphas
                     \/ TextAt(s, n) /\ Len(Spelled(s, Kept(s, n - 1))) > ALLOC_MAX
  BY <1>1, <1>2, <1>3 DEF TooLong
<1> QED
  BY <1>4 DEF t

(* No character begins lexemes of two kinds.                               *)
LEMMA KindsDiffer ==
  /\ \A c \in DOMAIN Alone : c \notin DOMAIN Plain /\ c \notin DOMAIN Twice /\ c \notin {Quote, Slash, "?"}
  /\ \A c \in DOMAIN Plain : c \notin DOMAIN Twice /\ c \notin {Quote, Slash, "?"}
  /\ \A c \in DOMAIN Twice : c \notin {Quote, Slash, "?"}
  /\ \A c \in Digits : c \notin DOMAIN Alone /\ c \notin DOMAIN Plain /\ c \notin DOMAIN Twice
                         /\ c \notin {Quote, Slash, "?"}
  /\ \A c \in Alphas : /\ c \notin DOMAIN Alone /\ c \notin DOMAIN Plain /\ c \notin DOMAIN Twice
                       /\ c \notin {Quote, Slash, "?"} /\ c \notin Digits
  /\ \A c \in Space : /\ c \notin DOMAIN Alone /\ c \notin DOMAIN Plain /\ c \notin DOMAIN Twice
                      /\ c \notin {Quote, Slash, "?"} /\ c \notin Digits /\ c \notin Alphas
  /\ Quote \notin {Slash, "?"}
<1>1. \A c \in DOMAIN Alone : c \notin DOMAIN Plain /\ c \notin DOMAIN Twice /\ c \notin {Quote, Slash, "?"}
  BY DEF Alone, Plain, Twice, Quote, Slash
<1>2. \A c \in DOMAIN Plain : c \notin DOMAIN Twice /\ c \notin {Quote, Slash, "?"}
  BY DEF Plain, Twice, Quote, Slash
<1>3. \A c \in DOMAIN Twice : c \notin {Quote, Slash, "?"}
  BY DEF Twice, Quote, Slash
<1>4. \A c \in Digits : c \notin DOMAIN Alone /\ c \notin DOMAIN Plain /\ c \notin DOMAIN Twice
                          /\ c \notin {Quote, Slash, "?"}
  BY DEF Alone, Plain, Twice, Quote, Slash, Digits
<1>5. \A c \in Alphas : c \notin DOMAIN Alone /\ c \notin DOMAIN Plain /\ c \notin DOMAIN Twice
  <2>1. \A c \in DOMAIN Alone : c \notin Alphas
    <3>1. \A c \in DOMAIN Alone : c \in {"(", ")", ";", ":", "{", "}", "[", "]", ",", "%"}
      BY DEF Alone
    <3>2. /\ "(" \notin Alphas /\ ")" \notin Alphas /\ ";" \notin Alphas /\ ":" \notin Alphas
          /\ "{" \notin Alphas /\ "}" \notin Alphas /\ "[" \notin Alphas /\ "]" \notin Alphas
          /\ "," \notin Alphas /\ "%" \notin Alphas
      BY ZenonT(60) DEF Alphas
    <3> QED
      BY <3>1, <3>2
  <2>2. \A c \in DOMAIN Plain : c \notin Alphas
    <3>1. \A c \in DOMAIN Plain : c \in {"+", "-", "*", "/", "=", "!", "<", ">"}
      BY DEF Plain
    <3>2. /\ "+" \notin Alphas /\ "-" \notin Alphas /\ "*" \notin Alphas /\ "/" \notin Alphas
          /\ "=" \notin Alphas /\ "!" \notin Alphas /\ "<" \notin Alphas /\ ">" \notin Alphas
      BY ZenonT(60) DEF Alphas
    <3> QED
      BY <3>1, <3>2
  <2>3. \A c \in DOMAIN Twice : c \notin Alphas
    BY ZenonT(60) DEF Twice, Alphas
  <2> QED
    BY <2>1, <2>2, <2>3
<1>6. \A c \in Alphas : c \notin {Quote, Slash, "?"} /\ c \notin Digits
  <2>1. Quote \notin Alphas /\ Slash \notin Alphas /\ "?" \notin Alphas
    BY DEF Quote, Slash, Alphas
  <2>2. \A c \in Digits : c \notin Alphas
    <3>1. \A c \in Digits : c \in {"0", "1", "2", "3", "4", "5", "6", "7", "8", "9"}
      BY DEF Digits
    <3>2. /\ "0" \notin Alphas /\ "1" \notin Alphas /\ "2" \notin Alphas /\ "3" \notin Alphas
          /\ "4" \notin Alphas /\ "5" \notin Alphas /\ "6" \notin Alphas /\ "7" \notin Alphas
          /\ "8" \notin Alphas /\ "9" \notin Alphas
      BY ZenonT(60) DEF Alphas
    <3> QED
      BY <3>1, <3>2
  <2> QED
    BY <2>1, <2>2
<1>7. \A c \in Space : /\ c \notin DOMAIN Alone /\ c \notin DOMAIN Plain /\ c \notin DOMAIN Twice
                       /\ c \notin {Quote, Slash, "?"} /\ c \notin Digits
  BY DEF Alone, Plain, Twice, Quote, Slash, Digits, Space
<1>8. \A c \in Space : c \notin Alphas
  BY ZenonT(60) DEF Space, Alphas
<1>9. Quote \notin {Slash, "?"}
  BY DEF Quote, Slash
<1> QED
  BY <1>1, <1>2, <1>3, <1>4, <1>5, <1>6, <1>7, <1>8, <1>9

(* The lexemes a sequence begins with, by its first character.             *)
LEMMA LexemesOfOperator ==
  ASSUME NEW S, NEW s \in Seq(S), NEW n \in 1 .. Len(s)
  PROVE  /\ s[1] \in DOMAIN Alone \cup {Slash, "?"} => (n \in Lexemes(s) <=> n = 1)
         /\ s[1] \in DOMAIN Plain => (n \in Lexemes(s) <=> n = 1 \/ (n = 2 /\ s[2] = "="))
         /\ s[1] \in DOMAIN Twice => (n \in Lexemes(s) <=> n = 2 /\ s[2] = s[1])
         /\ s[1] \in DOMAIN Alone \cup DOMAIN Plain \cup DOMAIN Twice \cup {Slash, "?"}
              => ~TooLong(SubSeq(s, 1, n))
<1>1. n \in Nat /\ n >= 1 /\ 1 \in 1 .. n
  BY LenProperties
<1>2. s[1] \in DOMAIN Alone \cup DOMAIN Plain \cup DOMAIN Twice \cup {Slash, "?"}
        => /\ ~ \A i \in 1 .. n : s[i] \in Alphas
           /\ ~ \A i \in 1 .. n : s[i] \in Digits
           /\ ~TextAt(s, n)
  BY <1>1, KindsDiffer DEF TextAt
<1>3. n \in Lexemes(s) <=> LexemeAt(s, n)
  BY LexemesAre
<1>4. s[1] \in DOMAIN Alone \cup {Slash, "?"} => (LexemeAt(s, n) <=> n = 1)
  BY <1>2, KindsDiffer DEF LexemeAt
<1>5. s[1] \in DOMAIN Plain => (LexemeAt(s, n) <=> n = 1 \/ (n = 2 /\ s[2] = "="))
  BY <1>2, KindsDiffer DEF LexemeAt
<1>6. s[1] \in DOMAIN Twice => (LexemeAt(s, n) <=> n = 2 /\ s[2] = s[1])
  BY <1>2, KindsDiffer DEF LexemeAt
<1> QED
  BY <1>2, <1>3, <1>4, <1>5, <1>6, PrefixTooLong

LEMMA LexemesOfLiteral ==
  ASSUME NEW S, NEW s \in Seq(S), NEW n \in 1 .. Len(s)
  PROVE  /\ s[1] \in Digits =>
              /\ n \in Lexemes(s) <=> n <= INT_DIGITS /\ \A i \in 1 .. n : s[i] \in Digits
              /\ ~TooLong(SubSeq(s, 1, n))
         /\ s[1] \in Alphas =>
              /\ n \in Lexemes(s) <=> \A i \in 1 .. n : s[i] \in Alphas
              /\ n \in Lexemes(s) => (TooLong(SubSeq(s, 1, n)) <=> n > IDENT_MAX)
         /\ s[1] = Quote =>
              /\ n \in Lexemes(s) <=> TextAt(s, n)
              /\ n \in Lexemes(s) =>
                   (TooLong(SubSeq(s, 1, n)) <=> Len(Spelled(s, Kept(s, n - 1))) > ALLOC_MAX)
<1>1. n \in Nat /\ n >= 1 /\ 1 \in 1 .. n
  BY LenProperties
<1>2. n \in Lexemes(s) <=> LexemeAt(s, n)
  BY LexemesAre
<1>3. CASE s[1] \in Digits
  <2>1. s[1] \notin Alphas /\ s[1] # Quote
    BY <1>3, KindsDiffer
  <2>2. ~TextAt(s, n) /\ ~ \A i \in 1 .. n : s[i] \in Alphas
    BY <1>1, <2>1 DEF TextAt
  <2>3. LexemeAt(s, n) <=> n <= INT_DIGITS /\ \A i \in 1 .. n : s[i] \in Digits
    BY <1>3, <2>2, KindsDiffer DEF LexemeAt
  <2> QED
    BY <1>2, <1>3, <2>1, <2>2, <2>3, PrefixTooLong
<1>4. CASE s[1] \in Alphas
  <2>1. s[1] \notin Digits /\ s[1] # Quote
    BY <1>4, KindsDiffer
  <2>2. ~TextAt(s, n) /\ ~ \A i \in 1 .. n : s[i] \in Digits
    BY <1>1, <2>1 DEF TextAt
  <2>3. LexemeAt(s, n) <=> \A i \in 1 .. n : s[i] \in Alphas
    BY <1>4, <2>2, KindsDiffer DEF LexemeAt
  <2> QED
    BY <1>2, <1>4, <2>1, <2>2, <2>3, PrefixTooLong
<1>5. CASE s[1] = Quote
  <2>1. s[1] \notin Digits /\ s[1] \notin Alphas
    BY <1>5, KindsDiffer
  <2>2. (~ \A i \in 1 .. n : s[i] \in Alphas) /\ ~ \A i \in 1 .. n : s[i] \in Digits
    BY <1>1, <2>1
  <2>3. LexemeAt(s, n) <=> TextAt(s, n)
    BY <1>5, <2>2, KindsDiffer DEF LexemeAt
  <2> QED
    BY <1>2, <1>5, <2>1, <2>2, <2>3, PrefixTooLong
<1> QED
  BY <1>3, <1>4, <1>5
=============================================================================
