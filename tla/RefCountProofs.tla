---------------------------- MODULE RefCountProofs ----------------------------
(***************************************************************************)
(* Theorems about the reference counts of strings, for every bytecode.     *)
(***************************************************************************)
EXTENDS RefCounts, VMProofs, FiniteSetTheorems

(* Where string s stands among some values.                                *)
Places(s, vals) == {i \in DOMAIN vals : IsString(vals[i]) /\ vals[i].val = s}

(* 1 if value v is string s.                                               *)
Once(s, v) == IF IsString(v) /\ v.val = s THEN 1 ELSE 0

-----------------------------------------------------------------------------
(* The invariant while the counting of an instruction is under way.        *)

LastJob == todo[Len(todo)]

(* What the job at the head has still to count down of string s.           *)
Dropping(s) == IF todo # <<>> /\ Act = "drop" THEN Times(s, Head(todo).vals) ELSE 0

(* What the value just pushed has still to be counted up.                  *)
Owed(s) ==
  IF todo # <<>> /\ LastJob.act = "take" /\ Len(LastJob.vals) = 1
  THEN Once(s, LastJob.vals[1]) ELSE 0

(* No string is counted below 1 but freed then.                            *)
LiveCounted == \A s \in DOMAIN strs : strs[s].freed \/ strs[s].ref_count >= 1

(* Pushes are counted after pops; a second round of counting down is the   *)
(* one of a concatenation, and what is still to be counted up while        *)
(* something is counted down is the top of the stack.                      *)
TakesComeLast ==
  \A i, j \in DOMAIN todo : i < j /\ todo[i].act = "take" => todo[j].act = "take"

DropsAreLoose ==
  todo # <<>> /\ Act = "drop" =>
    \A j \in 2 .. Len(todo) :
      todo[j].act = "drop" => StringsAmong(Range(todo[j].vals)) \cap HeldStrings = {}

LastIsPushed ==
  todo # <<>> /\ Act = "drop" /\ LastJob.act = "take" =>
    stack # <<>> /\ LastJob.vals = <<stack[Len(stack)]>>

Balanced(s) ==
  ~strs[s].freed /\ strs[s].ref_count + Owed(s) >= 1 + Times(s, stack) + Dropping(s)

(* StringsAreCounted is inductive with the counting that is still due.     *)
CountInv ==
  status \in {"running", "halted"} =>
    /\ LiveCounted /\ TakesComeLast /\ DropsAreLoose /\ LastIsPushed
    /\ \A s \in HeldStrings : Balanced(s)

-----------------------------------------------------------------------------
(* Counting occurrences.                                                   *)

LEMMA TimesFinite ==
  ASSUME NEW S, NEW vals \in Seq(S), NEW s
  PROVE  /\ IsFiniteSet(Places(s, vals)) /\ Times(s, vals) \in Nat
         /\ Times(s, vals) = Cardinality(Places(s, vals))
<1>1. IsFiniteSet(1 .. Len(vals)) /\ Places(s, vals) \in SUBSET (1 .. Len(vals))
  <2>1. Len(vals) \in Int /\ DOMAIN vals = 1 .. Len(vals)
    BY LenProperties
  <2>2. IsFiniteSet(1 .. Len(vals))
    BY <2>1, FS_Interval
  <2> QED
    BY <2>1, <2>2 DEF Places
<1>2. IsFiniteSet(Places(s, vals))
  BY <1>1, FS_Subset
<1>3. Times(s, vals) = Cardinality(Places(s, vals))
  BY DEF Times, Places
<1> QED
  BY <1>2, <1>3, FS_CardinalityType

(* A set of places that is another one moved, or turned round, is as large.*)
LEMMA MovedPlaces ==
  ASSUME NEW S \in SUBSET Int, IsFiniteSet(S), NEW d \in Int
  PROVE  /\ IsFiniteSet({d + i : i \in S}) /\ Cardinality({d + i : i \in S}) = Cardinality(S)
         /\ IsFiniteSet({d - i : i \in S}) /\ Cardinality({d - i : i \in S}) = Cardinality(S)
<1> DEFINE T == {d + i : i \in S}
           U == {d - i : i \in S}
           f == [i \in S |-> d + i]
           g == [i \in S |-> d - i]
<1>1. f \in Injection(S, T) /\ g \in Injection(S, U)
  BY DEF Injection, IsInjective
<1>2. f \in Surjection(S, T) /\ g \in Surjection(S, U)
  BY DEF Surjection
<1>3. ExistsBijection(S, T) /\ ExistsBijection(S, U)
  BY <1>1, <1>2 DEF ExistsBijection, Bijection
<1> HIDE DEF T, U
<1>4. IsFiniteSet(T) /\ Cardinality(T) = Cardinality(S)
  BY <1>3, FS_Bijection
<1>5. IsFiniteSet(U) /\ Cardinality(U) = Cardinality(S)
  BY <1>3, FS_Bijection
<1> QED
  BY <1>4, <1>5 DEF T, U

(* Two sets of places without a common one.                                *)
LEMMA PlacesAdd ==
  ASSUME NEW A, NEW B, IsFiniteSet(A), IsFiniteSet(B), A \cap B = {}
  PROVE  Cardinality(A \cup B) = Cardinality(A) + Cardinality(B)
<1>1. Cardinality(A \cap B) = 0
  BY FS_EmptySet
<1>2. Cardinality(A) \in Nat /\ Cardinality(B) \in Nat
  BY FS_CardinalityType
<1>3. Cardinality(A \cup B) = Cardinality(A) + Cardinality(B) - Cardinality(A \cap B)
  BY FS_Union
<1> QED
  BY <1>1, <1>2, <1>3

(* Occurrences in a sequence are those in its two halves.                  *)
LEMMA TimesConcat ==
  ASSUME NEW S, NEW p \in Seq(S), NEW q \in Seq(S), NEW s
  PROVE  Times(s, p \o q) = Times(s, p) + Times(s, q)
<1> DEFINE m == Len(p)
           B == {m + i : i \in Places(s, q)}
<1>1. /\ m \in Nat /\ Len(q) \in Nat /\ DOMAIN p = 1 .. m /\ DOMAIN q = 1 .. Len(q)
      /\ p \o q \in Seq(S) /\ DOMAIN (p \o q) = 1 .. m + Len(q)
      /\ \A i \in 1 .. m : (p \o q)[i] = p[i]
      /\ \A i \in 1 .. Len(q) : (p \o q)[m + i] = q[i]
  BY LenProperties, ConcatProperties
<1>2. Places(s, p \o q) = Places(s, p) \cup B
  <2>1. ASSUME NEW i \in Places(s, p \o q) PROVE i \in Places(s, p) \cup B
    <3>1. CASE i <= m
      BY <1>1, <2>1, <3>1 DEF Places
    <3>2. CASE i > m
      <4>1. i - m \in Places(s, q) /\ i = m + (i - m)
        BY <1>1, <2>1, <3>2 DEF Places
      <4> QED
        BY <4>1
    <3> QED
      BY <1>1, <2>1, <3>1, <3>2 DEF Places
  <2>2. ASSUME NEW i \in Places(s, p) \cup B PROVE i \in Places(s, p \o q)
    BY <1>1, <2>2 DEF Places
  <2> QED
    BY <2>1, <2>2
<1>3. Places(s, p) \cap B = {}
  BY <1>1 DEF Places
<1>4. IsFiniteSet(B) /\ Cardinality(B) = Cardinality(Places(s, q))
  <2>1. Places(s, q) \in SUBSET Int /\ IsFiniteSet(Places(s, q))
    <3>1. IsFiniteSet(Places(s, q))
      BY TimesFinite
    <3> QED
      BY <1>1, <3>1 DEF Places
  <2>2. m \in Int
    BY <1>1
  <2> HIDE DEF m
  <2> QED
    BY <2>1, <2>2, MovedPlaces
<1> HIDE DEF B
<1>5. Cardinality(Places(s, p) \cup B) = Cardinality(Places(s, p)) + Cardinality(B)
  BY <1>3, <1>4, TimesFinite, PlacesAdd
<1>6. Times(s, p \o q) = Cardinality(Places(s, p \o q))
  BY <1>1, TimesFinite
<1> QED
  BY <1>2, <1>4, <1>5, <1>6, TimesFinite

(* Occurrences in a sequence of one.                                       *)
LEMMA TimesOne ==
  ASSUME NEW v, NEW s
  PROVE  Times(s, <<v>>) = Once(s, v)
<1>1. CASE IsString(v) /\ v.val = s
  <2>1. Places(s, <<v>>) = {1}
    BY <1>1 DEF Places
  <2> QED
    BY <1>1, <2>1, FS_Singleton DEF Once, Times, Places
<1>2. CASE ~(IsString(v) /\ v.val = s)
  <2>1. Places(s, <<v>>) = {}
    BY <1>2 DEF Places
  <2> QED
    BY <1>2, <2>1, FS_EmptySet DEF Once, Times, Places
<1> QED
  BY <1>1, <1>2

(* Occurrences in a queue are that at its head and those behind it.        *)
LEMMA TimesTail ==
  ASSUME NEW S, NEW vals \in Seq(S), vals # <<>>, NEW s
  PROVE  Times(s, vals) = Once(s, Head(vals)) + Times(s, Tail(vals))
<1>1. vals = <<Head(vals)>> \o Tail(vals) /\ <<Head(vals)>> \in Seq(S) /\ Tail(vals) \in Seq(S)
  BY HeadTailProperties
<1> QED
  BY <1>1, TimesConcat, TimesOne

(* A string that is not among the values does not occur.                   *)
LEMMA TimesNone ==
  ASSUME NEW vals, NEW s, s \notin StringsAmong(Range(vals))
  PROVE  Times(s, vals) = 0
<1>1. Places(s, vals) = {}
  BY DEF Places, StringsAmong, Range
<1> QED
  BY <1>1, FS_EmptySet DEF Times, Places

(* What is on the stack is popped or stays.                                *)
LEMMA TimesPopped ==
  ASSUME NEW S, stack \in Seq(S), Arity \in Nat, Arity <= Len(stack), NEW s
  PROVE  Times(s, stack) = Times(s, Rest) + Times(s, AllPopped)
<1> DEFINE n == Len(stack)
           k == Arity
           d == n + 1
           B == {d - i : i \in Places(s, AllPopped)}
<1>1. /\ n \in Nat /\ DOMAIN stack = 1 .. n /\ k \in Nat /\ k <= n
      /\ \A i \in 1 .. n : stack[i] \in S
  BY LenProperties, ElementOfSeq
<1>2. /\ Rest \in Seq(S) /\ DOMAIN Rest = 1 .. n - k /\ \A i \in 1 .. n - k : Rest[i] = stack[i]
  <2>1. Rest \in Seq(S) /\ Len(Rest) = n - k /\ \A i \in 1 .. n - k : Rest[i] = stack[i]
    <3>1. \A i \in 1 .. n - k : stack[i] \in S
      BY <1>1
    <3>2. n - k \in Int /\ 1 \in Int
      BY <1>1
    <3>3. Rest = SubSeq(stack, 1, n - k)
      BY DEF Rest
    <3>4. /\ Rest \in Seq(S) /\ Len(Rest) = IF 1 <= n - k THEN n - k - 1 + 1 ELSE 0
          /\ \A i \in 1 .. n - k - 1 + 1 : Rest[i] = stack[1 + i - 1]
      BY <3>1, <3>2, <3>3, SubSeqProperties
    <3> DEFINE r == n - k
    <3>5. r \in Nat /\ r - 1 + 1 = r /\ \A i \in 1 .. r : 1 + i - 1 = i
      BY <1>1
    <3>6. Len(Rest) = IF 1 <= r THEN r - 1 + 1 ELSE 0
      BY <3>4
    <3>7. \A i \in 1 .. r - 1 + 1 : Rest[i] = stack[1 + i - 1]
      BY <3>4
    <3> HIDE DEF r
    <3>8. Len(Rest) = r /\ \A i \in 1 .. r : Rest[i] = stack[i]
      BY <3>5, <3>6, <3>7
    <3> QED
      BY <3>4, <3>8 DEF r
  <2> QED
    BY <2>1, LenProperties
<1>3. /\ AllPopped \in Seq(S) /\ DOMAIN AllPopped = 1 .. k
      /\ \A i \in 1 .. k : AllPopped[i] = stack[d - i]
  BY <1>1 DEF AllPopped, Popped
<1>4. Places(s, stack) = Places(s, Rest) \cup B
  <2>1. ASSUME NEW i \in Places(s, stack) PROVE i \in Places(s, Rest) \cup B
    <3>1. CASE i <= n - k
      BY <1>1, <1>2, <2>1, <3>1 DEF Places
    <3>2. CASE i > n - k
      <4>1. d - i \in Places(s, AllPopped) /\ i = d - (d - i)
        BY <1>1, <1>3, <2>1, <3>2 DEF Places
      <4> QED
        BY <4>1
    <3> QED
      BY <1>1, <2>1, <3>1, <3>2 DEF Places
  <2>2. ASSUME NEW i \in Places(s, Rest) \cup B PROVE i \in Places(s, stack)
    BY <1>1, <1>2, <1>3, <2>2 DEF Places
  <2> QED
    BY <2>1, <2>2
<1>5. Places(s, Rest) \cap B = {}
  BY <1>1, <1>2, <1>3 DEF Places
<1>6. IsFiniteSet(B) /\ Cardinality(B) = Cardinality(Places(s, AllPopped))
  <2>1. Places(s, AllPopped) \in SUBSET Int /\ IsFiniteSet(Places(s, AllPopped)) /\ d \in Int
    <3>1. IsFiniteSet(Places(s, AllPopped))
      BY <1>3, TimesFinite
    <3> QED
      BY <1>1, <1>3, <3>1 DEF Places
  <2> HIDE DEF d
  <2> QED
    BY <2>1, MovedPlaces
<1> HIDE DEF B
<1>7. Cardinality(Places(s, Rest) \cup B) = Cardinality(Places(s, Rest)) + Cardinality(B)
  BY <1>2, <1>5, <1>6, TimesFinite, PlacesAdd
<1> QED
  BY <1>2, <1>3, <1>4, <1>6, <1>7, TimesFinite

-----------------------------------------------------------------------------
(* Instructions.                                                           *)

(* A queue of the job d, if D holds it, then e, if E holds it, then t, if  *)
(* T holds it.                                                             *)
Lined(d, e, t, D, E, T, q) ==
  \E nd, ne, nt \in {0, 1} :
    /\ q \in Seq({d, e, t}) /\ Len(q) = nd + ne + nt /\ DOMAIN q = 1 .. nd + ne + nt
    /\ (D = <<d>> <=> nd = 1) /\ (E = <<e>> <=> ne = 1) /\ (T = <<t>> <=> nt = 1)
    /\ \A i \in 1 .. nd : q[i] = d
    /\ \A i \in nd + 1 .. nd + ne : q[i] = e
    /\ \A i \in nd + ne + 1 .. nd + ne + nt : q[i] = t

(* Where the jobs stand in the queue an instruction leaves behind.         *)
LEMMA QueuePlaces ==
  ASSUME NEW d, NEW e, NEW t,
         NEW D \in {<<>>, <<d>>}, NEW E \in {<<>>, <<e>>}, NEW T \in {<<>>, <<t>>}
  PROVE  Lined(d, e, t, D, E, T, D \o E \o T)
<1> DEFINE S == {d, e, t}
           p == D \o E
           q == D \o E \o T
<1>0. \A x \in S : \A X \in {<<>>, <<x>>} :
        /\ X \in Seq(S) /\ Len(X) \in {0, 1}
        /\ Len(X) = 1 => X[1] = x /\ X = <<x>>
        /\ X = <<x>> => Len(X) = 1
  <2> SUFFICES ASSUME NEW x \in S, NEW X \in {<<>>, <<x>>}
               PROVE  /\ X \in Seq(S) /\ Len(X) \in {0, 1}
                      /\ Len(X) = 1 => X[1] = x /\ X = <<x>>
                      /\ X = <<x>> => Len(X) = 1
    OBVIOUS
  <2> HIDE DEF S
  <2>1. CASE X = <<>>
    BY <2>1
  <2>2. CASE X = <<x>>
    BY <2>2
  <2> QED
    BY <2>1, <2>2
<1>1. /\ D \in Seq(S) /\ Len(D) \in {0, 1} /\ (Len(D) = 1 => D[1] = d /\ D = <<d>>)
      /\ (D = <<d>> => Len(D) = 1)
  BY <1>0, Zenon
<1>2. /\ E \in Seq(S) /\ Len(E) \in {0, 1} /\ (Len(E) = 1 => E[1] = e /\ E = <<e>>)
      /\ (E = <<e>> => Len(E) = 1)
  BY <1>0, Zenon
<1>3. /\ T \in Seq(S) /\ Len(T) \in {0, 1} /\ (Len(T) = 1 => T[1] = t /\ T = <<t>>)
      /\ (T = <<t>> => Len(T) = 1)
  BY <1>0, Zenon
<1> HIDE DEF S
<1>4. /\ p \in Seq(S) /\ Len(p) = Len(D) + Len(E)
      /\ \A i \in 1 .. Len(D) + Len(E) : p[i] = IF i <= Len(D) THEN D[i] ELSE E[i - Len(D)]
  BY <1>1, <1>2, ConcatProperties
<1>5. Len(D) \in {0, 1} /\ Len(E) \in {0, 1} /\ Len(T) \in {0, 1}
  BY <1>1, <1>2, <1>3, Zenon
<1> HIDE DEF p, q
<1>6. /\ q \in Seq(S) /\ Len(q) = Len(p) + Len(T)
      /\ \A i \in 1 .. Len(p) + Len(T) : q[i] = IF i <= Len(p) THEN p[i] ELSE T[i - Len(p)]
  BY <1>3, <1>4, ConcatProperties DEF p, q
<1>7. DOMAIN q = 1 .. Len(q)
  BY <1>6, LenProperties
<1>8. \A i \in 1 .. Len(D) : q[i] = d
  <2> SUFFICES ASSUME NEW i \in 1 .. Len(D)
               PROVE  q[i] = d
    OBVIOUS
  <2>0. i \in 1 .. Len(D)
    OBVIOUS
  <2>1. i = 1 /\ Len(D) = 1
    BY ONLY <1>5, <2>0
  <2>2. q[1] = p[1] /\ p[1] = D[1]
    BY <1>2, <1>3, <1>4, <1>6, <2>1
  <2>3. D[1] = d
    BY <1>1, <2>1, Zenon
  <2> QED
    BY ONLY <2>1, <2>2, <2>3
<1>9. \A i \in Len(D) + 1 .. Len(D) + Len(E) : q[i] = e
  <2> SUFFICES ASSUME NEW i \in Len(D) + 1 .. Len(D) + Len(E)
               PROVE  q[i] = e
    OBVIOUS
  <2>0. i \in Len(D) + 1 .. Len(D) + Len(E)
    OBVIOUS
  <2>1. i = Len(D) + 1 /\ Len(E) = 1 /\ Len(D) \in {0, 1}
    <3>1. \A a \in {0, 1}, b \in {0, 1} : \A j \in a + 1 .. a + b : j = a + 1 /\ b = 1
      BY ONLY TRUE
    <3> QED
      BY ONLY <1>5, <2>0, <3>1, Zenon
  <2>2. q[i] = p[i]
    BY <1>3, <1>4, <1>6, <2>1
  <2>3. p[i] = E[1]
    BY <1>4, <2>1
  <2>4. E[1] = e
    BY <1>2, <2>1, Zenon
  <2> QED
    BY ONLY <2>2, <2>3, <2>4
<1>10. \A i \in Len(D) + Len(E) + 1 .. Len(D) + Len(E) + Len(T) : q[i] = t
  <2> SUFFICES ASSUME NEW i \in Len(D) + Len(E) + 1 .. Len(D) + Len(E) + Len(T)
               PROVE  q[i] = t
    OBVIOUS
  <2>0. i \in Len(D) + Len(E) + 1 .. Len(D) + Len(E) + Len(T)
    OBVIOUS
  <2>1. Len(p) \in Nat /\ i = Len(p) + 1 /\ Len(T) = 1
    <3>1. \A a \in {0, 1}, b \in {0, 1}, c \in {0, 1} : \A j \in a + b + 1 .. a + b + c :
            a + b \in Nat /\ j = a + b + 1 /\ c = 1
      BY ONLY TRUE
    <3>2. Len(D) + Len(E) \in Nat /\ i = Len(D) + Len(E) + 1 /\ Len(T) = 1
      BY ONLY <1>5, <2>0, <3>1, Zenon
    <3>3. Len(p) = Len(D) + Len(E)
      BY <1>4
    <3> QED
      BY ONLY <3>2, <3>3, Zenon
  <2>2. q[i] = T[1]
    BY <1>6, <2>1
  <2>3. T[1] = t
    BY <1>3, <2>1, Zenon
  <2> QED
    BY ONLY <2>2, <2>3
<1>11. q \in Seq({d, e, t}) /\ Len(q) = Len(D) + Len(E) + Len(T)
       /\ DOMAIN q = 1 .. Len(D) + Len(E) + Len(T)
  BY <1>4, <1>6, <1>7 DEF S
<1> DEFINE nd == Len(D)
           ne == Len(E)
           nt == Len(T)
<1>12. /\ nd \in {0, 1} /\ ne \in {0, 1} /\ nt \in {0, 1}
       /\ (D = <<d>> <=> nd = 1) /\ (E = <<e>> <=> ne = 1) /\ (T = <<t>> <=> nt = 1)
  BY <1>1, <1>2, <1>3
<1>13. /\ \A i \in 1 .. nd : q[i] = d
       /\ \A i \in nd + 1 .. nd + ne : q[i] = e
       /\ \A i \in nd + ne + 1 .. nd + ne + nt : q[i] = t
       /\ q \in Seq({d, e, t}) /\ Len(q) = nd + ne + nt /\ DOMAIN q = 1 .. nd + ne + nt
  BY <1>8, <1>9, <1>10, <1>11
<1> HIDE DEF nd, ne, nt
<1>14. Lined(d, e, t, D, E, T, q)
  BY <1>12, <1>13 DEF Lined
<1> QED
  BY <1>14 DEF q

(* A queue of the job d, if D holds it, perhaps the job e, and the job t,  *)
(* if T holds it.                                                          *)
Queued(d, e, t, D, T, q) ==
  /\ DOMAIN q = 1 .. Len(q) /\ Len(q) \in Nat
  /\ \A i \in 1 .. Len(q) : q[i].act = "take" => i = Len(q) /\ q[i] = t /\ T = <<t>>
  /\ \A i \in 2 .. Len(q) : q[i] \in {e, t}
  /\ q # <<>> => IF D = <<d>> THEN Head(q) = d ELSE Head(q) \in {e, t}
  /\ T = <<t>> => q # <<>> /\ q[Len(q)] = t

(* What is queued behind an instruction: its pops, a second round for a    *)
(* concatenation, its push.                                                *)
LEMMA QueueShapes ==
  ASSUME NEW d, NEW e, NEW t, d.act = "drop", e.act = "drop", t.act = "take",
         NEW D \in {<<>>, <<d>>}, NEW E \in {<<>>, <<e>>},
         NEW T \in {<<>>, <<t>>}
  PROVE  Queued(d, e, t, D, T, D \o E \o T)
<1> DEFINE q == D \o E \o T
<1>1. Lined(d, e, t, D, E, T, q)
  BY QueuePlaces
<1> HIDE DEF q
<1>2. PICK nd, ne, nt \in {0, 1} :
         /\ q \in Seq({d, e, t}) /\ Len(q) = nd + ne + nt /\ DOMAIN q = 1 .. nd + ne + nt
         /\ (D = <<d>> <=> nd = 1) /\ (E = <<e>> <=> ne = 1) /\ (T = <<t>> <=> nt = 1)
         /\ \A i \in 1 .. nd : q[i] = d
         /\ \A i \in nd + 1 .. nd + ne : q[i] = e
         /\ \A i \in nd + ne + 1 .. nd + ne + nt : q[i] = t
  BY <1>1 DEF Lined
<1>3. q # <<>> => Len(q) >= 1 /\ Head(q) = q[1]
  BY <1>2
<1>4. \A i \in 1 .. Len(q) : q[i].act = "take" => i = Len(q) /\ q[i] = t /\ T = <<t>>
  <2> SUFFICES ASSUME NEW i \in 1 .. Len(q), q[i].act = "take"
               PROVE  i = Len(q) /\ q[i] = t /\ T = <<t>>
    OBVIOUS
  <2>1. i \in 1 .. nd \/ i \in nd + 1 .. nd + ne \/ (i \in nd + ne + 1 .. nd + ne + nt /\ nt = 1)
    BY <1>2
  <2> QED
    BY <1>2, <2>1
<1>5. \A i \in 2 .. Len(q) : q[i] \in {e, t}
  <2> SUFFICES ASSUME NEW i \in 2 .. Len(q) PROVE q[i] \in {e, t}
    OBVIOUS
  <2>1. i \in nd + 1 .. nd + ne \/ i \in nd + ne + 1 .. nd + ne + nt
    BY <1>2
  <2> QED
    BY <1>2, <2>1
<1>6. q # <<>> => IF D = <<d>> THEN Head(q) = d ELSE Head(q) \in {e, t}
  <2>1. Len(q) >= 1 => /\ nd = 1 => 1 \in 1 .. nd
                       /\ nd = 0 => 1 \in nd + 1 .. nd + ne \/ 1 \in nd + ne + 1 .. nd + ne + nt
    BY <1>2
  <2> QED
    BY <1>2, <1>3, <2>1
<1>7. T = <<t>> => q # <<>> /\ q[Len(q)] = t
  <2>1. T = <<t>> => Len(q) \in nd + ne + 1 .. nd + ne + nt /\ Len(q) >= 1
    BY <1>2
  <2> QED
    BY <1>2, <2>1
<1>8. Queued(d, e, t, D, T, q)
  BY <1>2, <1>4, <1>5, <1>6, <1>7 DEF Queued
<1> QED
  BY <1>8 DEF q

LEMMA WorkQueued ==
  ASSUME NEW popped, NEW v, NEW pushed \in {<<>>, <<v>>}, NEW loose,
         NEW extra \in {<<>>, <<[act |-> "drop", vals |-> loose]>>}
  PROVE  Queued([act |-> "drop", vals |-> popped], [act |-> "drop", vals |-> loose],
                [act |-> "take", vals |-> <<v>>], Work("drop", popped), Work("take", pushed),
                Work("drop", popped) \o extra \o Work("take", pushed))
<1> DEFINE d == [act |-> "drop", vals |-> popped]
           e == [act |-> "drop", vals |-> loose]
           t == [act |-> "take", vals |-> <<v>>]
           D == Work("drop", popped)
           T == Work("take", pushed)
<1>1. d.act = "drop" /\ e.act = "drop" /\ t.act = "take"
  OBVIOUS
<1>2. D \in {<<>>, <<d>>} /\ extra \in {<<>>, <<e>>} /\ T \in {<<>>, <<t>>}
  BY DEF Work
<1> HIDE DEF d, e, t, D, T
<1>3. Queued(d, e, t, D, T, D \o extra \o T)
  BY <1>1, <1>2, QueueShapes, Zenon
<1> QED
  BY <1>3 DEF d, e, t, D, T

(* The counting an instruction leaves behind.                              *)
LEMMA InstructionQueue ==
  ASSUME NEW S, NEW popped \in Seq(S), NEW v, NEW pushed \in {<<>>, <<v>>},
         NEW loose, NEW extra \in {<<>>, <<[act |-> "drop", vals |-> loose]>>},
         StringsAmong(Range(loose)) \cap HeldStrings' = {},
         pushed = <<v>> => stack' # <<>> /\ stack'[Len(stack')] = v,
         todo' = Work("drop", popped) \o extra \o Work("take", pushed)
  PROVE  /\ TakesComeLast' /\ DropsAreLoose' /\ LastIsPushed'
         /\ \A s \in HeldStrings' :
              /\ Dropping(s)' \in Nat /\ Dropping(s)' <= Times(s, popped)
              /\ Owed(s)' = Times(s, pushed)
<1> DEFINE d == [act |-> "drop", vals |-> popped]
           e == [act |-> "drop", vals |-> loose]
           t == [act |-> "take", vals |-> <<v>>]
           D == Work("drop", popped)
           T == Work("take", pushed)
           q == todo'
<1>1. D \in {<<>>, <<d>>} /\ (D = <<>> => \A i \in DOMAIN popped : ~IsCounted(popped[i]))
  BY DEF Work
<1>2. T \in {<<>>, <<t>>} /\ (T = <<t>> => pushed = <<v>>)
      /\ (T = <<>> => pushed = <<>> \/ ~IsCounted(v))
  BY DEF Work
<1>3. extra \in {<<>>, <<e>>}
  OBVIOUS
<1>4. d.act = "drop" /\ e.act = "drop" /\ t.act = "take" /\ d.vals = popped /\ e.vals = loose
      /\ t.vals = <<v>>
  OBVIOUS
<1>5. Queued(d, e, t, D, T, D \o extra \o T)
  BY WorkQueued
<1> HIDE DEF d, e, t, D, T
<1>6. /\ DOMAIN q = 1 .. Len(q) /\ Len(q) \in Nat
      /\ \A i \in 1 .. Len(q) : q[i].act = "take" => i = Len(q) /\ q[i] = t /\ T = <<t>>
      /\ \A i \in 2 .. Len(q) : q[i] \in {e, t}
      /\ q # <<>> => IF D = <<d>> THEN Head(q) = d ELSE Head(q) \in {e, t}
      /\ T = <<t>> => q # <<>> /\ q[Len(q)] = t
  <2>1. q = D \o extra \o T
    BY DEF D, T
  <2>2. Queued(d, e, t, D, T, q)
    BY <1>5, <2>1, Zenon
  <2> QED
    BY <2>2 DEF Queued
<1>7. TakesComeLast'
  BY <1>6 DEF TakesComeLast
<1>8. DropsAreLoose'
  <2>1. \A j \in 2 .. Len(q) : q[j].act = "drop" => q[j].vals = loose
    BY <1>4, <1>6
  <2> QED
    BY <2>1 DEF DropsAreLoose
<1>9. q # <<>> => Len(q) \in 1 .. Len(q)
  BY <1>6
<1>10. LastIsPushed'
  <2>1. q # <<>> /\ q[Len(q)].act = "take" => q[Len(q)].vals = <<v>> /\ pushed = <<v>>
    BY <1>2, <1>4, <1>6, <1>9
  <2> QED
    BY <2>1 DEF LastIsPushed, LastJob
<1>11. ASSUME NEW s \in HeldStrings'
       PROVE  Dropping(s)' \in Nat /\ Dropping(s)' <= Times(s, popped)
  <2>1. Times(s, popped) \in Nat
    BY TimesFinite
  <2>2. CASE q # <<>> /\ Act' = "drop"
    <3>1. Dropping(s)' = Times(s, Head(q).vals)
      BY <2>2 DEF Dropping
    <3>2. CASE D = <<d>>
      BY <1>4, <1>6, <2>1, <2>2, <3>1, <3>2
    <3>3. CASE D # <<d>>
      <4>1. Head(q).vals = loose
        BY <1>4, <1>6, <2>2, <3>3 DEF Act
      <4>2. Times(s, loose) = 0
        BY TimesNone
      <4>3. Dropping(s)' = 0
        BY <3>1, <4>1, <4>2, Zenon
      <4> HIDE DEF q
      <4> QED
        BY <2>1, <4>3
    <3> QED
      BY <3>2, <3>3
  <2>3. CASE ~(q # <<>> /\ Act' = "drop")
    BY <2>1, <2>3 DEF Dropping
  <2> QED
    BY <2>2, <2>3
<1>12. ASSUME NEW s \in HeldStrings'
       PROVE  Owed(s)' = Times(s, pushed)
  <2>1. Times(s, <<v>>) = Once(s, v) /\ Times(s, <<>>) = 0
    <3>1. Times(s, <<>>) = 0
      BY TimesNone DEF StringsAmong, Range
    <3> QED
      BY <3>1, TimesOne
  <2>2. CASE T = <<t>>
    <3>1. LastJob' = t /\ q # <<>> /\ pushed = <<v>>
      BY <1>2, <1>6, <2>2 DEF LastJob
    <3>2. Len(t.vals) = 1 /\ t.vals[1] = v
      BY <1>4
    <3>3. Owed(s)' = Once(s, v)
      BY <1>4, <3>1, <3>2 DEF Owed
    <3> QED
      BY <2>1, <3>1, <3>3
  <2>3. CASE T = <<>>
    <3>1. Times(s, pushed) = 0
      BY <1>2, <2>1, <2>3 DEF Once, IsCounted
    <3>2. T # <<t>>
      BY <2>3
    <3>3. q # <<>> => LastJob'.act # "take"
      BY <1>6, <1>9, <3>2 DEF LastJob
    <3> QED
      BY <3>1, <3>3 DEF Owed
  <2> QED
    BY <1>2, <2>2, <2>3
<1> QED
  BY <1>7, <1>8, <1>10, <1>11, <1>12

(* The strings held are among the allocated ones.                          *)
LEMMA HeldLocated ==
  ASSUME IInv
  PROVE  /\ \A v \in Good : IsString(v) => v.val \in DOMAIN strs
         /\ HeldStrings \subseteq DOMAIN strs
         /\ \A s \in DOMAIN strs : strs[s] \in StringValue /\ strs[s].ref_count \in Int
<1>1. \A v \in Good : IsString(v) => v.val \in DOMAIN strs
  BY DEF Good, Pointing, Located
<1>2. Range(stack) \subseteq Good /\ Range(locals) \subseteq Good
  BY ElementOfSeq, LenProperties DEF IInv, Range
<1>3. \A a \in DOMAIN arrs : Range(arrs[a].arr_val) \subseteq Good
  BY ElementOfSeq, LenProperties DEF IInv, Range
<1>4. HeldStrings \subseteq DOMAIN strs
  BY <1>1, <1>2, <1>3 DEF HeldStrings, HeldValues, StringsAmong
<1>5. \A s \in DOMAIN strs : strs[s] \in StringValue
  BY ElementOfSeq, LenProperties DEF IInv
<1>6. \A cell \in StringValue : cell.ref_count \in Int
  BY DEF StringValue
<1> QED
  BY <1>1, <1>4, <1>5, <1>6

(* Between two instructions every allocated string is counted once for     *)
(* itself and once for every place on the stack, held or not.              *)
LEMMA LiveStrings ==
  ASSUME IInv, CountInv, status = "running", todo = <<>>,
         NEW s \in DOMAIN strs, ~strs[s].freed
  PROVE  /\ Times(s, stack) \in Nat /\ strs[s].ref_count \in Int
         /\ strs[s].ref_count >= 1 + Times(s, stack)
<1>1. strs[s].ref_count \in Int
  BY HeldLocated
<1>2. Times(s, stack) \in Nat
  BY TimesFinite DEF IInv
<1>3. CASE s \in HeldStrings
  <2>1. Balanced(s)
    BY <1>3 DEF CountInv
  <2>2. Owed(s) = 0 /\ Dropping(s) = 0
    BY DEF Owed, Dropping
  <2> QED
    BY <1>1, <1>2, <2>1, <2>2 DEF Balanced
<1>4. CASE s \notin HeldStrings
  <2>1. s \notin StringsAmong(Range(stack))
    BY <1>4 DEF HeldStrings, HeldValues, StringsAmong
  <2>2. Times(s, stack) = 0
    BY <2>1, TimesNone
  <2>3. strs[s].ref_count >= 1
    BY DEF CountInv, LiveCounted
  <2> QED
    BY <1>1, <2>2, <2>3
<1> QED
  BY <1>3, <1>4

(* What is pushed ends up on top of the stack.                             *)
LEMMA PushedOnTop ==
  ASSUME IInv, Arity \in Nat, Arity <= Len(stack), NEW v, NEW extra, Replace(<<v>>, extra)
  PROVE  stack' # <<>> /\ stack'[Len(stack')] = v /\ v \in Range(stack')
<1> DEFINE S == Good \cup {v}
<1>1. Rest \in Seq(S) /\ <<v>> \in Seq(S) /\ Len(<<v>>) = 1 /\ <<v>>[1] = v
  <2>1. Good \subseteq S /\ v \in S
    OBVIOUS
  <2>2. Rest \in Seq(Good)
    BY PoppedGood
  <2> HIDE DEF S
  <2>3. Rest \in Seq(S)
    BY <2>1, <2>2, SeqGrows
  <2> QED
    BY <2>1, <2>3
<1>2. stack' = Rest \o <<v>>
  BY DEF Replace
<1> HIDE DEF S
<1>3. Len(Rest) \in Nat
  BY <1>1, LenProperties
<1>4. /\ stack' \in Seq(S) /\ Len(stack') = Len(Rest) + Len(<<v>>)
      /\ \A i \in 1 .. Len(Rest) + Len(<<v>>) :
           stack'[i] = IF i <= Len(Rest) THEN Rest[i] ELSE <<v>>[i - Len(Rest)]
  <2>1. /\ Rest \o <<v>> \in Seq(S) /\ Len(Rest \o <<v>>) = Len(Rest) + Len(<<v>>)
        /\ \A i \in 1 .. Len(Rest) + Len(<<v>>) :
             (Rest \o <<v>>)[i] = IF i <= Len(Rest) THEN Rest[i] ELSE <<v>>[i - Len(Rest)]
    BY <1>1, ConcatProperties
  <2> QED
    BY <1>2, <2>1
<1>5. Len(Rest) + 1 \in 1 .. Len(Rest) + 1 /\ ~(Len(Rest) + 1 <= Len(Rest))
      /\ Len(Rest) + 1 - Len(Rest) = 1
  BY <1>3
<1>6. Len(stack') = Len(Rest) + 1 /\ stack'[Len(stack')] = v /\ stack' # <<>>
  BY <1>1, <1>4, <1>5
<1>7. Len(stack') \in DOMAIN stack'
  BY <1>3, <1>4, <1>6, LenProperties
<1> QED
  BY <1>6, <1>7 DEF Range

(* An instruction keeps the invariant if what is held after it was         *)
(* counted before it.                                                      *)
LEMMA InstructionKeeps ==
  ASSUME IInv, Arity \in Nat, Arity <= Len(stack),
         NEW v, NEW pushed \in {<<>>, <<v>>},
         NEW loose, NEW extra \in {<<>>, <<[act |-> "drop", vals |-> loose]>>},
         Replace(pushed, extra),
         StringsAmong(Range(loose)) \cap HeldStrings' = {},
         LiveCounted',
         \A s \in HeldStrings' :
           /\ ~strs'[s].freed /\ strs'[s].ref_count \in Int
           /\ strs'[s].ref_count >= 1 + Times(s, stack)
  PROVE  CountInv'
<1> DEFINE S == Good \cup {v}
<1>1. stack \in Seq(S) /\ AllPopped \in Seq(S) /\ Rest \in Seq(S)
  <2>1. Good \subseteq S
    OBVIOUS
  <2>2. AllPopped \in Seq(Good) /\ Rest \in Seq(Good) /\ stack \in Seq(Good)
    BY PoppedGood DEF IInv
  <2> HIDE DEF S
  <2> QED
    BY <2>1, <2>2, SeqGrows
<1>2. pushed \in Seq(S)
  <2>1. v \in S
    OBVIOUS
  <2> HIDE DEF S
  <2>2. CASE pushed = <<>>
    BY <2>2
  <2>3. CASE pushed = <<v>>
    BY <2>1, <2>3
  <2> QED
    BY <2>2, <2>3
<1>3. stack' = Rest \o pushed /\ todo' = Work("drop", AllPopped) \o extra \o Work("take", pushed)
  BY DEF Replace
<1> HIDE DEF S
<1>4. pushed = <<v>> => stack' # <<>> /\ stack'[Len(stack')] = v
  BY PushedOnTop
<1>5. /\ TakesComeLast' /\ DropsAreLoose' /\ LastIsPushed'
      /\ \A s \in HeldStrings' :
           /\ Dropping(s)' \in Nat /\ Dropping(s)' <= Times(s, AllPopped)
           /\ Owed(s)' = Times(s, pushed)
  BY <1>1, <1>3, <1>4, InstructionQueue
<1>6. ASSUME NEW s \in HeldStrings'
      PROVE  Balanced(s)'
  <2>1. Times(s, stack') = Times(s, Rest) + Times(s, pushed)
    BY <1>1, <1>2, <1>3, TimesConcat
  <2>2. Times(s, stack) = Times(s, Rest) + Times(s, AllPopped)
    BY <1>1, TimesPopped
  <2>3. Times(s, Rest) \in Nat /\ Times(s, AllPopped) \in Nat /\ Times(s, pushed) \in Nat
    BY <1>1, <1>2, TimesFinite
  <2>4. /\ Dropping(s)' \in Nat /\ Dropping(s)' <= Times(s, AllPopped)
        /\ Owed(s)' = Times(s, pushed)
    BY <1>5
  <2>5. ~strs'[s].freed /\ strs'[s].ref_count \in Int
        /\ strs'[s].ref_count >= 1 + Times(s, stack)
    OBVIOUS
  <2> QED
    BY <2>1, <2>2, <2>3, <2>4, <2>5 DEF Balanced
<1> QED
  BY <1>5, <1>6 DEF CountInv

(* What the stack holds after an instruction it held before or was pushed. *)
LEMMA StackAfter ==
  ASSUME IInv, Arity \in Nat, Arity <= Len(stack), NEW v, NEW pushed \in {<<>>, <<v>>},
         NEW extra, Replace(pushed, extra)
  PROVE  /\ Range(stack') \subseteq Range(stack) \cup Range(pushed)
         /\ \A i \in 1 .. Arity : Popped(i) \in HeldValues
<1>1. Range(<<v>>) = {v}
  BY DEF Range
<1>2. Rest \in Seq(Range(stack))
  <2>1. stack \in Seq(Good) /\ Len(stack) \in Nat /\ DOMAIN stack = 1 .. Len(stack)
    BY LenProperties DEF IInv
  <2>2. \A i \in 1 .. Len(stack) - Arity : stack[i] \in Range(stack)
    BY <2>1 DEF Range
  <2> QED
    BY <2>1, <2>2, SubSeqProperties DEF Rest
<1>3. pushed \in Seq(Range(pushed))
  <2>1. CASE pushed = <<>>
    BY <2>1
  <2>2. CASE pushed = <<v>>
    BY <1>1, <2>2
  <2> QED
    BY <2>1, <2>2
<1>4. stack' \in Seq(Range(stack) \cup Range(pushed))
  <2> DEFINE A == Range(stack)
             B == Range(pushed)
             C == A \cup B
  <2>1. A \subseteq C /\ B \subseteq C
    OBVIOUS
  <2> HIDE DEF A, B, C
  <2>2. Rest \in Seq(C) /\ pushed \in Seq(C)
    BY <1>2, <1>3, <2>1, SeqGrows DEF A, B
  <2> QED
    BY <2>2, ConcatProperties DEF Replace, A, B, C
<1>5. Range(stack') \subseteq Range(stack) \cup Range(pushed)
  <2>1. \A C : stack' \in Seq(C) => Range(stack') \subseteq C
    BY ElementOfSeq, LenProperties DEF Range
  <2> QED
    BY <1>4, <2>1
<1>6. \A i \in 1 .. Arity : Popped(i) \in HeldValues
  <2>1. Len(stack) \in Nat /\ DOMAIN stack = 1 .. Len(stack)
    BY LenProperties DEF IInv
  <2>2. \A i \in 1 .. Arity : Len(stack) + 1 - i \in DOMAIN stack
    BY <2>1
  <2> QED
    BY <2>2 DEF Popped, HeldValues, Range
<1> QED
  BY <1>5, <1>6

(* An instruction that leaves the strings alone keeps the invariant if it  *)
(* holds no other strings than allocated ones.                             *)
LEMMA PlainKeeps ==
  ASSUME IInv, CountInv, status = "running", todo = <<>>, strs' = strs,
         Arity \in Nat, Arity <= Len(stack),
         NEW v, NEW pushed \in {<<>>, <<v>>}, Replace(pushed, <<>>),
         IsString(v) => v.val \in DOMAIN strs /\ ~strs[v.val].freed,
         \A w \in HeldValues' : IsString(w) => w \in HeldValues \cup {v}
  PROVE  CountInv'
<1>1. \A s \in HeldStrings' : s \in DOMAIN strs /\ ~strs[s].freed
  <2>1. \A s \in HeldStrings : s \in DOMAIN strs /\ ~strs[s].freed
    BY HeldLocated DEF CountInv, Balanced
  <2>2. \A w \in HeldValues : IsString(w) => w.val \in HeldStrings
    BY DEF HeldStrings, StringsAmong
  <2>3. ASSUME NEW s \in HeldStrings' PROVE s \in DOMAIN strs /\ ~strs[s].freed
    <3>1. PICK w \in HeldValues' : IsString(w) /\ s = w.val
      BY DEF HeldStrings, StringsAmong
    <3> QED
      BY <2>1, <2>2, <3>1
  <2> QED
    BY <2>3
<1>2. \A s \in HeldStrings' :
        /\ ~strs'[s].freed /\ strs'[s].ref_count \in Int
        /\ strs'[s].ref_count >= 1 + Times(s, stack)
  BY <1>1, LiveStrings
<1>3. LiveCounted'
  BY DEF CountInv, LiveCounted
<1>4. StringsAmong(Range(<<>>)) \cap HeldStrings' = {}
  BY DEF StringsAmong, Range
<1> QED
  BY <1>2, <1>3, <1>4, InstructionKeeps

(* A string something holds is allocated.                                  *)
LEMMA HeldAlive ==
  ASSUME IInv, CountInv, status = "running",
         NEW w \in HeldValues, IsString(w)
  PROVE  w.val \in DOMAIN strs /\ ~strs[w.val].freed
<1>1. w.val \in HeldStrings
  BY DEF HeldStrings, StringsAmong
<1> QED
  BY <1>1, HeldLocated DEF CountInv, Balanced

(* Pushing an allocated string, or no string at all.                       *)
LEMMA PushKeeps ==
  ASSUME IInv, CountInv, status = "running", todo = <<>>, Arity \in Nat, Arity <= Len(stack),
         NEW v, Push(v), UNCHANGED <<strs, arrs, locals>>,
         IsString(v) => v.val \in DOMAIN strs /\ ~strs[v.val].freed
  PROVE  CountInv'
<1>1. Replace(<<v>>, <<>>)
  BY DEF Push
<1>2. Range(stack') \subseteq Range(stack) \cup {v}
  <2>1. Range(<<v>>) = {v}
    BY DEF Range
  <2>2. Range(stack') \subseteq Range(stack) \cup Range(<<v>>)
    BY <1>1, StackAfter
  <2> QED
    BY <2>1, <2>2
<1>3. HeldValues' \subseteq HeldValues \cup {v}
  BY <1>2 DEF HeldValues
<1> QED
  BY <1>1, <1>3, PlainKeeps

(* Popping without a push, whatever happens to the values popped.          *)
LEMMA PopKeeps ==
  ASSUME IInv, CountInv, status = "running", todo = <<>>, Arity \in Nat, Arity <= Len(stack),
         Replace(<<>>, <<>>), strs' = strs,
         \A w \in Range(locals') \cup UNION {Range(arrs'[a].arr_val) : a \in DOMAIN arrs'} :
           IsString(w) => w \in HeldValues
  PROVE  CountInv'
<1>1. Range(<<>>) = {}
  BY DEF Range
<1>2. Range(stack') \subseteq Range(stack)
  BY <1>1, StackAfter
<1>3. \A w \in HeldValues' : IsString(w) => w \in HeldValues
  BY <1>2 DEF HeldValues
<1>4. ~IsString(Garbage)
  BY DEF Garbage, IsString, unknown_type, Scalar
<1> QED
  BY <1>3, <1>4, PlainKeeps

(* The instructions that push without changing a local or the heap.        *)
LEMMA PushesKeep ==
  ASSUME IInv, CountInv, KeepsHeld, PushConst \/ PushBool \/ Load
  PROVE  CountInv'
<1> USE DEF Proceed, HeapUnchanged
<1>1. CASE PushConst
  <2>1. At({OP_PUSH, OP_PUSH_STRING})
    BY <1>1 DEF PushConst
  <2>2. Op \in {OP_PUSH, OP_PUSH_STRING} /\ Op \in Opcodes /\ pc \in Nat /\ todo = <<>>
        /\ pc + OperandBytes(Op) < Len(code) /\ ~(Operand >= Len(constants))
        /\ status = "running"
    BY <2>1, Fetched, NoFault
  <2>3. Operand \in Nat
    BY <2>2, OperandType DEF WithOperand
  <2>4. constants[Operand + 1] \in Good
    BY <2>2, <2>3, LenProperties, ElementOfSeq DEF IInv
  <2>5. Arity = 0 /\ Arity <= Len(stack)
    BY <2>2, ArityOf, LenProperties DEF IInv
  <2> DEFINE v == constants[Operand + 1]
  <2>6. IsString(v) => v.val \in DOMAIN strs /\ ~strs[v.val].freed
    BY <1>1, <2>4, HeldLocated DEF KeepsHeld, PushesOnlyLive
  <2>7. UNCHANGED <<strs, arrs, locals>> /\ Push(v)
    BY <1>1 DEF PushConst
  <2> HIDE DEF v
  <2> QED
    BY <2>2, <2>5, <2>6, <2>7, PushKeeps
<1>2. CASE PushBool
  <2>1. At({OP_PUSH_TRUE, OP_PUSH_FALSE})
    BY <1>2 DEF PushBool
  <2>2. Op \in {OP_PUSH_TRUE, OP_PUSH_FALSE} /\ Op \in Opcodes /\ status = "running" /\ todo = <<>>
    BY <2>1, Fetched
  <2>3. Arity = 0 /\ Arity <= Len(stack)
    BY <2>2, ArityOf, LenProperties DEF IInv
  <2>4. UNCHANGED <<strs, arrs, locals>> /\ Push(BoolValue(Op = OP_PUSH_TRUE))
    BY <1>2 DEF PushBool
  <2>5. ~IsString(BoolValue(Op = OP_PUSH_TRUE))
    BY DEF BoolValue, IsString, bool_type, Scalar
  <2> QED
    BY <2>2, <2>3, <2>4, <2>5, PushKeeps
<1>3. CASE Load
  <2>1. At(Loads)
    BY <1>3 DEF Load
  <2>2. Op \in Loads /\ Op \in Opcodes /\ pc \in Nat /\ status = "running" /\ todo = <<>>
        /\ pc + OperandBytes(Op) < Len(code) /\ ValidSlot
    BY <2>1, Fetched DEF Slotted
  <2>3. Operand \in Nat
    BY <2>2, OperandType DEF WithOperand
  <2>4. Slot \in DOMAIN locals
    BY <2>2, <2>3, LenProperties DEF IInv, Slot, ValidSlot
  <2>5. Arity = 0 /\ Arity <= Len(stack)
    BY <2>2, ArityOf, LenProperties DEF IInv
  <2>6. UNCHANGED <<strs, arrs, locals>> /\ Push(locals[Slot])
    BY <1>3 DEF Load
  <2>7. locals[Slot] \in HeldValues
    BY <2>4 DEF HeldValues, Range
  <2> QED
    BY <2>2, <2>5, <2>6, <2>7, HeldAlive, PushKeeps
<1> QED
  BY <1>1, <1>2, <1>3

(* The instructions that compute an int or a bool.                         *)
LEMMA ComputesKeep ==
  ASSUME IInv, CountInv, IntOp \/ Compare \/ Negate \/ Not
  PROVE  CountInv'
<1>1. PICK v : Push(v) /\ ~IsString(v)
  <2>1. \A n : ~IsString(IntValue(n)) /\ ~IsString(BoolValue(n))
    BY DEF IntValue, BoolValue, IsString, int_type, bool_type, Scalar
  <2> QED
    BY <2>1 DEF IntOp, Compare, Negate, Not
<1>2. At(IntArith \cup IntTest \cup BoolTest \cup {OP_INEG, OP_NOT}) /\ UNCHANGED <<strs, arrs, locals>>
  BY DEF IntOp, Compare, Negate, Not, At, HeapUnchanged
<1>3. /\ Op \in IntArith \cup IntTest \cup BoolTest \cup {OP_INEG, OP_NOT} /\ Op \in Opcodes
      /\ ~(Len(stack) < Arity) /\ status = "running" /\ todo = <<>>
  BY <1>2, Fetched
<1>4. Arity = 2 \/ Arity = 1
  BY <1>3, ArityOf
<1>5. Arity \in Nat /\ Arity <= Len(stack)
  BY <1>3, <1>4, Operands
<1> QED
  BY <1>1, <1>2, <1>3, <1>5, PushKeeps

(* A store moves a value, a compound store changes an int.                 *)
LEMMA StoresKeep ==
  ASSUME IInv, CountInv, CompoundStore \/ Store \/ Jump
  PROVE  CountInv'
<1> USE DEF Proceed, HeapUnchanged
<1>1. UNCHANGED <<strs, arrs>> /\ Replace(<<>>, <<>>)
  BY DEF CompoundStore, Store, Jump
<1>2. \A w \in UNION {Range(arrs'[a].arr_val) : a \in DOMAIN arrs'} : w \in HeldValues
  BY <1>1 DEF HeldValues
<1>3. CASE CompoundStore
  <2>1. At(Compound)
    BY <1>3 DEF CompoundStore
  <2>2. Op \in Compound /\ Op \in Opcodes /\ pc \in Nat /\ ~(Len(stack) < Arity)
        /\ pc + OperandBytes(Op) < Len(code) /\ ValidSlot /\ status = "running" /\ todo = <<>>
    BY <2>1, Fetched DEF Slotted
  <2>3. locals[Slot].member = "int_val"
    BY <2>1, <2>2, Fetched, NoFault DEF MembersMatch
  <2>4. Arity = 1
    BY <2>2, ArityOf
  <2>5. Arity \in Nat /\ Arity <= Len(stack)
    BY <2>2, <2>4, Operands
  <2>6. Operand \in Nat
    BY <2>2, OperandType DEF WithOperand
  <2>7. locals \in Seq(Good) /\ Slot \in 1 .. Len(locals) /\ DOMAIN locals = 1 .. Len(locals)
    BY <2>2, <2>6, LenProperties DEF IInv, Slot, ValidSlot
  <2>8. locals[Slot] \in Good
    BY <2>7, ElementOfSeq
  <2> DEFINE n == Arith(Op, locals[Slot].val, Popped(1).val)
             v == [locals[Slot] EXCEPT !.val = n]
  <2>9. ~IsString(v)
    <3> HIDE DEF n
    <3> QED
      BY <2>3, <2>8 DEF Good, Pointing, Located, StackValue, IsString
  <2>10. locals' = [locals EXCEPT ![Slot] = v]
    BY <1>3 DEF CompoundStore
  <2>11. \A w \in Range(locals') : w = v \/ w \in Range(locals)
    <3> HIDE DEF v
    <3> QED
      BY <2>7, <2>10 DEF Range
  <2>12. \A w \in Range(locals') : IsString(w) => w \in HeldValues
    <3> HIDE DEF v
    <3> QED
      BY <2>9, <2>11 DEF HeldValues
  <2> QED
    BY <1>1, <1>2, <2>2, <2>5, <2>12, PopKeeps
<1>4. CASE Store
  <2>1. At(Stores)
    BY <1>4 DEF Store
  <2>2. Op \in Stores /\ Op \in Opcodes /\ ~(Len(stack) < Arity) /\ status = "running" /\ todo = <<>>
    BY <2>1, Fetched
  <2>3. Arity = 1
    BY <2>2, ArityOf
  <2>4. Arity \in Nat /\ Arity <= Len(stack)
    BY <2>2, <2>3, Operands
  <2>5. locals' = [locals EXCEPT ![Slot] = Popped(1)]
    BY <1>4 DEF Store
  <2>6. Popped(1) \in HeldValues
    <3>1. 1 \in 1 .. Arity
      BY <2>3
    <3> QED
      BY <1>1, <2>4, <3>1, StackAfter
  <2>7. \A w \in Range(locals') : w \in HeldValues
    BY <2>5, <2>6 DEF HeldValues, Range
  <2> QED
    BY <1>1, <1>2, <2>2, <2>4, <2>7, PopKeeps
<1>5. CASE Jump
  <2>1. At({OP_JMP} \cup CondJumps)
    BY <1>5 DEF Jump
  <2>2. Op \in {OP_JMP} \cup CondJumps /\ Op \in Opcodes /\ ~(Len(stack) < Arity)
        /\ status = "running" /\ todo = <<>>
    BY <2>1, Fetched
  <2>3. Arity = 0 \/ Arity = 1
    BY <2>2, ArityOf
  <2>4. Arity \in Nat /\ Arity <= Len(stack)
    BY <2>2, <2>3, Operands
  <2>5. \A w \in Range(locals') : w \in HeldValues
    BY <1>5 DEF Jump, HeldValues
  <2> QED
    BY <1>1, <1>2, <2>2, <2>4, <2>5, PopKeeps
<1> QED
  BY <1>3, <1>4, <1>5

(* The element loaded stays in its array.                                  *)
LEMMA ArrLoadIdxKeeps ==
  ASSUME IInv, CountInv, ArrLoadIdx
  PROVE  CountInv'
<1> DEFINE v == arrs[TheArray].arr_val[Index + 1]
<1>1. At({OP_ARRLOADIDX})
  BY DEF ArrLoadIdx
<1>2. Op = OP_ARRLOADIDX /\ status = "running" /\ todo = <<>>
  BY <1>1, Fetched
<1>3. /\ Arity \in Nat /\ Arity <= Len(stack) /\ TheArray \in DOMAIN arrs
      /\ Index \in 0 .. Len(arrs[TheArray].arr_val) - 1
  BY <1>1, <1>2, ArrayOperand DEF Indexing
<1>4. v \in HeldValues
  <2>1. Index + 1 \in DOMAIN arrs[TheArray].arr_val
    BY <1>3, LenProperties DEF IInv
  <2> QED
    BY <1>3, <2>1 DEF HeldValues, Range
<1>5. UNCHANGED <<strs, arrs, locals>> /\ Push(v)
  BY DEF ArrLoadIdx, HeapUnchanged
<1> HIDE DEF v
<1> QED
  BY <1>2, <1>3, <1>4, <1>5, HeldAlive, PushKeeps

(* OP_ARRSTOREIDX moves a value from the stack into the array.             *)
LEMMA ArrStoreIdxKeeps ==
  ASSUME IInv, CountInv, ArrStoreIdx
  PROVE  CountInv'
<1>1. At({OP_ARRSTOREIDX})
  BY DEF ArrStoreIdx
<1>2. Op = OP_ARRSTOREIDX /\ status = "running" /\ todo = <<>>
  BY <1>1, Fetched
<1>3. /\ Arity \in Nat /\ Arity <= Len(stack) /\ 1 \in 1 .. Arity /\ TheArray \in DOMAIN arrs
  BY <1>1, ArrayOperand DEF Indexing
<1>4. /\ Replace(<<>>, <<>>) /\ UNCHANGED <<strs, locals>>
      /\ arrs' = [arrs EXCEPT ![TheArray].arr_val[Index + 1] = Popped(1)]
  BY DEF ArrStoreIdx
<1>5. Popped(1) \in HeldValues
  BY <1>3, <1>4, StackAfter
<1>6. \A a \in DOMAIN arrs' : \A w \in Range(arrs'[a].arr_val) : w \in HeldValues
  <2> TAKE a \in DOMAIN arrs'
  <2>1. a \in DOMAIN arrs
    BY <1>4
  <2> DEFINE old == arrs[a].arr_val
             new == arrs'[a].arr_val
  <2>2. arrs[a] \in ArrayValue
    BY <2>1, ElementOfSeq, LenProperties DEF IInv
  <2>3. new = old \/ new = [old EXCEPT ![Index + 1] = Popped(1)]
    BY <1>4, <2>1, <2>2 DEF ArrayValue
  <2>4. \A w \in Range(old) : w \in HeldValues
    BY <2>1 DEF HeldValues
  <2> HIDE DEF old, new
  <2>5. \A w \in Range(new) : w \in HeldValues
    BY <1>5, <2>3, <2>4 DEF Range
  <2> QED
    BY <2>5 DEF new
<1>7. \A w \in Range(locals') : w \in HeldValues
  BY <1>4 DEF HeldValues
<1> QED
  BY <1>2, <1>3, <1>4, <1>6, <1>7, PopKeeps

(* OP_ARRAPPEND moves a value from the stack behind the array.             *)
LEMMA ArrAppendKeeps ==
  ASSUME IInv, CountInv, ArrAppend
  PROVE  CountInv'
<1>1. At({OP_ARRAPPEND})
  BY DEF ArrAppend
<1>2. Op = OP_ARRAPPEND /\ status = "running" /\ todo = <<>>
  BY <1>1, Fetched
<1>3. /\ Arity \in Nat /\ Arity <= Len(stack) /\ 1 \in 1 .. Arity /\ 2 \in 1 .. Arity
      /\ TheArray \in DOMAIN arrs
  BY <1>1, ArrayOperand
<1>4. /\ Replace(<<Popped(2)>>, <<>>) /\ UNCHANGED <<strs, locals>>
      /\ arrs' = [arrs EXCEPT ![TheArray] = Grown(@, Popped(1))]
  BY DEF ArrAppend, Push
<1>5. Popped(1) \in HeldValues /\ Popped(2) \in HeldValues
  BY <1>3, <1>4, StackAfter
<1>6. \A a \in DOMAIN arrs' : \A w \in Range(arrs'[a].arr_val) : w \in HeldValues
  <2> TAKE a \in DOMAIN arrs'
  <2>1. a \in DOMAIN arrs
    BY <1>4
  <2> DEFINE old == arrs[a].arr_val
             new == arrs'[a].arr_val
             v == Popped(1)
  <2>2. arrs[a] \in ArrayValue /\ old \in Seq(Good)
    BY <2>1, ElementOfSeq, LenProperties DEF IInv
  <2>3. new = old \/ new = Append(old, v)
    <3>1. arrs'[a] = arrs[a] \/ arrs'[a] = Grown(arrs[a], v)
      BY <1>4, <2>1
    <3>2. DOMAIN arrs[a] = {"arr_val", "capacity", "ref_count", "freed"}
      BY <2>2 DEF ArrayValue
    <3>3. Grown(arrs[a], v).arr_val = Append(old, v)
      BY <3>2 DEF Grown
    <3> QED
      BY <3>1, <3>3
  <2>4. \A w \in Range(old) : w \in HeldValues
    BY <2>1 DEF HeldValues
  <2> HIDE DEF old, new
  <2>5. \A w \in Range(new) : w \in HeldValues
    <3>1. CASE new = Append(old, v)
      <4>1. \A i \in DOMAIN new : new[i] = v \/ (i \in DOMAIN old /\ new[i] = old[i])
        BY <2>2, <3>1, LenProperties, AppendProperties
      <4> QED
        BY <1>5, <2>4, <4>1 DEF Range
    <3>2. CASE new = old
      BY <2>4, <3>2
    <3> QED
      BY <2>3, <3>1, <3>2
  <2> QED
    BY <2>5 DEF new
<1>7. \A w \in Range(locals') : w \in HeldValues
  BY <1>4 DEF HeldValues
<1>8. Range(stack') \subseteq Range(stack) \cup {Popped(2)}
  <2>1. Range(<<Popped(2)>>) = {Popped(2)}
    BY DEF Range
  <2> QED
    BY <1>3, <1>4, <2>1, StackAfter
<1>9. \A w \in HeldValues' : w \in HeldValues \cup {Popped(2)}
  BY <1>6, <1>7, <1>8 DEF HeldValues
<1>10. IsString(Popped(2)) => Popped(2).val \in DOMAIN strs /\ ~strs[Popped(2).val].freed
  BY <1>2, <1>5, HeldAlive
<1> QED
  BY <1>2, <1>3, <1>4, <1>9, <1>10, PlainKeeps

(* OP_PUSH_ARRAY moves values from the stack into a new array.             *)
LEMMA PushArrayKeeps ==
  ASSUME IInv, CountInv, PushArray
  PROVE  CountInv'
<1> DEFINE elems == SubSeq(stack, Len(stack) - Operand + 1, Len(stack))
           type  == IF Operand > 0 THEN ArrayOf(Popped(Operand).type) ELSE unknown_type
           cell  == NewArray(elems)
           v     == ArrayRef(type, Len(arrs) + 1)
<1>1. At({OP_PUSH_ARRAY})
  BY DEF PushArray
<1>2. Op = OP_PUSH_ARRAY /\ Op \in Opcodes /\ pc \in Nat /\ ~(Len(stack) < Arity)
      /\ pc + OperandBytes(Op) < Len(code) /\ status = "running" /\ todo = <<>>
  BY <1>1, Fetched
<1>3. Operand \in Nat
  BY <1>2, OperandType DEF WithOperand
<1>4. Arity = Operand
  BY <1>2, <1>3, ArityOf
<1>5. /\ Arity \in Nat /\ Arity <= Len(stack)
      /\ \A i \in 1 .. Operand : Popped(i) \in Good
  BY <1>2, <1>3, <1>4, Operands
<1>6. /\ stack \in Seq(Good) /\ Len(stack) \in Nat /\ DOMAIN stack = 1 .. Len(stack)
      /\ arrs \in Seq(ArrayValue) /\ Len(arrs) \in Nat /\ DOMAIN arrs = 1 .. Len(arrs)
  BY LenProperties DEF IInv
<1>7. UNCHANGED <<strs, locals>> /\ Replace(<<v>>, <<>>) /\ arrs' = Append(arrs, cell)
  BY DEF PushArray, Push
<1>8. Range(elems) \subseteq HeldValues
  <2>1. elems \in Seq(Range(stack))
    <3>1. \A i \in Len(stack) - Operand + 1 .. Len(stack) : stack[i] \in Range(stack)
      BY <1>3, <1>4, <1>5, <1>6 DEF Range
    <3>2. Len(stack) - Operand + 1 \in Int /\ Len(stack) \in Int
      BY <1>3, <1>6
    <3> QED
      BY <3>1, <3>2, SubSeqProperties
  <2> DEFINE A == Range(stack)
             e == elems
  <2>2. e \in Seq(A) /\ A \subseteq HeldValues
    BY <2>1 DEF HeldValues
  <2> HIDE DEF A, e
  <2>3. Range(e) \subseteq HeldValues
    BY <2>2, ElementOfSeq, LenProperties DEF Range
  <2> QED
    BY <2>3 DEF e
<1>9. cell.arr_val = elems
  <2> HIDE DEF elems
  <2> QED
    BY DEF NewArray
<1> HIDE DEF elems, cell
<1>10. \A a \in DOMAIN arrs' : \A w \in Range(arrs'[a].arr_val) : w \in HeldValues
  <2>1. \A a \in DOMAIN arrs' : arrs'[a] = cell \/ (a \in DOMAIN arrs /\ arrs'[a] = arrs[a])
    BY <1>6, <1>7
  <2> TAKE a \in DOMAIN arrs'
  <2>2. CASE arrs'[a] = cell
    BY <1>8, <1>9, <2>2
  <2>3. CASE a \in DOMAIN arrs /\ arrs'[a] = arrs[a]
    BY <2>3 DEF HeldValues
  <2> QED
    BY <2>1, <2>2, <2>3
<1>11. type \in VarType /\ (type.nested >= 0 \/ type = unknown_type)
  <2>1. CASE Operand > 0
    <3>1. Popped(Operand) \in Good
      BY <1>3, <1>5, <2>1
    <3> QED
      BY <2>1, <3>1 DEF Good, Pointing, Located, StackValue, VarType, ArrayOf
  <2>2. CASE ~(Operand > 0)
    BY <2>2 DEF unknown_type, Scalar, VarType, BaseType
  <2> QED
    BY <2>1, <2>2
<1>12. ~IsString(v)
  <2> HIDE DEF type
  <2> QED
    BY <1>11 DEF ArrayRef, IsString, unknown_type, Scalar, VarType
<1> HIDE DEF v
<1>13. Range(stack') \subseteq Range(stack) \cup {v}
  <2>1. Range(<<v>>) = {v}
    BY DEF Range
  <2>2. Range(stack') \subseteq Range(stack) \cup Range(<<v>>)
    BY <1>5, <1>7, StackAfter
  <2> QED
    BY <2>1, <2>2
<1>14. \A w \in HeldValues' : w \in HeldValues \cup {v}
  BY <1>7, <1>10, <1>13 DEF HeldValues
<1> QED
  BY <1>2, <1>5, <1>7, <1>12, <1>14, PlainKeeps

(* OP_SCONCAT holds a new string, and its operands no longer.              *)
LEMMA ConcatKeeps ==
  ASSUME IInv, CountInv, KeepsHeld, Concat
  PROVE  CountInv'
<1> DEFINE cell  == [text |-> strs[Lhs].text \o strs[Rhs].text, ref_count |-> 1, freed |-> FALSE]
           new   == Len(strs) + 1
           v     == StringRef(new)
           loose == <<Popped(2), Popped(1)>>
           extra == Work("drop", loose)
<1>1. At({OP_SCONCAT})
  BY DEF Concat
<1>2. Op = OP_SCONCAT /\ Op \in Opcodes /\ ~(Len(stack) < Arity)
      /\ status = "running" /\ todo = <<>>
  BY <1>1, Fetched
<1>3. Arity = 2
  BY <1>2, ArityOf
<1>4. Arity \in Nat /\ Arity <= Len(stack)
  BY <1>2, <1>3, Operands
<1>5. strs \in Seq(StringValue) /\ Len(strs) \in Nat /\ DOMAIN strs = 1 .. Len(strs)
  BY LenProperties DEF IInv
<1>6. strs' = Append(strs, cell) /\ Replace(<<v>>, extra) /\ UNCHANGED <<arrs, locals>>
  BY DEF Concat
<1>7. cell.ref_count = 1 /\ ~cell.freed
  OBVIOUS
<1>8. IsString(v) /\ v.val = new
  BY DEF StringRef, IsString, string_type, Scalar
<1>9. extra \in {<<>>, <<[act |-> "drop", vals |-> loose]>>}
  BY DEF Work
<1>10. StringsAmong(Range(loose)) \cap HeldStrings' = {}
  <2>1. Range(loose) = {Popped(2), Popped(1)}
    BY DEF Range
  <2>2. StringsAmong(Range(loose)) \subseteq {Lhs, Rhs}
    BY <2>1 DEF StringsAmong, Lhs, Rhs
  <2> QED
    BY <2>2 DEF KeepsHeld, ConcatsOnlyLoose
<1> HIDE DEF cell, v, loose, extra
<1>11. /\ DOMAIN strs' = DOMAIN strs \cup {new} /\ strs'[new] = cell
       /\ \A s \in DOMAIN strs : strs'[s] = strs[s]
       /\ new \notin DOMAIN strs
  BY <1>5, <1>6
<1>12. LiveCounted'
  BY <1>2, <1>7, <1>11 DEF CountInv, LiveCounted
<1>13. HeldStrings' \subseteq HeldStrings \cup {new}
  <2>1. Range(stack') \subseteq Range(stack) \cup {v}
    <3>1. Range(<<v>>) = {v}
      BY DEF Range
    <3>2. Range(stack') \subseteq Range(stack) \cup Range(<<v>>)
      BY <1>4, <1>6, StackAfter
    <3> QED
      BY <3>1, <3>2
  <2>2. HeldValues' \subseteq HeldValues \cup {v}
    BY <1>6, <2>1 DEF HeldValues
  <2> QED
    BY <1>8, <2>2 DEF HeldStrings, StringsAmong
<1>14. ASSUME NEW s \in HeldStrings'
       PROVE  /\ ~strs'[s].freed /\ strs'[s].ref_count \in Int
              /\ strs'[s].ref_count >= 1 + Times(s, stack)
  <2>1. CASE s = new
    <3>1. s \notin HeldStrings
      BY <1>11, <2>1, HeldLocated
    <3>2. s \notin StringsAmong(Range(stack))
      BY <3>1 DEF HeldStrings, HeldValues, StringsAmong
    <3>3. Times(s, stack) = 0
      BY <3>2, TimesNone
    <3> QED
      BY <1>7, <1>11, <2>1, <3>3
  <2>2. CASE s # new
    <3>1. s \in HeldStrings /\ s \in DOMAIN strs
      BY <1>13, <2>2, HeldLocated
    <3>2. ~strs[s].freed
      BY <1>2, <3>1 DEF CountInv, Balanced
    <3> QED
      BY <1>2, <1>11, <3>1, <3>2, LiveStrings
  <2> QED
    BY <2>1, <2>2
<1> QED
  BY <1>4, <1>6, <1>9, <1>10, <1>12, <1>14, InstructionKeeps

-----------------------------------------------------------------------------
(* Counting.                                                               *)

(* Work makes at most one job, and none where nothing is counted.          *)
LEMMA WorkShape ==
  ASSUME NEW act, NEW vals
  PROVE  /\ Work(act, vals) \in Seq({[act |-> act, vals |-> vals]})
         /\ Len(Work(act, vals)) \in {0, 1}
         /\ Len(Work(act, vals)) = 1 => Work(act, vals)[1] = [act |-> act, vals |-> vals]
         /\ Len(Work(act, vals)) = 0 => \A i \in DOMAIN vals : ~IsCounted(vals[i])
<1> DEFINE j == [act |-> act, vals |-> vals]
<1>1. CASE \E i \in DOMAIN vals : IsCounted(vals[i])
  <2>1. Work(act, vals) = <<j>>
    BY <1>1 DEF Work
  <2> HIDE DEF j
  <2>2. <<j>> \in Seq({j}) /\ Len(<<j>>) = 1 /\ <<j>>[1] = j
    OBVIOUS
  <2> QED
    BY <2>1, <2>2 DEF j
<1>2. CASE ~ \E i \in DOMAIN vals : IsCounted(vals[i])
  <2>1. Work(act, vals) = <<>>
    BY <1>2 DEF Work
  <2> HIDE DEF j
  <2>2. <<>> \in Seq({j}) /\ Len(<<>>) = 0
    OBVIOUS
  <2> QED
    BY <1>2, <2>1, <2>2 DEF j
<1> QED
  BY <1>1, <1>2

(* The queue after a value is counted: work on the array's elements, on    *)
(* the rest of the job, and the jobs behind.                               *)
LEMMA QueueAfter ==
  ASSUME IInv, todo # <<>>, NEW elems, Finish(Act, elems)
  PROVE  \E n \in Nat :
           /\ Len(todo) \in Nat \ {0} /\ DOMAIN todo = 1 .. Len(todo)
           /\ Len(todo') = n + Len(todo) - 1 /\ DOMAIN todo' = 1 .. n + Len(todo) - 1
           /\ todo' # <<>> <=> n + Len(todo) - 1 >= 1
           /\ Head(todo) = todo[1] /\ (todo' # <<>> => Head(todo') = todo'[1])
           /\ \A i \in 1 .. n : todo'[i].act = Act
           /\ \A i \in 1 .. Len(todo) - 1 : todo'[n + i] = todo[i + 1]
           /\ elems = <<>> =>
                /\ n \in {0, 1}
                /\ n = 1 => todo'[1].vals = Tail(Head(todo).vals)
                /\ n = 0 => \A i \in DOMAIN Tail(Head(todo).vals) :
                             ~IsCounted(Tail(Head(todo).vals)[i])
<1> DEFINE T == Tail(Head(todo).vals)
           A == Work(Act, elems)
           B == Work(Act, T)
           R == Tail(todo)
           a == [act |-> Act, vals |-> elems]
           b == [act |-> Act, vals |-> T]
           J == GoodJob \cup {a, b}
           p == A \o B
           n == Len(p)
           m == Len(todo)
<1>1. a.act = Act /\ b.act = Act /\ b.vals = T
  OBVIOUS
<1>2. todo \in Seq(GoodJob) /\ todo # <<>>
  BY DEF IInv
<1>3. /\ m \in Nat \ {0} /\ DOMAIN todo = 1 .. m
      /\ R \in Seq(GoodJob) /\ Len(R) = m - 1 /\ \A i \in 1 .. m - 1 : R[i] = todo[i + 1]
  BY <1>2, LenProperties, HeadTailProperties
<1>4. /\ A \in Seq({a}) /\ Len(A) \in {0, 1} /\ (Len(A) = 1 => A[1] = a)
      /\ B \in Seq({b}) /\ Len(B) \in {0, 1} /\ (Len(B) = 1 => B[1] = b)
      /\ (Len(B) = 0 => \A i \in DOMAIN T : ~IsCounted(T[i]))
  BY WorkShape
<1>5. elems = <<>> => Len(A) = 0
  <2>1. elems = <<>> => A = <<>>
    BY DEF Work
  <2> QED
    BY <2>1
<1>6. todo' = A \o B \o R
  BY DEF Finish
<1>7. GoodJob \subseteq J /\ {a} \subseteq J /\ {b} \subseteq J
  OBVIOUS
<1> HIDE DEF T, A, B, R, a, b, J
<1>8. A \in Seq(J) /\ B \in Seq(J) /\ R \in Seq(J)
  BY <1>3, <1>4, <1>7, SeqGrows
<1>9. /\ p \in Seq(J) /\ Len(p) = Len(A) + Len(B)
      /\ \A i \in 1 .. Len(A) + Len(B) : p[i] = IF i <= Len(A) THEN A[i] ELSE B[i - Len(A)]
  BY <1>8, ConcatProperties
<1>10. todo' = p \o R
  BY <1>6
<1> HIDE DEF p
<1>11. /\ todo' \in Seq(J) /\ Len(todo') = Len(p) + Len(R)
       /\ \A i \in 1 .. Len(p) + Len(R) : todo'[i] = IF i <= Len(p) THEN p[i] ELSE R[i - Len(p)]
  <2>1. /\ p \o R \in Seq(J) /\ Len(p \o R) = Len(p) + Len(R)
        /\ \A i \in 1 .. Len(p) + Len(R) :
             (p \o R)[i] = IF i <= Len(p) THEN p[i] ELSE R[i - Len(p)]
    <3>1. p \in Seq(J) /\ R \in Seq(J)
      BY <1>8, <1>9
    <3> HIDE DEF n, m
    <3> QED
      BY <3>1, ConcatProperties, Zenon
  <2> QED
    BY <1>10, <2>1, Zenon
<1>12. n \in Nat /\ \A i \in 1 .. n : p[i] \in {a, b}
  BY <1>4, <1>9
<1>13. elems = <<>> => n \in {0, 1} /\ (n = 1 => p[1] = b) /\ (n = 0 => Len(B) = 0)
  BY <1>4, <1>5, <1>9
<1> HIDE DEF n, m
<1>14. Len(todo') = n + m - 1 /\ DOMAIN todo' = 1 .. n + m - 1
  <2>1. DOMAIN todo' = 1 .. Len(todo')
    BY <1>11, LenProperties
  <2>2. Len(todo') = n + (m - 1)
    BY <1>3, <1>11 DEF n
  <2> QED
    BY <1>3, <1>12, <2>1, <2>2
<1>15. \A i \in 1 .. n : todo'[i] = p[i]
  <2>1. Len(R) \in Nat /\ Len(p) \in Nat
    BY <1>3, <1>12 DEF n
  <2>2. \A i \in 1 .. Len(p) : i \in 1 .. Len(p) + Len(R) /\ i <= Len(p)
    BY <2>1
  <2> QED
    BY <1>11, <2>2 DEF n
<1>16. \A i \in 1 .. m - 1 : todo'[n + i] = todo[i + 1]
  BY <1>3, <1>11, <1>12 DEF n
<1>17. todo' # <<>> <=> n + m - 1 >= 1
  <2>1. todo' = <<>> <=> Len(todo') = 0
    BY <1>11
  <2>2. n + m - 1 \in Nat
    BY <1>3, <1>12
  <2> QED
    BY <1>14, <2>1, <2>2
<1>18. \A i \in 1 .. n : todo'[i].act = Act
  BY <1>1, <1>12, <1>15
<1>19. elems = <<>> =>
         /\ n \in {0, 1} /\ (n = 1 => todo'[1].vals = T)
         /\ (n = 0 => \A i \in DOMAIN T : ~IsCounted(T[i]))
  BY <1>1, <1>4, <1>13, <1>15
<1>20. Head(todo) = todo[1] /\ (todo' # <<>> => Head(todo') = todo'[1])
  BY <1>2, <1>11
<1> QED
  BY <1>3, <1>12, <1>14, <1>16, <1>17, <1>18, <1>19, <1>20 DEF m, T

(* The balance is a number on every side.                                  *)
LEMMA BalanceTypes ==
  ASSUME IInv, NEW s
  PROVE  Dropping(s) \in Nat /\ Owed(s) \in Nat /\ Times(s, stack) \in Nat
<1>1. Dropping(s) \in Nat
  <2>1. CASE todo # <<>>
    <3>1. Head(todo) \in GoodJob
      BY <2>1, HeadTailProperties DEF IInv
    <3>2. Times(s, Head(todo).vals) \in Nat
      BY <3>1, TimesFinite DEF GoodJob
    <3> QED
      BY <3>2 DEF Dropping
  <2>2. CASE todo = <<>>
    BY <2>2 DEF Dropping
  <2> QED
    BY <2>1, <2>2
<1>2. Owed(s) \in Nat
  BY DEF Owed, Once
<1>3. Times(s, stack) \in Nat
  BY TimesFinite DEF IInv
<1> QED
  BY <1>1, <1>2, <1>3

(* The same in every state of the invariant.                               *)
LEMMA BalanceTyped == IInv => \A x : Dropping(x) \in Nat /\ Owed(x) \in Nat
BY BalanceTypes

(* The counting still due after a value is counted.                        *)
LEMMA FinishKeeps ==
  ASSUME IInv, IInv', CountInv, status = "running", todo # <<>>,
         HeldStrings' = HeldStrings, NEW elems, Finish(Act, elems),
         Act = "drop" => elems = <<>>, IsString(Subject) => elems = <<>>
  PROVE  /\ TakesComeLast' /\ DropsAreLoose' /\ LastIsPushed'
         /\ \A s \in HeldStrings :
              /\ Act = "drop" => Dropping(s)' + Once(s, Subject) <= Dropping(s) /\ Owed(s)' = Owed(s)
              /\ Act = "take" => Dropping(s)' = 0 /\ Dropping(s) = 0
                                /\ Owed(s)' + Once(s, Subject) >= Owed(s)
<1> DEFINE m == Len(todo)
           T == Tail(Head(todo).vals)
<1>1. PICK n \in Nat :
        /\ m \in Nat \ {0} /\ DOMAIN todo = 1 .. m
        /\ Len(todo') = n + m - 1 /\ DOMAIN todo' = 1 .. n + m - 1
        /\ todo' # <<>> <=> n + m - 1 >= 1
        /\ Head(todo) = todo[1] /\ (todo' # <<>> => Head(todo') = todo'[1])
        /\ \A i \in 1 .. n : todo'[i].act = Act
        /\ \A i \in 1 .. m - 1 : todo'[n + i] = todo[i + 1]
        /\ elems = <<>> =>
             /\ n \in {0, 1}
             /\ n = 1 => todo'[1].vals = T
             /\ n = 0 => \A i \in DOMAIN T : ~IsCounted(T[i])
  BY QueueAfter
<1>2. TakesComeLast /\ DropsAreLoose /\ LastIsPushed
  BY DEF CountInv
<1>3. Act \in {"take", "drop"} /\ Act = todo[1].act
  BY <1>1, QueueGood DEF Act
<1>4. /\ Head(todo).vals \in Seq(Good) /\ Head(todo).vals # <<>> /\ T \in Seq(Good)
      /\ Subject = Head(Head(todo).vals)
  <2>1. Head(todo) \in GoodJob
    BY HeadTailProperties DEF IInv
  <2> QED
    BY <2>1, QueueGood DEF GoodJob, Subject
<1> HIDE DEF m, T
<1>5. Act = "take" => \A i \in 1 .. m : todo[i].act = "take"
  <2> SUFFICES ASSUME Act = "take", NEW i \in 1 .. m PROVE todo[i].act = "take"
    OBVIOUS
  <2>1. 1 \in DOMAIN todo /\ i \in DOMAIN todo /\ (i = 1 \/ 1 < i)
    BY <1>1
  <2> QED
    BY <1>2, <1>3, <2>1 DEF TakesComeLast
<1>6. \A i \in 1 .. n + m - 1 :
        \/ i <= n /\ todo'[i].act = Act
        \/ i > n /\ i - n + 1 \in 2 .. m /\ todo'[i] = todo[i - n + 1]
  <2> SUFFICES ASSUME NEW i \in 1 .. n + m - 1, ~(i <= n)
               PROVE  i > n /\ i - n + 1 \in 2 .. m /\ todo'[i] = todo[i - n + 1]
    BY <1>1
  <2>1. i > n /\ i - n + 1 \in 2 .. m /\ i - n \in 1 .. m - 1 /\ n + (i - n) = i
    BY <1>1
  <2> QED
    BY <1>1, <2>1
<1>7. TakesComeLast'
  <2> SUFFICES ASSUME NEW i \in DOMAIN todo', NEW j \in DOMAIN todo', i < j,
                      todo'[i].act = "take"
               PROVE  todo'[j].act = "take"
    BY DEF TakesComeLast
  <2>1. i \in 1 .. n + m - 1 /\ j \in 1 .. n + m - 1 /\ n \in Nat /\ m \in Nat
    BY <1>1
  <2>2. CASE i <= n
    <3>1. Act = "take"
      BY <1>1, <2>1, <2>2
    <3> QED
      BY <1>5, <1>6, <2>1, <3>1
  <2>3. CASE i > n
    <3>1. /\ i - n + 1 \in 2 .. m /\ todo'[i] = todo[i - n + 1]
          /\ j - n + 1 \in 2 .. m /\ todo'[j] = todo[j - n + 1] /\ i - n + 1 < j - n + 1
      BY <1>6, <2>1, <2>3
    <3>2. i - n + 1 \in DOMAIN todo /\ j - n + 1 \in DOMAIN todo
      BY <1>1, <3>1
    <3> QED
      BY <1>2, <3>1, <3>2 DEF TakesComeLast
  <2> QED
    BY <2>1, <2>2, <2>3
<1>8. Act = "take" => \A i \in 1 .. n + m - 1 : todo'[i].act = "take"
  BY <1>1, <1>5, <1>6
<1>9. todo' # <<>> => 1 \in 1 .. n + m - 1 /\ n + m - 1 \in 1 .. n + m - 1 /\ Act' = todo'[1].act
                     /\ LastJob' = todo'[n + m - 1]
  BY <1>1 DEF Act, LastJob
<1>10. todo' # <<>> /\ Act' = "drop" => Act = "drop"
  BY <1>3, <1>8, <1>9
<1>11. m > 1 => todo' # <<>> /\ LastJob' = LastJob
  <2>1. m > 1 => m - 1 \in 1 .. m - 1 /\ n + (m - 1) = n + m - 1 /\ m - 1 + 1 = m
                 /\ n + m - 1 >= 1
    BY <1>1
  <2>2. LastJob = todo[m]
    BY DEF LastJob, m
  <2> QED
    BY <1>1, <1>9, <2>1, <2>2
<1>12. DropsAreLoose'
  <2> SUFFICES ASSUME todo' # <<>>, Act' = "drop", NEW j \in 2 .. Len(todo'),
                      todo'[j].act = "drop"
               PROVE  StringsAmong(Range(todo'[j].vals)) \cap HeldStrings = {}
    BY DEF DropsAreLoose
  <2>1. Act = "drop" /\ n \in {0, 1} /\ j \in 1 .. n + m - 1 /\ j > n
    BY <1>1, <1>10
  <2>2. j - n + 1 \in 2 .. m /\ todo'[j] = todo[j - n + 1]
    BY <1>1, <1>6, <2>1
  <2> QED
    BY <1>2, <2>1, <2>2 DEF DropsAreLoose, m
<1>13. LastIsPushed'
  <2> SUFFICES ASSUME todo' # <<>>, Act' = "drop", LastJob'.act = "take"
               PROVE  stack' # <<>> /\ LastJob'.vals = <<stack'[Len(stack')]>>
    BY DEF LastIsPushed
  <2>1. Act = "drop" /\ stack' = stack /\ n \in {0, 1}
    BY <1>1, <1>10 DEF Finish
  <2>2. m > 1
    <3>1. CASE m = 1
      <4>1. n = 1 /\ n + m - 1 = 1
        BY <1>1, <2>1, <3>1
      <4> QED
        BY <1>9, <4>1
    <3> QED
      BY <1>1, <3>1
  <2> QED
    BY <1>2, <1>11, <2>1, <2>2 DEF LastIsPushed
<1>14. ASSUME NEW s \in HeldStrings, Act = "drop"
       PROVE  Dropping(s)' + Once(s, Subject) <= Dropping(s)
  <2>1. Dropping(s) = Once(s, Subject) + Times(s, T)
    <3>1. Dropping(s) = Times(s, Head(todo).vals)
      BY <1>14 DEF Dropping
    <3>2. Times(s, Head(todo).vals) = Once(s, Head(Head(todo).vals)) + Times(s, T)
      BY <1>4, TimesTail DEF T
    <3> QED
      BY <1>4, <3>1, <3>2
  <2>2. Times(s, T) \in Nat /\ Once(s, Subject) \in Nat
    BY <1>4, TimesFinite DEF Once
  <2>3. Dropping(s)' = 0 \/ Dropping(s)' = Times(s, T)
    <3>1. CASE todo' # <<>> /\ Act' = "drop"
      <4>1. Dropping(s)' = Times(s, todo'[1].vals)
        BY <1>1, <3>1 DEF Dropping
      <4>2. CASE n = 1
        BY <1>1, <1>14, <4>1, <4>2
      <4>3. CASE n = 0
        <5>1. 2 \in 2 .. m /\ todo'[1] = todo[2]
          BY <1>1, <1>6, <1>9, <3>1, <4>3
        <5>2. s \notin StringsAmong(Range(todo[2].vals))
          BY <1>2, <1>9, <1>14, <3>1, <5>1 DEF DropsAreLoose, m
        <5> QED
          BY <4>1, <5>1, <5>2, TimesNone
      <4> QED
        BY <1>1, <1>14, <4>2, <4>3
    <3>2. CASE ~(todo' # <<>> /\ Act' = "drop")
      BY <3>2 DEF Dropping
    <3> QED
      BY <3>1, <3>2
  <2> QED
    BY <2>1, <2>2, <2>3
<1>15. ASSUME NEW s \in HeldStrings
       PROVE  /\ m > 1 => Owed(s)' = Owed(s)
              /\ Act = "drop" => Owed(s)' = Owed(s)
              /\ Act = "take" => Owed(s)' + Once(s, Subject) >= Owed(s)
  <2>1. Owed(s) \in Nat /\ Owed(s)' \in Nat /\ Once(s, Subject) \in Nat
    BY DEF Owed, Once
  <2>2. CASE m > 1
    <3>1. Owed(s)' = Owed(s)
      BY <1>11, <2>2 DEF Owed
    <3> QED
      BY <2>1, <3>1
  <2>3. CASE m = 1
    <3>1. LastJob = todo[1] /\ LastJob = Head(todo) /\ LastJob.act = Act
      BY <1>1, <1>3, <2>3 DEF LastJob, m
    <3>2. CASE Act = "drop"
      <4>1. Owed(s) = 0
        BY <3>1, <3>2 DEF Owed
      <4>2. todo' # <<>> => LastJob'.act = "drop"
        BY <1>1, <1>9, <2>3, <3>2
      <4>3. Owed(s)' = 0
        BY <4>2 DEF Owed
      <4> QED
        BY <2>3, <3>2, <4>1, <4>3
    <3>3. CASE Act = "take"
      <4> DEFINE vals == Head(todo).vals
      <4>1. Len(vals) = 1 => vals[1] = Subject
        BY <1>4
      <4>2. Owed(s) <= Once(s, Subject)
        <5>1. Owed(s) = IF Len(vals) = 1 THEN Once(s, vals[1]) ELSE 0
          BY <3>1, <3>3 DEF Owed
        <5> HIDE DEF vals
        <5> QED
          BY <2>1, <4>1, <5>1
      <4> QED
        BY <2>1, <2>3, <3>3, <4>2
    <3> QED
      BY <1>3, <3>2, <3>3
  <2> QED
    BY <1>1, <2>2, <2>3
<1>16. ASSUME NEW s \in HeldStrings, Act = "take"
       PROVE  Dropping(s)' = 0 /\ Dropping(s) = 0
  <2>1. todo' # <<>> => Act' = "take"
    BY <1>8, <1>9, <1>16
  <2> QED
    BY <1>16, <2>1 DEF Dropping
<1> QED
  BY <1>7, <1>12, <1>13, <1>14, <1>15, <1>16

(* A counting step keeps the balance if it counts what it visits.          *)
LEMMA CountedKeeps ==
  ASSUME IInv, IInv', CountInv, status = "running", todo # <<>>,
         HeldStrings' = HeldStrings, NEW elems, Finish(Act, elems),
         Act = "drop" => elems = <<>>, IsString(Subject) => elems = <<>>,
         LiveCounted',
         \A s \in HeldStrings :
           /\ ~strs'[s].freed
           /\ Act = "take" => strs'[s].ref_count = strs[s].ref_count + Once(s, Subject)
           /\ Act = "drop" => strs'[s].ref_count = strs[s].ref_count - Once(s, Subject)
  PROVE  CountInv'
<1>1. Act \in {"take", "drop"} /\ stack' = stack
  BY QueueGood DEF Finish
<1>2. /\ TakesComeLast' /\ DropsAreLoose' /\ LastIsPushed'
      /\ \A s \in HeldStrings :
           /\ Act = "drop" => Dropping(s)' + Once(s, Subject) <= Dropping(s) /\ Owed(s)' = Owed(s)
           /\ Act = "take" => Dropping(s)' = 0 /\ Dropping(s) = 0
                             /\ Owed(s)' + Once(s, Subject) >= Owed(s)
  BY FinishKeeps
<1>3. ASSUME NEW s \in HeldStrings
      PROVE  Balanced(s)'
  <2>1. /\ Dropping(s) \in Nat /\ Owed(s) \in Nat /\ Times(s, stack) \in Nat
        /\ Once(s, Subject) \in Nat /\ strs[s].ref_count \in Int
    BY BalanceTypes, HeldLocated DEF Once
  <2>2. Dropping(s)' \in Nat /\ Owed(s)' \in Nat
    <3>1. (\A x : Dropping(x) \in Nat /\ Owed(x) \in Nat)'
      BY BalanceTyped, PTL
    <3> QED
      BY <3>1
  <2>3. strs[s].ref_count + Owed(s) >= 1 + Times(s, stack) + Dropping(s)
    BY DEF CountInv, Balanced
  <2>4. CASE Act = "take"
    <3>1. /\ Dropping(s)' = 0 /\ Dropping(s) = 0 /\ Owed(s)' + Once(s, Subject) >= Owed(s)
          /\ strs'[s].ref_count = strs[s].ref_count + Once(s, Subject)
      BY <1>2, <2>4
    <3>2. strs'[s].ref_count + Owed(s)' >= 1 + Times(s, stack) + Dropping(s)'
      BY <2>1, <2>2, <2>3, <3>1
    <3> QED
      BY <1>1, <3>2 DEF Balanced
  <2>5. CASE Act = "drop"
    <3>1. /\ Dropping(s)' + Once(s, Subject) <= Dropping(s) /\ Owed(s)' = Owed(s)
          /\ strs'[s].ref_count = strs[s].ref_count - Once(s, Subject)
      BY <1>2, <2>5
    <3>2. strs'[s].ref_count + Owed(s)' >= 1 + Times(s, stack) + Dropping(s)'
      BY <2>1, <2>2, <2>3, <3>1
    <3> QED
      BY <1>1, <3>2 DEF Balanced
  <2> QED
    BY <1>1, <2>4, <2>5
<1> QED
  BY <1>2, <1>3 DEF CountInv

(* Counting leaves the values where they are.                              *)
LEMMA HeldStays ==
  ASSUME UNCHANGED <<stack, locals>>, DOMAIN arrs' = DOMAIN arrs,
         \A a \in DOMAIN arrs : arrs'[a].arr_val = arrs[a].arr_val
  PROVE  HeldStrings' = HeldStrings
<1>1. UNION {Range(arrs'[a].arr_val) : a \in DOMAIN arrs'}
        = UNION {Range(arrs[a].arr_val) : a \in DOMAIN arrs}
  OBVIOUS
<1>2. HeldValues' = HeldValues
  BY <1>1 DEF HeldValues
<1> QED
  BY <1>2 DEF HeldStrings

(* While pops are counted down, a string on top of the stack that has yet  *)
(* to be counted up is on the stack.                                       *)
LEMMA OwedIsOnStack ==
  ASSUME IInv, CountInv, status = "running", todo # <<>>, Act = "drop", NEW s
  PROVE  Owed(s) <= Times(s, stack)
<1>1. Times(s, stack) \in Nat /\ Owed(s) \in {0, 1}
  BY BalanceTypes DEF Owed, Once
<1>2. CASE Owed(s) = 1
  <2>1. LastJob.act = "take" /\ Once(s, LastJob.vals[1]) = 1
    BY <1>2 DEF Owed
  <2>2. stack # <<>> /\ LastJob.vals = <<stack[Len(stack)]>>
    BY <2>1 DEF CountInv, LastIsPushed
  <2>3. Once(s, stack[Len(stack)]) = 1
    BY <2>1, <2>2
  <2>4. Len(stack) \in DOMAIN stack
    BY <2>2, LenProperties DEF IInv
  <2>5. Len(stack) \in Places(s, stack)
    BY <2>3, <2>4 DEF Once, Places
  <2>6. IsFiniteSet(Places(s, stack)) /\ Times(s, stack) = Cardinality(Places(s, stack))
    BY TimesFinite DEF IInv
  <2>7. Cardinality(Places(s, stack)) # 0
    BY <2>5, <2>6, FS_EmptySet
  <2> QED
    BY <1>1, <1>2, <2>6, <2>7
<1>3. CASE Owed(s) = 0
  BY <1>1, <1>3
<1> QED
  BY <1>1, <1>2, <1>3

(* Every counting step.                                                    *)
LEMMA CountKeeps ==
  ASSUME IInv, IInv', CountInv, Count
  PROVE  CountInv'
<1> USE DEF Counting, HeapUnchanged
<1>1. /\ \A s \in HeldStrings : s \in DOMAIN strs /\ ~strs[s].freed
      /\ \A s \in DOMAIN strs : strs[s] \in StringValue /\ strs[s].ref_count \in Int
      /\ status = "running" => \A s \in HeldStrings : Balanced(s)
  <2>1. status = "running"
    BY DEF Count, Skip, increment_ref, decrement_ref, increment_ref_arr, decrement_ref_arr, Dangle
  <2> QED
    BY <2>1, HeldLocated DEF CountInv, Balanced
<1>2. ASSUME strs' = strs, status = "running", ~IsString(Subject)
      PROVE  /\ LiveCounted'
             /\ \A s \in HeldStrings :
                  /\ ~strs'[s].freed
                  /\ Act = "take" => strs'[s].ref_count = strs[s].ref_count + Once(s, Subject)
                  /\ Act = "drop" => strs'[s].ref_count = strs[s].ref_count - Once(s, Subject)
  <2>1. \A s : Once(s, Subject) = 0
    BY <1>2 DEF Once
  <2>2. LiveCounted'
    BY <1>2 DEF CountInv, LiveCounted
  <2> QED
    BY <1>1, <1>2, <2>1, <2>2
<1>3. CASE Skip
  <2>1. status = "running" /\ todo # <<>> /\ ~IsString(Subject) /\ Finish(Act, <<>>)
        /\ UNCHANGED <<strs, arrs>>
    BY <1>3 DEF Skip, IsCounted
  <2>2. HeldStrings' = HeldStrings
    BY <2>1, HeldStays DEF Finish
  <2> QED
    BY <1>2, <2>1, <2>2, CountedKeeps
<1>4. CASE increment_ref
  <2> DEFINE t == Subject.val
  <2>1. /\ status = "running" /\ todo # <<>> /\ IsString(Subject) /\ Finish(Act, <<>>)
        /\ Act = "take" /\ arrs' = arrs
        /\ strs' = [strs EXCEPT ![t].ref_count = @ + 1]
    BY <1>4 DEF increment_ref
  <2>2. HeldStrings' = HeldStrings
    BY <2>1, HeldStays DEF Finish
  <2>3. Subject \in Good /\ t \in DOMAIN strs
    BY <2>1, QueueGood, HeldLocated
  <2>4. \A s \in DOMAIN strs :
          /\ strs'[s].freed = strs[s].freed
          /\ strs'[s].ref_count = strs[s].ref_count + Once(s, Subject)
    <3> TAKE s \in DOMAIN strs
    <3>1. strs[s] \in StringValue /\ strs[s].ref_count \in Int
      BY <1>1
    <3>2. CASE s = t
      <4>1. strs'[s] = [strs[s] EXCEPT !.ref_count = strs[s].ref_count + 1]
        BY <2>1, <2>3, <3>2
      <4>2. Once(s, Subject) = 1
        BY <2>1, <3>2 DEF Once
      <4> QED
        BY <3>1, <4>1, <4>2 DEF StringValue
    <3>3. CASE s # t
      <4>1. strs'[s] = strs[s]
        BY <2>1, <2>3, <3>3
      <4>2. Once(s, Subject) = 0
        BY <3>3 DEF Once
      <4> QED
        BY <3>1, <4>1, <4>2
    <3> QED
      BY <3>2, <3>3
  <2>5. LiveCounted'
    <3>1. \A s \in DOMAIN strs : strs[s].freed \/ strs[s].ref_count >= 1
      BY <2>1 DEF CountInv, LiveCounted
    <3>2. \A s \in DOMAIN strs : Once(s, Subject) \in Nat /\ strs[s].ref_count \in Int
      BY <1>1 DEF Once
    <3>3. DOMAIN strs' = DOMAIN strs
      BY <2>1
    <3> QED
      BY <2>4, <3>1, <3>2, <3>3 DEF LiveCounted
  <2>6. \A s \in HeldStrings :
          /\ ~strs'[s].freed
          /\ Act = "take" => strs'[s].ref_count = strs[s].ref_count + Once(s, Subject)
          /\ Act = "drop" => strs'[s].ref_count = strs[s].ref_count - Once(s, Subject)
    BY <1>1, <2>1, <2>4
  <2> QED
    BY <2>1, <2>2, <2>5, <2>6, CountedKeeps
<1>5. CASE decrement_ref
  <2> DEFINE t == Subject.val
             cell == strs[t]
  <2>1. /\ status = "running" /\ todo # <<>> /\ IsString(Subject) /\ Finish(Act, <<>>)
        /\ Act = "drop" /\ arrs' = arrs /\ ~cell.freed
        /\ strs' = [strs EXCEPT ![t] = Dropped(cell)]
    BY <1>5 DEF decrement_ref, FreedString
  <2>2. HeldStrings' = HeldStrings
    BY <2>1, HeldStays DEF Finish
  <2>3. Subject \in Good /\ t \in DOMAIN strs
    BY <2>1, QueueGood, HeldLocated
  <2>4. cell \in StringValue /\ cell.ref_count \in Int
    BY <1>1, <2>3
  <2>5. cell.ref_count >= 1
    BY <2>1, <2>3 DEF CountInv, LiveCounted
  <2>6. Dropped(cell).ref_count = cell.ref_count - 1
        /\ (Dropped(cell).freed <=> cell.ref_count = 1)
    <3> HIDE DEF cell
    <3>1. DOMAIN cell = {"text", "ref_count", "freed"}
      BY <2>4 DEF StringValue
    <3> QED
      BY <3>1 DEF Dropped
  <2>7. DOMAIN strs' = DOMAIN strs /\ strs'[t] = Dropped(cell)
        /\ \A s \in DOMAIN strs : s # t => strs'[s] = strs[s]
    BY <2>1, <2>3
  <2> HIDE DEF cell
  <2>8. LiveCounted'
    <3>1. \A s \in DOMAIN strs : strs[s].freed \/ strs[s].ref_count >= 1
      BY <2>1 DEF CountInv, LiveCounted
    <3>2. Dropped(cell).freed \/ Dropped(cell).ref_count >= 1
      BY <2>4, <2>5, <2>6
    <3> QED
      BY <2>7, <3>1, <3>2 DEF LiveCounted
  <2>9. ASSUME NEW s \in HeldStrings
        PROVE  /\ ~strs'[s].freed
               /\ strs'[s].ref_count = strs[s].ref_count - Once(s, Subject)
    <3>1. CASE s # t
      <4>1. Once(s, Subject) = 0
        BY <3>1 DEF Once
      <4> QED
        BY <1>1, <2>7, <3>1, <4>1
    <3>2. CASE s = t
      <4>1. Once(s, Subject) = 1
        BY <2>1, <3>2 DEF Once
      <4>2. strs[s] = cell
        BY <3>2 DEF cell
      <4>3. cell.ref_count + Owed(s) >= 1 + Times(s, stack) + Dropping(s)
        BY <1>1, <2>1, <4>2 DEF Balanced
      <4>4. Owed(s) <= Times(s, stack)
        BY <2>1, OwedIsOnStack
      <4>5. Dropping(s) >= 1
        <5>1. Head(todo).vals \in Seq(Good) /\ Head(todo).vals # <<>>
          <6>1. Head(todo) \in GoodJob
            BY <2>1, HeadTailProperties DEF IInv
          <6> QED
            BY <6>1 DEF GoodJob
        <5>2. Dropping(s) = Times(s, Head(todo).vals)
          BY <2>1 DEF Dropping
        <5>3. Times(s, Head(todo).vals) = Once(s, Subject) + Times(s, Tail(Head(todo).vals))
          BY <5>1, TimesTail DEF Subject
        <5>4. Times(s, Tail(Head(todo).vals)) \in Nat
          BY <2>1, QueueGood, TimesFinite
        <5> QED
          BY <4>1, <5>2, <5>3, <5>4
      <4>6. Dropping(s) \in Nat /\ Owed(s) \in Nat /\ Times(s, stack) \in Nat
        BY BalanceTypes
      <4>7. cell.ref_count # 1
        BY <2>4, <4>3, <4>4, <4>5, <4>6
      <4> QED
        BY <2>6, <2>7, <3>2, <4>1, <4>2, <4>7
    <3> QED
      BY <3>1, <3>2
  <2> QED
    BY <2>1, <2>2, <2>8, <2>9, CountedKeeps
<1>6. CASE increment_ref_arr
  <2> DEFINE a == Subject.val
             elems == arrs[a].arr_val
  <2>1. /\ status = "running" /\ todo # <<>> /\ IsArray(Subject) /\ Finish(Act, elems)
        /\ Act = "take" /\ strs' = strs
        /\ arrs' = [arrs EXCEPT ![a].ref_count = IF @ # 0 THEN @ + 1 ELSE @]
    BY <1>6 DEF increment_ref_arr
  <2>2. ~IsString(Subject)
    BY <2>1 DEF IsString, IsArray
  <2>3. \A b \in DOMAIN arrs : arrs'[b].arr_val = arrs[b].arr_val
    <3>1. \A b \in DOMAIN arrs : arrs[b] \in ArrayValue
      BY ElementOfSeq, LenProperties DEF IInv
    <3> QED
      BY <2>1, <3>1 DEF ArrayValue
  <2>4. HeldStrings' = HeldStrings
    BY <2>1, <2>3, HeldStays DEF Finish
  <2> HIDE DEF elems
  <2> QED
    BY <1>2, <2>1, <2>2, <2>4, CountedKeeps
<1>7. CASE decrement_ref_arr
  <2> DEFINE a == Subject.val
             old == arrs[a]
  <2>1. /\ status = "running" /\ todo # <<>> /\ IsArray(Subject)
        /\ Finish("drop", IF old.ref_count = 1 THEN old.arr_val ELSE <<>>)
        /\ Act = "drop" /\ strs' = strs /\ arrs' = [arrs EXCEPT ![a] = Dropped(old)]
    BY <1>7 DEF decrement_ref_arr
  <2>2. ~IsString(Subject)
    BY <2>1 DEF IsString, IsArray
  <2>3. a \in DOMAIN arrs /\ old \in ArrayValue /\ old.ref_count <= 0
    <3>1. a \in DOMAIN arrs
      BY <2>1, QueueGood DEF Good, Pointing, Located
    <3> QED
      BY <3>1, ElementOfSeq, LenProperties DEF IInv, ArraysStayAllocated
  <2>4. old.ref_count # 1
    <3>1. old.ref_count \in Int
      <4> HIDE DEF old
      <4> QED
        BY <2>3 DEF ArrayValue
    <3> HIDE DEF old
    <3> QED
      BY <2>3, <3>1
  <2>5. Finish(Act, <<>>)
    BY <2>1, <2>4
  <2>6. Dropped(old).arr_val = old.arr_val
    <3>1. DOMAIN old = {"arr_val", "capacity", "ref_count", "freed"}
      <4> HIDE DEF old
      <4> QED
        BY <2>3 DEF ArrayValue
    <3> HIDE DEF old
    <3> QED
      BY <3>1 DEF Dropped
  <2>7. DOMAIN arrs' = DOMAIN arrs /\ \A b \in DOMAIN arrs : arrs'[b].arr_val = arrs[b].arr_val
    BY <2>1, <2>3, <2>6
  <2>8. HeldStrings' = HeldStrings
    BY <2>5, <2>7, HeldStays DEF Finish
  <2> QED
    BY <1>2, <2>1, <2>2, <2>5, <2>8, CountedKeeps
<1>8. CASE Dangle
  BY <1>8 DEF Dangle, CountInv
<1> QED
  BY <1>3, <1>4, <1>5, <1>6, <1>7, <1>8 DEF Count

-----------------------------------------------------------------------------
(* Every step of the machine.                                              *)

(* vm_init holds no string yet.                                            *)
LEMMA StartKeeps ==
  ASSUME Fresh, ImagesCounted, NEW img \in Images, vm_init(img)
  PROVE  CountInv'
<1>1. /\ stack' = <<>> /\ arrs' = <<>> /\ todo' = <<>> /\ strs' = img.strs
      /\ locals' = [i \in 1 .. img.num_locals |-> Garbage]
  BY DEF vm_init, Fresh
<1>2. HeldValues' \subseteq {Garbage}
  BY <1>1 DEF HeldValues, Range
<1>3. ~IsString(Garbage)
  BY DEF Garbage, IsString, unknown_type, Scalar
<1>4. HeldStrings' = {}
  BY <1>2, <1>3 DEF HeldStrings, StringsAmong
<1>5. LiveCounted'
  BY <1>1 DEF ImagesCounted, LiveCounted
<1>6. TakesComeLast' /\ DropsAreLoose' /\ LastIsPushed'
  BY <1>1 DEF TakesComeLast, DropsAreLoose, LastIsPushed
<1> QED
  BY <1>4, <1>5, <1>6 DEF CountInv

(* The invariant after a step that changes nothing but the status.         *)
LEMMA SameCounts ==
  ASSUME CountInv, status \in {"running", "halted"}, UNCHANGED <<stack, locals, strs, arrs, todo>>
  PROVE  CountInv'
<1>1. HeldValues' = HeldValues
  BY DEF HeldValues
<1>2. HeldStrings' = HeldStrings
  BY <1>1 DEF HeldStrings
<1>3. LiveCounted' /\ TakesComeLast'
  BY DEF CountInv, LiveCounted, TakesComeLast
<1>4. Act' = Act /\ LastJob' = LastJob
  BY DEF Act, LastJob
<1>5. DropsAreLoose' /\ LastIsPushed'
  BY <1>2, <1>4 DEF CountInv, DropsAreLoose, LastIsPushed
<1>6. \A s : Dropping(s)' = Dropping(s) /\ Owed(s)' = Owed(s)
  BY <1>4 DEF Dropping, Owed
<1>7. \A s \in HeldStrings' : Balanced(s)'
  BY <1>2, <1>6 DEF CountInv, Balanced
<1> QED
  BY <1>3, <1>5, <1>7 DEF CountInv

(* No step that takes care leaves the invariant.                           *)
LEMMA StepKeepsCounts ==
  ASSUME IInv, Fresh, IInv', ImagesCounted, CountInv, [Next]_vars, [KeepsHeld]_vars
  PROVE  CountInv'
<1>1. CASE UNCHANGED vars
  <2>1. CASE status \in {"running", "halted"}
    BY <1>1, <2>1, SameCounts DEF vars
  <2>2. CASE status \notin {"running", "halted"}
    BY <1>1, <2>2 DEF vars, CountInv
  <2> QED
    BY <2>1, <2>2
<1>2. CASE Next /\ KeepsHeld
  <2>1. CASE \E img \in Images : vm_init(img)
    BY <2>1, StartKeeps
  <2>2. CASE Instruction
    <3>1. CASE PushConst \/ PushBool \/ Load
      BY <1>2, <3>1, PushesKeep
    <3>2. CASE IntOp \/ Compare \/ Negate \/ Not
      BY <3>2, ComputesKeep
    <3>3. CASE CompoundStore \/ Store \/ Jump
      BY <3>3, StoresKeep
    <3>4. CASE PushArray
      BY <3>4, PushArrayKeeps
    <3>5. CASE Concat
      BY <1>2, <3>5, ConcatKeeps
    <3>6. CASE ArrLoadIdx
      BY <3>6, ArrLoadIdxKeeps
    <3>7. CASE ArrStoreIdx
      BY <3>7, ArrStoreIdxKeeps
    <3>8. CASE ArrAppend
      BY <3>8, ArrAppendKeeps
    <3> QED
      BY <2>2, <3>1, <3>2, <3>3, <3>4, <3>5, <3>6, <3>7, <3>8 DEF Instruction
  <2>3. CASE Count
    BY <2>3, CountKeeps
  <2>4. CASE Abort
    <3>1. status = "running" /\ UNCHANGED <<stack, locals, strs, arrs, todo>>
      BY <2>4 DEF Abort, Ready
    <3> QED
      BY <3>1, SameCounts
  <2>5. CASE Halt
    <3>1. status = "running" /\ UNCHANGED <<stack, locals, strs, arrs, todo>>
      BY <2>5 DEF Halt
    <3> QED
      BY <3>1, SameCounts
  <2>6. CASE vm_free
    <3>1. status' \in {"freed", "double free"}
      BY <2>6, Zenon DEF vm_free
    <3> QED
      BY <3>1 DEF CountInv
  <2> QED
    BY <1>2, <2>1, <2>2, <2>3, <2>4, <2>5, <2>6 DEF Next
<1> QED
  BY <1>1, <1>2

(* Between and during the counting, the count of every held string covers  *)
(* its places on the stack and what is still to be counted down (CountInv):*)
(* the pops and pushes of vm_run, increment_ref and decrement_ref lose     *)
(* nothing, as long as no freed constant is pushed again and SCONCAT gets  *)
(* operands nothing else holds.                                            *)
THEOREM CountsBalance ==
  ASSUME ImagesCounted
  PROVE  Spec /\ [][KeepsHeld]_vars => []CountInv
<1>1. Init => CountInv
  BY DEF Init, CountInv
<1>2. IInv /\ Fresh /\ IInv' /\ CountInv /\ [Next]_vars /\ [KeepsHeld]_vars => CountInv'
  BY StepKeepsCounts
<1> QED
  BY <1>1, <1>2, Inductive, PTL DEF Spec

(* However a program moves its strings between stack, variables and        *)
(* arrays, none is freed while something holds it, if every string starts  *)
(* counted once (emit_push_string) and the two steps that count wrongly    *)
(* are given nothing to get wrong.                                         *)
THEOREM HeldStringsAreCounted ==
  ASSUME ImagesCounted
  PROVE  Spec /\ [][KeepsHeld]_vars => []StringsAreCounted
<1>1. IInv /\ CountInv => StringsAreCounted
  <2> SUFFICES ASSUME IInv, CountInv, status \in {"running", "halted"}, todo = <<>>,
                      NEW s \in HeldStrings
               PROVE  ~strs[s].freed /\ strs[s].ref_count >= 1 + Times(s, stack)
    BY DEF StringsAreCounted
  <2>1. Balanced(s)
    BY DEF CountInv
  <2>2. Owed(s) = 0 /\ Dropping(s) = 0
    BY DEF Owed, Dropping
  <2>3. strs[s].ref_count \in Int /\ Times(s, stack) \in Nat
    BY HeldLocated, BalanceTypes
  <2> QED
    BY <2>1, <2>2, <2>3 DEF Balanced
<1> QED
  BY <1>1, CountsBalance, Inductive, PTL
=============================================================================
