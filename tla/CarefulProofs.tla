---------------------------- MODULE CarefulProofs ----------------------------
(***************************************************************************)
(* Theorems about what the reference counts mean to a program: where it    *)
(* takes care of them nothing freed is touched, and none ever sees them.   *)
(***************************************************************************)
EXTENDS ValueView, RefCountProofs

-----------------------------------------------------------------------------
(* No freed cell is touched: the invariant while the counting of an        *)
(* instruction is under way.                                               *)

(* What the second round of a concatenation has still to count down of     *)
(* string s.                                                               *)
Again(s) ==
  IF Len(todo) >= 2 /\ todo[2].act = "drop" THEN Times(s, todo[2].vals) ELSE 0

TwoRounds == \A j \in 3 .. Len(todo) : todo[j].act = "take"

(* While pops are counted down, every string among them, held or not, has  *)
(* a count for each time that is still to be done.                         *)
DropsCovered ==
  todo # <<>> /\ Act = "drop" =>
    \A s \in DOMAIN strs :
      Dropping(s) + Again(s) > 0 =>
        ~strs[s].freed /\ strs[s].ref_count >= Dropping(s) + Again(s)

(* Only what is held is counted up.                                        *)
TakesHeld ==
  \A j \in DOMAIN todo : todo[j].act = "take" => Range(todo[j].vals) \subseteq HeldValues

(* NothingDangles is inductive with what the queue may still touch.        *)
DangleInv ==
  /\ NothingDangles
  /\ status = "running" => TwoRounds /\ DropsCovered /\ TakesHeld

-----------------------------------------------------------------------------
(* Two sequences of one make one of two.                                   *)
LEMMA PairOf ==
  ASSUME NEW S, NEW v \in S, NEW w \in S
  PROVE  <<v>> \o <<w>> = <<v, w>>
<1>1. <<v>> \in Seq(S) /\ <<w>> \in Seq(S) /\ <<v, w>> \in Seq(S)
  OBVIOUS
<1>2. Len(<<v>>) = 1 /\ Len(<<w>>) = 1 /\ Len(<<v, w>>) = 2
  OBVIOUS
<1>3. /\ <<v>> \o <<w>> \in Seq(S) /\ Len(<<v>> \o <<w>>) = 2
      /\ \A i \in 1 .. 2 : (<<v>> \o <<w>>)[i] = IF i <= 1 THEN <<v>>[i] ELSE <<w>>[i - 1]
  BY <1>1, <1>2, ConcatProperties
<1>4. \A i \in 1 .. 2 : (<<v>> \o <<w>>)[i] = <<v, w>>[i]
  BY <1>3
<1> QED
  BY <1>1, <1>2, <1>3, <1>4, SeqEqual

(* How often a string is among two values.                                 *)
LEMMA TimesPair ==
  ASSUME NEW S, NEW v \in S, NEW w \in S, NEW s
  PROVE  Times(s, <<v, w>>) = Once(s, v) + Once(s, w)
<1>1. <<v>> \in Seq(S) /\ <<w>> \in Seq(S)
  OBVIOUS
<1>2. Times(s, <<v>> \o <<w>>) = Times(s, <<v>>) + Times(s, <<w>>)
  BY ONLY <1>1, TimesConcat
<1>3. Times(s, <<v>>) = Once(s, v) /\ Times(s, <<w>>) = Once(s, w)
  BY TimesOne
<1>4. <<v>> \o <<w>> = <<v, w>>
  BY PairOf
<1> QED
  BY <1>2, <1>3, <1>4

(* What is left to count down, and up, after an instruction: its pops, the *)
(* second round of a concatenation, its push.                              *)
LEMMA QueueCounts ==
  ASSUME NEW popped \in Seq(Good), NEW v, NEW pushed \in {<<>>, <<v>>},
         NEW loose \in Seq(Good), NEW extra \in {<<>>, <<[act |-> "drop", vals |-> loose]>>},
         todo' = Work("drop", popped) \o extra \o Work("take", pushed)
  PROVE  /\ TwoRounds'
         /\ \A s : /\ Dropping(s)' \in Nat /\ Again(s)' \in Nat
                   /\ Dropping(s)' + Again(s)' <= Times(s, popped) + Times(s, loose)
         /\ \A j \in DOMAIN todo' : todo'[j].act = "take" => pushed = <<v>> /\ todo'[j].vals = <<v>>
<1> DEFINE d == [act |-> "drop", vals |-> popped]
           e == [act |-> "drop", vals |-> loose]
           t == [act |-> "take", vals |-> <<v>>]
           D == Work("drop", popped)
           T == Work("take", pushed)
           q == todo'
<1>1. d.act = "drop" /\ e.act = "drop" /\ t.act = "take" /\ d.vals = popped /\ e.vals = loose
      /\ t.vals = <<v>>
  OBVIOUS
<1>2. D \in {<<>>, <<d>>} /\ extra \in {<<>>, <<e>>} /\ T \in {<<>>, <<t>>}
      /\ (T = <<t>> => pushed = <<v>>)
  BY DEF Work
<1>3. q = D \o extra \o T
  OBVIOUS
<1> HIDE DEF d, e, t, D, T
<1>4. PICK nd, ne, nt \in {0, 1} :
         /\ q \in Seq({d, e, t}) /\ Len(q) = nd + ne + nt /\ DOMAIN q = 1 .. nd + ne + nt
         /\ (D = <<d>> <=> nd = 1) /\ (extra = <<e>> <=> ne = 1) /\ (T = <<t>> <=> nt = 1)
         /\ \A i \in 1 .. nd : q[i] = d
         /\ \A i \in nd + 1 .. nd + ne : q[i] = e
         /\ \A i \in nd + ne + 1 .. nd + ne + nt : q[i] = t
  <2>1. Lined(d, e, t, D, extra, T, D \o extra \o T)
    BY <1>2, QueuePlaces, Zenon
  <2>2. Lined(d, e, t, D, extra, T, q)
    BY <1>3, <2>1, Zenon
  <2> QED
    BY <2>2 DEF Lined
<1>5. \A j \in 3 .. Len(q) : q[j] = t
  BY <1>4
<1>6. TwoRounds'
  BY <1>1, <1>5 DEF TwoRounds, q
<1> HIDE DEF q
<1>7. \A j \in DOMAIN q : q[j].act = "take" => pushed = <<v>> /\ q[j].vals = <<v>>
  <2>1. ASSUME NEW j \in DOMAIN q PROVE q[j] = d \/ q[j] = e \/ (q[j] = t /\ nt = 1)
    <3>1. j \in 1 .. nd + ne + nt
      BY <1>4
    <3>2. j \in 1 .. nd \/ j \in nd + 1 .. nd + ne \/ (j \in nd + ne + 1 .. nd + ne + nt /\ nt = 1)
      BY <3>1
    <3> QED
      BY <1>4, <3>2
  <2> QED
    BY <1>1, <1>2, <1>4, <2>1
<1>8. q = <<>> \/ (Len(q) >= 1 /\ Head(q) = q[1])
  BY <1>4
<1>9. ASSUME NEW s
      PROVE  /\ Dropping(s)' \in Nat /\ Again(s)' \in Nat
             /\ Dropping(s)' + Again(s)' <= Times(s, popped) + Times(s, loose)
  <2>1. Times(s, popped) \in Nat /\ Times(s, loose) \in Nat
    BY TimesFinite
  <2>2. Dropping(s)' = IF q # <<>> /\ Head(q).act = "drop" THEN Times(s, Head(q).vals) ELSE 0
    BY DEF Dropping, Act, q
  <2>3. Again(s)' = IF Len(q) >= 2 /\ q[2].act = "drop" THEN Times(s, q[2].vals) ELSE 0
    BY DEF Again, q
  <2> DEFINE a == Times(s, popped)
             b == Times(s, loose)
  <2>4. Times(s, d.vals) = a /\ Times(s, e.vals) = b
    BY <1>1
  <2> HIDE DEF a, b
  <2>5. /\ nd = 1 => q # <<>> /\ q[1] = d
        /\ nd = 0 /\ ne = 1 => q # <<>> /\ q[1] = e
        /\ nd = 0 /\ ne = 0 => q = <<>> \/ q[1] = t
        /\ nd = 1 /\ ne = 1 => Len(q) >= 2 /\ q[2] = e
        /\ ~(nd = 1 /\ ne = 1) => Len(q) < 2 \/ q[2] = t
    <3>1. Len(q) = nd + ne + nt /\ (q = <<>> <=> Len(q) = 0)
      BY <1>4
    <3>2. /\ nd = 1 => 1 \in 1 .. nd
          /\ nd = 0 /\ ne = 1 => 1 \in nd + 1 .. nd + ne
          /\ nd = 0 /\ ne = 0 /\ Len(q) # 0 => 1 \in nd + ne + 1 .. nd + ne + nt
          /\ nd = 1 /\ ne = 1 => Len(q) >= 2 /\ 2 \in nd + 1 .. nd + ne
          /\ ~(nd = 1 /\ ne = 1) /\ ~(Len(q) < 2) => 2 \in nd + ne + 1 .. nd + ne + nt
      BY <3>1
    <3> QED
      BY <1>4, <3>1, <3>2
  <2>6. /\ Dropping(s)' = IF nd = 1 THEN a ELSE IF ne = 1 THEN b ELSE 0
        /\ Again(s)' = IF nd = 1 /\ ne = 1 THEN b ELSE 0
    BY <1>1, <1>8, <2>2, <2>3, <2>4, <2>5
  <2>7. a \in Nat /\ b \in Nat
    BY <2>1 DEF a, b
  <2>8. Dropping(s)' \in Nat /\ Again(s)' \in Nat /\ Dropping(s)' + Again(s)' <= a + b
    BY <2>6, <2>7
  <2> QED
    BY <2>8 DEF a, b
<1> QED
  BY <1>6, <1>7, <1>9 DEF q

(* An instruction leaves no more to count down than is counted: what it    *)
(* pops once, and what it drops once more at most once.                    *)
LEMMA ReplaceCovers ==
  ASSUME IInv, CountInv, status = "running", todo = <<>>, Arity \in Nat, Arity <= Len(stack),
         NEW v, NEW pushed \in {<<>>, <<v>>}, NEW loose \in Seq(Good),
         NEW extra \in {<<>>, <<[act |-> "drop", vals |-> loose]>>},
         Replace(pushed, extra),
         Range(loose) \subseteq HeldValues, \A s : Times(s, loose) <= 1,
         \A s \in DOMAIN strs : strs'[s] = strs[s]
  PROVE  TwoRounds' /\ DropsCovered' /\ TakesHeld'
<1>1. AllPopped \in Seq(Good) /\ stack \in Seq(Good)
  BY PoppedGood DEF IInv
<1>2. /\ TwoRounds'
      /\ \A s : /\ Dropping(s)' \in Nat /\ Again(s)' \in Nat
                /\ Dropping(s)' + Again(s)' <= Times(s, AllPopped) + Times(s, loose)
      /\ \A j \in DOMAIN todo' : todo'[j].act = "take" => pushed = <<v>> /\ todo'[j].vals = <<v>>
  <2>1. todo' = Work("drop", AllPopped) \o extra \o Work("take", pushed)
    BY DEF Replace
  <2> QED
    BY ONLY <1>1, <2>1, QueueCounts, pushed \in {<<>>, <<v>>}, loose \in Seq(Good),
            extra \in {<<>>, <<[act |-> "drop", vals |-> loose]>>}
<1>3. TakesHeld'
  <2> SUFFICES ASSUME NEW j \in DOMAIN todo', todo'[j].act = "take"
               PROVE  Range(todo'[j].vals) \subseteq HeldValues'
    BY DEF TakesHeld
  <2>1. pushed = <<v>> /\ todo'[j].vals = <<v>>
    BY <1>2
  <2>2. v \in Range(stack')
    BY <2>1, PushedOnTop
  <2>3. Range(<<v>>) = {v}
    BY DEF Range
  <2> QED
    BY <2>1, <2>2, <2>3 DEF HeldValues
<1>4. ASSUME NEW s, Dropping(s)' + Again(s)' > 0
      PROVE  s \in DOMAIN strs /\ ~strs[s].freed
  <2>1. Times(s, AllPopped) \in Nat /\ Times(s, loose) \in Nat
    BY <1>1, TimesFinite
  <2>2. Times(s, AllPopped) # 0 \/ Times(s, loose) # 0
    BY <1>2, <1>4, <2>1
  <2>3. Range(AllPopped) \subseteq HeldValues
    <3>1. \A i \in 1 .. Arity : Popped(i) \in HeldValues
      BY StackAfter
    <3> QED
      BY <3>1 DEF AllPopped, Range
  <2>4. s \in StringsAmong(HeldValues)
    <3>1. s \in StringsAmong(Range(AllPopped)) \/ s \in StringsAmong(Range(loose))
      BY <2>2, TimesNone
    <3> QED
      BY <2>3, <3>1 DEF StringsAmong
  <2>5. PICK w \in HeldValues : IsString(w) /\ w.val = s
    BY <2>4 DEF StringsAmong
  <2> QED
    BY <2>5, HeldAlive
<1>5. DropsCovered'
  <2> SUFFICES ASSUME NEW s \in DOMAIN strs', Dropping(s)' + Again(s)' > 0
               PROVE  ~strs'[s].freed /\ strs'[s].ref_count >= Dropping(s)' + Again(s)'
    BY DEF DropsCovered
  <2>1. s \in DOMAIN strs /\ ~strs[s].freed /\ strs'[s] = strs[s]
    BY <1>4
  <2>2. strs[s].ref_count \in Int /\ strs[s].ref_count >= 1 + Times(s, stack)
        /\ Times(s, stack) \in Nat
    BY <2>1, LiveStrings
  <2>3. /\ Times(s, stack) = Times(s, Rest) + Times(s, AllPopped)
        /\ Times(s, Rest) \in Nat /\ Times(s, AllPopped) \in Nat /\ Times(s, loose) \in Nat
    BY <1>1, TimesPopped, TimesFinite, PoppedGood
  <2>4. /\ Dropping(s)' \in Nat /\ Again(s)' \in Nat /\ Times(s, loose) <= 1
        /\ Dropping(s)' + Again(s)' <= Times(s, AllPopped) + Times(s, loose)
    BY <1>2
  <2> QED
    BY <2>1, <2>2, <2>3, <2>4
<1> QED
  BY <1>2, <1>3, <1>5

(* What every instruction but SCONCAT does to the stack, the strings and   *)
(* the queue.                                                              *)
LEMMA InstructionShape ==
  ASSUME IInv, Instruction
  PROVE  /\ status = "running" /\ todo = <<>> /\ status' = "running"
         /\ Arity \in Nat /\ Arity <= Len(stack)
         /\ Concat \/ (strs' = strs /\ \E v : \E pushed \in {<<>>, <<v>>} : Replace(pushed, <<>>))
<1>1. At(Opcodes) /\ status' = status
  <2> USE DEF Proceed
  <2>1. \A ops : At(ops) => Obstacles = {} /\ InCode /\ Ready
    BY DEF At
  <2>2. Obstacles = {} /\ InCode /\ Ready
    BY <2>1 DEF Instruction, PushConst, PushBool, PushArray, IntOp, Compare, Negate, Not,
                CompoundStore, Load, Store, Jump, Concat, ArrLoadIdx, ArrStoreIdx, ArrAppend
  <2>3. Op \in Opcodes
    BY <2>2 DEF Obstacles
  <2>4. status' = status
    BY DEF Instruction, PushConst, PushBool, PushArray, IntOp, Compare, Negate, Not,
           CompoundStore, Load, Store, Jump, Concat, ArrLoadIdx, ArrStoreIdx, ArrAppend
  <2> QED
    BY <2>2, <2>3, <2>4 DEF At
<1>2. /\ status = "running" /\ todo = <<>> /\ Op \in Opcodes /\ ~(Len(stack) < Arity)
      /\ pc \in Nat /\ pc + OperandBytes(Op) < Len(code)
  BY <1>1, Fetched
<1>3. Arity \in Nat
  <2>1. Op = OP_PUSH_ARRAY => Operand \in Nat
    BY <1>2, OperandType DEF WithOperand
  <2>2. Arity \in Nat
    <3>1. \/ Op \in IntArith \cup IntTest \cup BoolTest \cup {OP_SCONCAT, OP_ARRLOADIDX, OP_ARRAPPEND}
          \/ Op \in Compound \cup CondJumps \cup Stores \cup {OP_INEG, OP_NOT}
          \/ Op \in {OP_PUSH, OP_PUSH_STRING, OP_PUSH_TRUE, OP_PUSH_FALSE, OP_JMP} \cup Loads
          \/ Op = OP_ARRSTOREIDX \/ Op = OP_PUSH_ARRAY
      BY <1>2 DEF Opcodes, IntArith, IntTest, BoolTest, Compound, CondJumps, Stores, Loads,
            OP_PUSH, OP_PUSH_TRUE, OP_PUSH_FALSE, OP_PUSH_ARRAY, OP_IADD, OP_IADDSTORE, OP_ISUB,
            OP_ISUBSTORE, OP_IMUL, OP_IMULSTORE, OP_IDIV, OP_IDIVSTORE, OP_INEG, OP_IGT, OP_IGTE,
            OP_ILT, OP_ILTE, OP_IEQ, OP_IMOD, OP_BEQ, OP_INEQ, OP_BNEQ, OP_ISTORE, OP_ILOAD,
            OP_BSTORE, OP_BLOAD, OP_ARRSTORE, OP_ARRLOAD, OP_NOT, OP_JMPN, OP_JMPT, OP_JMP,
            OP_PUSH_STRING, OP_SCONCAT, OP_SSTORE, OP_SLOAD, OP_ARRLOADIDX, OP_ARRSTOREIDX,
            OP_ARRAPPEND
    <3> QED
      BY <1>2, <2>1, <3>1, ArityOf
  <2> QED
    BY <2>2
<1>4. Arity <= Len(stack)
  BY <1>2, <1>3, Operands
<1>5. Concat \/ (strs' = strs /\ \E v : \E pushed \in {<<>>, <<v>>} : Replace(pushed, <<>>))
  <2>1. \A v : Push(v) => \E w : \E pushed \in {<<>>, <<w>>} : Replace(pushed, <<>>)
    BY DEF Push
  <2>2. Replace(<<>>, <<>>) => \E w : \E pushed \in {<<>>, <<w>>} : Replace(pushed, <<>>)
    OBVIOUS
  <2>3. \/ Concat
        \/ strs' = strs /\ (Replace(<<>>, <<>>) \/ \E v : Push(v))
    BY Zenon DEF Instruction, PushConst, PushBool, PushArray, IntOp, Compare, Negate, Not,
                CompoundStore, Load, Store, Jump, ArrLoadIdx, ArrStoreIdx, ArrAppend,
                HeapUnchanged
  <2> QED
    BY <2>1, <2>2, <2>3
<1> QED
  BY <1>1, <1>2, <1>3, <1>4, <1>5

(* No instruction of careful code leaves more to count down than is        *)
(* counted.                                                                *)
LEMMA InstructionCovers ==
  ASSUME IInv, CountInv, Instruction, TakesCare
  PROVE  TwoRounds' /\ DropsCovered' /\ TakesHeld'
<1>1. /\ status = "running" /\ todo = <<>> /\ Arity \in Nat /\ Arity <= Len(stack)
      /\ Concat \/ (strs' = strs /\ \E v : \E pushed \in {<<>>, <<v>>} : Replace(pushed, <<>>))
  BY InstructionShape
<1>2. CASE strs' = strs /\ \E v : \E pushed \in {<<>>, <<v>>} : Replace(pushed, <<>>)
  <2>1. PICK v : \E pushed \in {<<>>, <<v>>} : Replace(pushed, <<>>)
    BY <1>2
  <2>2. PICK pushed \in {<<>>, <<v>>} : Replace(pushed, <<>>)
    BY <2>1
  <2>3. /\ <<>> \in Seq(Good) /\ Range(<<>>) \subseteq HeldValues
        /\ \A s : Times(s, <<>>) <= 1
    BY TimesNone DEF Range, StringsAmong
  <2> QED
    BY <1>1, <1>2, <2>2, <2>3, ReplaceCovers
<1>3. CASE Concat
  <2> DEFINE loose == <<Popped(2), Popped(1)>>
             new   == [text |-> strs[Lhs].text \o strs[Rhs].text, ref_count |-> 1, freed |-> FALSE]
             v     == StringRef(Len(strs) + 1)
  <2>1. At({OP_SCONCAT}) /\ strs' = Append(strs, new)
        /\ Replace(<<v>>, Work("drop", loose))
    BY <1>3 DEF Concat
  <2>2. Arity = 2
    BY <2>1, Fetched, ArityOf
  <2>3. Popped(1) \in Good /\ Popped(2) \in Good /\ Popped(1) \in HeldValues /\ Popped(2) \in HeldValues
    BY <1>1, <2>1, <2>2, PoppedGood, StackAfter
  <2>4. Work("drop", loose) \in {<<>>, <<[act |-> "drop", vals |-> loose]>>}
    BY DEF Work
  <2>5. loose \in Seq(Good) /\ Range(loose) \subseteq HeldValues
    BY <2>3 DEF Range
  <2>6. ASSUME NEW s PROVE Times(s, loose) <= 1
    <3>1. Times(s, loose) = Once(s, Popped(2)) + Once(s, Popped(1))
      BY <2>3, TimesPair
    <3>2. Popped(2).val # Popped(1).val
      BY <1>3 DEF TakesCare, ConcatsTwoStrings, Lhs, Rhs
    <3> QED
      BY <3>1, <3>2 DEF Once
  <2>7. \A s \in DOMAIN strs : strs'[s] = strs[s]
    <3> HIDE DEF new
    <3> QED
      BY <2>1, LenProperties, AppendProperties DEF IInv
  <2> HIDE DEF loose, new, v
  <2> QED
    BY <1>1, <2>1, <2>4, <2>5, <2>6, <2>7, ReplaceCovers
<1> QED
  BY <1>1, <1>2, <1>3


(* The jobs queued behind a counting step: the elements of an array just   *)
(* visited, the rest of the job at the head, the jobs behind.              *)
LEMMA JobsAfter ==
  ASSUME IInv, todo # <<>>, NEW elems, Finish(Act, elems)
  PROVE  \A i \in DOMAIN todo' :
           todo'[i] \in {[act |-> Act, vals |-> elems], [act |-> Act, vals |-> Tail(Head(todo).vals)]}
                        \cup Range(Tail(todo))
<1> DEFINE T == Tail(Head(todo).vals)
           a == [act |-> Act, vals |-> elems]
           b == [act |-> Act, vals |-> T]
           A == Work(Act, elems)
           B == Work(Act, T)
           R == Tail(todo)
           J == {a, b} \cup Range(R)
<1>1. A \in Seq({a}) /\ B \in Seq({b}) /\ todo' = A \o B \o R
  BY WorkShape DEF Finish
<1>2. R \in Seq(GoodJob)
  BY QueueGood
<1> HIDE DEF a, b, A, B, R
<1>3. R \in Seq(Range(R))
  <2>1. \A i \in 1 .. Len(R) : R[i] \in Range(R)
    BY <1>2, LenProperties DEF Range
  <2>2. Len(R) \in Nat /\ R = [i \in 1 .. Len(R) |-> R[i]]
    BY <1>2, LenProperties
  <2> QED
    BY <2>1, <2>2
<1>4. {a} \subseteq J /\ {b} \subseteq J /\ Range(R) \subseteq J
  OBVIOUS
<1> HIDE DEF J
<1>5. A \in Seq(J) /\ B \in Seq(J) /\ R \in Seq(J)
  BY <1>1, <1>3, <1>4, SeqGrows
<1>6. A \o B \o R \in Seq(J)
  <2>1. A \o B \in Seq(J)
    BY <1>5, ConcatProperties
  <2> QED
    BY <1>5, <2>1, ConcatProperties
<1>7. \A i \in DOMAIN todo' : todo'[i] \in J
  BY <1>1, <1>6, LenProperties, ElementOfSeq
<1> QED
  BY <1>7 DEF J, R, a, b

(* What a counting step leaves to be counted, if it counts the value it    *)
(* visits.                                                                 *)
LEMMA FinishCovers ==
  ASSUME IInv, CountInv, TwoRounds, DropsCovered, TakesHeld, status = "running", todo # <<>>,
         NEW elems, Finish(Act, elems), Act = "drop" => elems = <<>>,
         Range(elems) \subseteq HeldValues, HeldValues' = HeldValues,
         Act = "drop" =>
           /\ DOMAIN strs' = DOMAIN strs
           /\ \A s \in DOMAIN strs :
                ~strs[s].freed =>
                  /\ strs'[s].ref_count = strs[s].ref_count - Once(s, Subject)
                  /\ strs'[s].freed => strs[s].ref_count = 1 /\ Once(s, Subject) = 1
  PROVE  TwoRounds' /\ DropsCovered' /\ TakesHeld'
<1> DEFINE m == Len(todo)
           vals == Head(todo).vals
           T == Tail(vals)
<1>1. PICK n \in Nat :
        /\ m \in Nat \ {0} /\ DOMAIN todo = 1 .. m
        /\ Len(todo') = n + m - 1 /\ DOMAIN todo' = 1 .. n + m - 1
        /\ todo' # <<>> <=> n + m - 1 >= 1
        /\ Head(todo) = todo[1] /\ (todo' # <<>> => Head(todo') = todo'[1])
        /\ \A i \in 1 .. n : todo'[i].act = Act
        /\ \A i \in 1 .. m - 1 : todo'[n + i] = todo[i + 1]
        /\ elems = <<>> =>
             /\ n \in {0, 1}
             /\ n = 1 => todo'[1].vals = T
             /\ n = 0 => \A i \in DOMAIN T : ~IsCounted(T[i])
  BY QueueAfter
<1>2. /\ vals \in Seq(Good) /\ vals # <<>> /\ T \in Seq(Good) /\ Subject = Head(vals)
      /\ Act \in {"take", "drop"} /\ Act = todo[1].act
  <2>1. Head(todo) \in GoodJob
    BY HeadTailProperties DEF IInv
  <2> QED
    BY <1>1, <2>1, QueueGood DEF GoodJob, Subject, Act
<1> HIDE DEF m, T, vals
<1>3. \A i \in 1 .. n + m - 1 :
        \/ i <= n /\ todo'[i].act = Act
        \/ i > n /\ i - n + 1 \in 2 .. m /\ todo'[i] = todo[i - n + 1]
  <2> SUFFICES ASSUME NEW i \in 1 .. n + m - 1, ~(i <= n)
               PROVE  i > n /\ i - n + 1 \in 2 .. m /\ todo'[i] = todo[i - n + 1]
    BY <1>1
  <2>1. i > n /\ i - n + 1 \in 2 .. m /\ i - n \in 1 .. m - 1 /\ n + (i - n) = i
    BY <1>1
  <2> QED
    BY <1>1, <2>1
<1>10. TakesHeld'
  <2> SUFFICES ASSUME NEW i \in DOMAIN todo', todo'[i].act = "take"
               PROVE  Range(todo'[i].vals) \subseteq HeldValues
    BY DEF TakesHeld
  <2>1. \/ todo'[i] = [act |-> Act, vals |-> elems]
        \/ todo'[i] = [act |-> Act, vals |-> T]
        \/ todo'[i] \in Range(Tail(todo))
    BY JobsAfter DEF T, vals
  <2>2. CASE todo'[i] = [act |-> Act, vals |-> elems]
    BY <2>2
  <2>3. CASE todo'[i] = [act |-> Act, vals |-> T]
    <3>1. todo[1].act = "take" /\ todo[1].vals = vals /\ 1 \in DOMAIN todo
      BY <1>1, <1>2, <2>3 DEF vals
    <3>2. Range(vals) \subseteq HeldValues
      BY <3>1 DEF TakesHeld
    <3>3. Range(T) \subseteq Range(vals)
      <4>1. vals \in Seq(Range(vals))
        <5>1. \A j \in 1 .. Len(vals) : vals[j] \in Range(vals)
          BY <1>2, LenProperties DEF Range
        <5>2. Len(vals) \in Nat /\ vals = [j \in 1 .. Len(vals) |-> vals[j]]
          BY <1>2, LenProperties
        <5> QED
          BY <5>1, <5>2
      <4>2. T \in Seq(Range(vals))
        BY <1>2, <4>1, HeadTailProperties DEF T
      <4>3. \A U : T \in Seq(U) => Range(T) \subseteq U
        BY ElementOfSeq, LenProperties DEF Range
      <4> QED
        BY <4>2, <4>3
    <3> QED
      BY <2>3, <3>2, <3>3
  <2>4. CASE todo'[i] \in Range(Tail(todo))
    <3>1. todo \in Seq(GoodJob)
      BY DEF IInv
    <3>2. \A x \in Range(Tail(todo)) : \E j \in DOMAIN todo : x = todo[j]
      <4>1. Tail(todo) \in Seq(GoodJob) /\ Len(Tail(todo)) = m - 1
            /\ \A j \in 1 .. m - 1 : Tail(todo)[j] = todo[j + 1]
        BY <1>1, <3>1, HeadTailProperties DEF m
      <4>2. DOMAIN Tail(todo) = 1 .. m - 1
        BY <4>1, LenProperties
      <4>3. \A j \in 1 .. m - 1 : j + 1 \in DOMAIN todo
        BY <1>1
      <4> QED
        BY <4>1, <4>2, <4>3 DEF Range
    <3> QED
      BY <2>4, <3>2 DEF TakesHeld
  <2> QED
    BY <2>1, <2>2, <2>3, <2>4
<1>4. CASE Act = "take"
  <2>1. \A i \in 1 .. m : todo[i].act = "take"
    <3> SUFFICES ASSUME NEW i \in 1 .. m PROVE todo[i].act = "take"
      OBVIOUS
    <3>1. 1 \in DOMAIN todo /\ i \in DOMAIN todo /\ (i = 1 \/ 1 < i)
      BY <1>1
    <3> QED
      BY <1>2, <1>4, <3>1 DEF CountInv, TakesComeLast
  <2>2. \A i \in DOMAIN todo' : todo'[i].act = "take"
    BY <1>1, <1>3, <1>4, <2>1
  <2>3. TwoRounds' /\ DropsCovered'
    <3>1. \A i \in 3 .. Len(todo') : i \in DOMAIN todo'
      BY <1>1
    <3>2. todo' # <<>> => Act' = "take"
      BY <1>1, <2>2 DEF Act
    <3> QED
      BY <2>2, <3>1, <3>2 DEF TwoRounds, DropsCovered
  <2> QED
    BY <1>10, <2>3
<1>5. CASE Act = "drop"
  <2>1. elems = <<>> /\ n \in {0, 1}
    BY <1>1, <1>5
  <2>2. \A j \in 3 .. m : todo[j].act = "take"
    BY DEF TwoRounds, m
  <2>3. TwoRounds'
    <3> SUFFICES ASSUME NEW j \in 3 .. Len(todo') PROVE todo'[j].act = "take"
      BY DEF TwoRounds
    <3>1. j \in 1 .. n + m - 1 /\ j > n /\ j - n + 1 \in 3 .. m
      BY <1>1, <2>1
    <3> QED
      BY <1>3, <2>2, <3>1
  <2>4. ASSUME NEW s
        PROVE  /\ Dropping(s) = Once(s, Subject) + Times(s, T)
               /\ Times(s, T) \in Nat /\ Once(s, Subject) \in {0, 1} /\ Again(s) \in Nat
               /\ Dropping(s)' + Again(s)' \in {0, Times(s, T) + Again(s)}
    <3>1. Dropping(s) = Once(s, Subject) + Times(s, T)
      <4>1. Dropping(s) = Times(s, vals)
        BY <1>5 DEF Dropping, vals
      <4> QED
        BY <1>2, <4>1, TimesTail DEF T
    <3>2. Times(s, T) \in Nat /\ Once(s, Subject) \in {0, 1}
      BY <1>2, TimesFinite DEF Once
    <3>3. Again(s) = IF m >= 2 /\ todo[2].act = "drop" THEN Times(s, todo[2].vals) ELSE 0
      BY DEF Again, m
    <3>4. Again(s) \in Nat
      <4>1. m >= 2 => todo[2] \in GoodJob
        BY <1>1, ElementOfSeq DEF IInv, m
      <4>2. m >= 2 => Times(s, todo[2].vals) \in Nat
        BY <4>1, TimesFinite DEF GoodJob
      <4> QED
        BY <3>3, <4>2
    <3>5. Dropping(s)' = IF n + m - 1 >= 1 /\ todo'[1].act = "drop" THEN Times(s, todo'[1].vals) ELSE 0
      BY <1>1 DEF Dropping, Act
    <3>6. Again(s)' = IF n + m - 1 >= 2 /\ todo'[2].act = "drop" THEN Times(s, todo'[2].vals) ELSE 0
      BY <1>1 DEF Again
    <3>7. CASE n = 1
      <4>1. todo'[1].act = "drop" /\ todo'[1].vals = T /\ n + m - 1 = m /\ m >= 1
        BY <1>1, <1>5, <2>1, <3>7
      <4>2. m >= 2 => todo'[2] = todo[2]
        <5>1. m >= 2 => 1 \in 1 .. m - 1
          BY <1>1
        <5> QED
          BY <1>1, <3>7, <5>1
      <4>3. Dropping(s)' = Times(s, T)
        BY <3>5, <4>1
      <4>4. Again(s)' = Again(s)
        BY <3>3, <3>6, <4>1, <4>2
      <4> QED
        BY <3>1, <3>2, <3>4, <4>3, <4>4
    <3>8. CASE n = 0
      <4>1. Times(s, T) = 0
        <5>1. \A i \in DOMAIN T : ~IsString(T[i])
          BY <1>1, <2>1, <3>8 DEF IsCounted
        <5> QED
          BY <5>1, TimesNone DEF StringsAmong, Range
      <4>2. n + m - 1 = m - 1 /\ (m >= 2 => todo'[1] = todo[2]) /\ (m >= 3 => todo'[2] = todo[3])
        <5>1. (m >= 2 => 1 \in 1 .. m - 1) /\ (m >= 3 => 2 \in 1 .. m - 1)
          BY <1>1
        <5> QED
          BY <1>1, <3>8, <5>1
      <4>3. m >= 3 => todo'[2].act = "take"
        BY <1>1, <2>2, <4>2
      <4>4. Again(s)' = 0
        <5>1. m - 1 >= 2 => m >= 3
          BY <1>1
        <5> QED
          BY <3>6, <4>2, <4>3, <5>1
      <4>5. Dropping(s)' = Again(s)
        <5>1. m - 1 >= 1 <=> m >= 2
          BY <1>1
        <5> QED
          BY <3>3, <3>5, <4>2, <5>1
      <4> QED
        BY <3>1, <3>2, <3>4, <4>1, <4>4, <4>5
    <3> QED
      BY <2>1, <3>7, <3>8
  <2>5. DropsCovered'
    <3> SUFFICES ASSUME NEW s \in DOMAIN strs', Dropping(s)' + Again(s)' > 0
                 PROVE  ~strs'[s].freed /\ strs'[s].ref_count >= Dropping(s)' + Again(s)'
      BY DEF DropsCovered
    <3> DEFINE x == Times(s, T)
               o == Once(s, Subject)
               g == Again(s)
               k == Dropping(s)' + Again(s)'
    <3>1. s \in DOMAIN strs /\ strs[s].ref_count \in Int
      BY <1>5, HeldLocated
    <3>2. Dropping(s) = o + x /\ x \in Nat /\ o \in {0, 1} /\ g \in Nat /\ k \in {0, x + g} /\ k > 0
      BY <2>4
    <3> HIDE DEF x, o, g, k
    <3>3. k = x + g /\ Dropping(s) + Again(s) = o + x + g /\ o + x + g > 0
      BY <3>2 DEF g
    <3>4. ~strs[s].freed /\ strs[s].ref_count >= o + x + g
      BY <1>5, <3>1, <3>3 DEF DropsCovered
    <3>5. /\ strs'[s].ref_count = strs[s].ref_count - o
          /\ strs'[s].freed => strs[s].ref_count = 1 /\ o = 1
      BY <1>5, <3>1, <3>4 DEF o
    <3>6. ~strs'[s].freed /\ strs'[s].ref_count >= k
      BY <3>1, <3>2, <3>3, <3>4, <3>5
    <3> QED
      BY <3>6 DEF k
  <2> QED
    BY <1>10, <2>3, <2>5
<1> QED
  BY <1>2, <1>4, <1>5


(* Counting finds nothing freed, and leaves no more to count down than is  *)
(* counted.                                                                *)
LEMMA CountCovers ==
  ASSUME IInv, CountInv, DangleInv, Count
  PROVE  status' = "running" /\ TwoRounds' /\ DropsCovered' /\ TakesHeld'
<1> USE DEF Counting, HeapUnchanged
<1>1. status = "running" /\ todo # <<>>
  BY DEF Count, Skip, increment_ref, decrement_ref, increment_ref_arr, decrement_ref_arr, Dangle
<1>2. TwoRounds /\ DropsCovered /\ TakesHeld
  BY <1>1 DEF DangleInv
<1>3. Subject \in Good /\ Act \in {"take", "drop"}
  BY <1>1, QueueGood
<1>4. ~FreedString
  <2> SUFFICES ASSUME IsString(Subject) PROVE ~strs[Subject.val].freed
    BY DEF FreedString
  <2>1. /\ Head(todo) = todo[1] /\ 1 \in DOMAIN todo
        /\ Head(todo).vals \in Seq(Good) /\ Head(todo).vals # <<>>
        /\ Subject = Head(Head(todo).vals) /\ Act = todo[1].act
    <3>1. Head(todo) \in GoodJob /\ Head(todo) = todo[1] /\ 1 \in DOMAIN todo
      BY <1>1, HeadTailProperties, LenProperties DEF IInv
    <3> QED
      BY <3>1 DEF GoodJob, Subject, Act
  <2>2. Subject.val \in DOMAIN strs
    BY <1>3, HeldLocated
  <2>3. CASE Act = "take"
    <3>1. Subject \in Range(todo[1].vals)
      <4>1. 1 \in DOMAIN Head(todo).vals /\ Subject = Head(todo).vals[1]
        BY <2>1, HeadTailProperties, LenProperties
      <4> QED
        BY <2>1, <4>1 DEF Range
    <3>2. Subject \in HeldValues
      BY <1>2, <2>1, <2>3, <3>1 DEF TakesHeld
    <3> QED
      BY <1>1, <3>2, HeldAlive
  <2>4. CASE Act = "drop"
    <3> DEFINE s == Subject.val
    <3>1. Dropping(s) = Once(s, Subject) + Times(s, Tail(Head(todo).vals))
      BY <1>1, <2>1, <2>4, TimesTail DEF Dropping
    <3>2. Once(s, Subject) = 1 /\ Times(s, Tail(Head(todo).vals)) \in Nat
      BY <1>1, QueueGood, TimesFinite DEF Once
    <3>3. Again(s) \in Nat
      <4>1. Len(todo) >= 2 => todo[2] \in GoodJob
        BY LenProperties, ElementOfSeq DEF IInv
      <4>2. Len(todo) >= 2 => Times(s, todo[2].vals) \in Nat
        BY <4>1, TimesFinite DEF GoodJob
      <4> QED
        BY <4>2 DEF Again
    <3>4. Dropping(s) + Again(s) > 0
      BY <3>1, <3>2, <3>3
    <3> QED
      BY <1>1, <1>2, <2>2, <2>4, <3>4 DEF DropsCovered
  <2> QED
    BY <1>3, <2>3, <2>4
<1>5. ~FreedArray
  BY <1>3 DEF FreedArray, IInv, ArraysStayAllocated, Good, Pointing, Located
<1>6. Range(<<>>) \subseteq HeldValues
  BY DEF Range
<1>7. \A elems : Finish(Act, elems) => status' = "running" /\ UNCHANGED <<stack, locals>>
  BY <1>1 DEF Finish
<1>8. ASSUME strs' = strs, ~IsString(Subject)
      PROVE  Act = "drop" =>
               /\ DOMAIN strs' = DOMAIN strs
               /\ \A s \in DOMAIN strs :
                    ~strs[s].freed =>
                      /\ strs'[s].ref_count = strs[s].ref_count - Once(s, Subject)
                      /\ strs'[s].freed => strs[s].ref_count = 1 /\ Once(s, Subject) = 1
  <2>1. \A s : Once(s, Subject) = 0
    BY <1>8 DEF Once
  <2>2. \A s \in DOMAIN strs : strs[s].ref_count \in Int
    BY HeldLocated
  <2> QED
    BY <1>8, <2>1, <2>2
<1>9. ASSUME NEW a, a \in DOMAIN arrs
      PROVE  Range(arrs[a].arr_val) \subseteq HeldValues
  BY <1>9 DEF HeldValues
<1>10. ASSUME UNCHANGED <<stack, locals>>, DOMAIN arrs' = DOMAIN arrs,
              \A a \in DOMAIN arrs : arrs'[a].arr_val = arrs[a].arr_val
       PROVE  HeldValues' = HeldValues
  <2>1. UNION {Range(arrs'[a].arr_val) : a \in DOMAIN arrs'}
          = UNION {Range(arrs[a].arr_val) : a \in DOMAIN arrs}
    BY <1>10
  <2> QED
    BY <1>10, <2>1 DEF HeldValues
<1>11. CASE Skip
  <2>1. ~IsString(Subject) /\ Finish(Act, <<>>) /\ UNCHANGED <<strs, arrs>>
    BY <1>11 DEF Skip, IsCounted
  <2>2. HeldValues' = HeldValues
    BY <1>7, <1>10, <2>1
  <2> QED
    BY <1>1, <1>2, <1>6, <1>7, <1>8, <2>1, <2>2, FinishCovers
<1>12. CASE increment_ref
  <2>1. Act = "take" /\ Finish(Act, <<>>) /\ arrs' = arrs
    BY <1>12 DEF increment_ref
  <2>2. HeldValues' = HeldValues
    BY <1>7, <1>10, <2>1
  <2> QED
    BY <1>1, <1>2, <1>6, <1>7, <2>1, <2>2, FinishCovers
<1>13. CASE decrement_ref
  <2> DEFINE t == Subject.val
             cell == strs[t]
  <2>1. /\ Act = "drop" /\ IsString(Subject) /\ Finish(Act, <<>>) /\ arrs' = arrs
        /\ strs' = [strs EXCEPT ![t] = Dropped(cell)]
    BY <1>13 DEF decrement_ref
  <2>2. HeldValues' = HeldValues
    BY <1>7, <1>10, <2>1
  <2>3. t \in DOMAIN strs /\ cell \in StringValue
    BY <1>3, <2>1, HeldLocated
  <2>4. /\ Dropped(cell).ref_count = cell.ref_count - 1
        /\ Dropped(cell).freed <=> cell.ref_count = 1
    <3> HIDE DEF cell
    <3>1. DOMAIN cell = {"text", "ref_count", "freed"}
      BY <2>3 DEF StringValue
    <3> QED
      BY <3>1 DEF Dropped
  <2>5. ASSUME NEW s \in DOMAIN strs, ~strs[s].freed
        PROVE  /\ strs'[s].ref_count = strs[s].ref_count - Once(s, Subject)
               /\ strs'[s].freed => strs[s].ref_count = 1 /\ Once(s, Subject) = 1
    <3>1. CASE s = t
      <4>1. strs'[s] = Dropped(cell) /\ strs[s] = cell
        BY <2>1, <2>3, <3>1
      <4>2. Once(s, Subject) = 1
        BY <2>1, <3>1 DEF Once
      <4> HIDE DEF cell
      <4> QED
        BY <2>4, <4>1, <4>2
    <3>2. CASE s # t
      <4>1. strs'[s] = strs[s] /\ Once(s, Subject) = 0 /\ strs[s].ref_count \in Int
        BY <2>1, <3>2, HeldLocated DEF Once
      <4> QED
        BY <2>5, <4>1
    <3> QED
      BY <3>1, <3>2
  <2>6. DOMAIN strs' = DOMAIN strs
    BY <2>1
  <2> HIDE DEF cell, t
  <2> QED
    BY <1>1, <1>2, <1>6, <1>7, <2>1, <2>2, <2>5, <2>6, FinishCovers
<1>14. CASE increment_ref_arr
  <2> DEFINE a == Subject.val
             elems == arrs[a].arr_val
  <2>1. /\ IsArray(Subject) /\ Finish(Act, elems) /\ Act = "take" /\ strs' = strs
        /\ arrs' = [arrs EXCEPT ![a].ref_count = IF @ # 0 THEN @ + 1 ELSE @]
    BY <1>14 DEF increment_ref_arr
  <2>2. a \in DOMAIN arrs
    BY <1>3, <2>1 DEF Good, Pointing, Located
  <2>3. DOMAIN arrs' = DOMAIN arrs /\ \A b \in DOMAIN arrs : arrs'[b].arr_val = arrs[b].arr_val
    <3>1. \A b \in DOMAIN arrs : arrs[b] \in ArrayValue
      BY ElementOfSeq, LenProperties DEF IInv
    <3> QED
      BY <2>1, <3>1 DEF ArrayValue
  <2>4. Range(elems) \subseteq HeldValues
    BY <1>9, <2>2
  <2> HIDE DEF elems, a
  <2>5. HeldValues' = HeldValues
    BY <1>7, <1>10, <2>1, <2>3
  <2> QED
    BY <1>1, <1>2, <1>7, <2>1, <2>4, <2>5, FinishCovers
<1>15. CASE decrement_ref_arr
  <2> DEFINE a == Subject.val
             old == arrs[a]
  <2>1. /\ IsArray(Subject) /\ Finish("drop", IF old.ref_count = 1 THEN old.arr_val ELSE <<>>)
        /\ Act = "drop" /\ strs' = strs /\ arrs' = [arrs EXCEPT ![a] = Dropped(old)]
    BY <1>15 DEF decrement_ref_arr
  <2>2. ~IsString(Subject)
    BY <2>1 DEF IsString, IsArray
  <2>3. a \in DOMAIN arrs /\ old \in ArrayValue /\ old.ref_count <= 0
    <3>1. a \in DOMAIN arrs
      BY <1>3, <2>1 DEF Good, Pointing, Located
    <3> QED
      BY <3>1, ElementOfSeq, LenProperties DEF IInv, ArraysStayAllocated
  <2>4. old.ref_count # 1
    <3>1. old.ref_count \in Int
      <4> HIDE DEF old
      <4> QED
        BY <2>3 DEF ArrayValue
    <3> HIDE DEF old
    <3> QED
      BY <2>3, <3>1
  <2>5. Finish(Act, <<>>)
    BY <2>1, <2>4
  <2>6. Dropped(old).arr_val = old.arr_val
    <3>1. DOMAIN old = {"arr_val", "capacity", "ref_count", "freed"}
      <4> HIDE DEF old
      <4> QED
        BY <2>3 DEF ArrayValue
    <3> HIDE DEF old
    <3> QED
      BY <3>1 DEF Dropped
  <2>7. DOMAIN arrs' = DOMAIN arrs /\ \A b \in DOMAIN arrs : arrs'[b].arr_val = arrs[b].arr_val
    BY <2>1, <2>3, <2>6
  <2>8. HeldValues' = HeldValues
    BY <1>7, <1>10, <2>5, <2>7
  <2> QED
    BY <1>1, <1>2, <1>6, <1>7, <1>8, <2>1, <2>2, <2>5, <2>8, FinishCovers
<1>16. CASE Dangle
  BY <1>4, <1>5, <1>16 DEF Dangle
<1> QED
  BY <1>11, <1>12, <1>13, <1>14, <1>15, <1>16 DEF Count

(* The operands an instruction follows were not freed.                     *)
LEMMA NothingFreedInTheWay ==
  ASSUME IInv, CountInv, status = "running", todo = <<>>
  PROVE  Obstacles \cap {"dangling string", "dangling array"} = {}
<1> DEFINE F == {c \in Faults : Fault(c)}
<1>1. \/ Obstacles \subseteq {"bad fetch", "unknown opcode", "invalid slot", "stack underflow"}
      \/ Op \in Opcodes /\ Fetchable /\ ~(Len(stack) < Arity) /\ Obstacles = F
  BY Zenon DEF Obstacles
<1>2. ASSUME Op = OP_SCONCAT, Op \in Opcodes, ~(Len(stack) < Arity), MembersMatch
      PROVE  /\ Survives(strs[Lhs], IF Lhs = Rhs THEN 2 ELSE 1)
             /\ Survives(strs[Rhs], IF Lhs = Rhs THEN 2 ELSE 1)
  <2>1. Arity = 2 /\ Needs(Op) = <<"string_val", "string_val">>
    BY <1>2, ArityOf
  <2>2. /\ Arity \in Nat /\ Arity <= Len(stack) /\ Popped(1) \in Good /\ Popped(2) \in Good
        /\ Popped(1) \in Range(stack) /\ Popped(2) \in Range(stack)
    <3>1. /\ Arity \in Nat /\ Arity <= Len(stack)
          /\ \A i \in 1 .. 2 : Popped(i) \in Good
      BY <1>2, <2>1, Operands
    <3>2. Len(stack) \in Nat /\ DOMAIN stack = 1 .. Len(stack)
      BY LenProperties DEF IInv
    <3>3. Len(stack) + 1 - 1 \in DOMAIN stack /\ Len(stack) + 1 - 2 \in DOMAIN stack
      BY <2>1, <3>1, <3>2
    <3> QED
      BY <3>1, <3>3 DEF Popped, Range
  <2>3. IsString(Popped(1)) /\ IsString(Popped(2))
    <3>1. Popped(1).member = "string_val" /\ Popped(2).member = "string_val"
      BY <1>2, <2>1 DEF MembersMatch
    <3> QED
      BY <2>2, <3>1 DEF Good, Pointing, Located
  <2>4. ASSUME NEW i \in {1, 2}
        PROVE  LET s == Popped(i).val
               IN  /\ ~strs[s].freed /\ strs[s].ref_count \in Int /\ Times(s, stack) \in Nat
                   /\ strs[s].ref_count >= 1 + Times(s, stack)
    <3>1. Popped(i) \in HeldValues /\ IsString(Popped(i))
      BY <2>2, <2>3 DEF HeldValues
    <3>2. Popped(i).val \in DOMAIN strs /\ ~strs[Popped(i).val].freed
      BY <3>1, HeldAlive
    <3> QED
      BY <3>2, LiveStrings
  <2>5. /\ Times(Rhs, AllPopped) >= 1 /\ Times(Lhs, AllPopped) >= 1
        /\ Lhs = Rhs => Times(Rhs, AllPopped) >= 2
    <3>1. AllPopped = <<Popped(1), Popped(2)>>
      BY <2>1 DEF AllPopped
    <3>2. \A s : Times(s, AllPopped) = Once(s, Popped(1)) + Once(s, Popped(2))
      BY <2>2, <3>1, TimesPair
    <3> QED
      BY <2>3, <3>2 DEF Once, Lhs, Rhs
  <2>6. \A s : /\ Times(s, stack) = Times(s, Rest) + Times(s, AllPopped)
               /\ Times(s, Rest) \in Nat /\ Times(s, AllPopped) \in Nat
    BY <2>2, TimesPopped, TimesFinite, PoppedGood DEF IInv
  <2>7. /\ strs[Lhs].ref_count \in Int /\ strs[Rhs].ref_count \in Int
        /\ ~strs[Lhs].freed /\ ~strs[Rhs].freed
        /\ strs[Lhs].ref_count >= 2 /\ strs[Rhs].ref_count >= 2
        /\ Lhs = Rhs => strs[Lhs].ref_count >= 3
    <3>1. /\ ~strs[Lhs].freed /\ strs[Lhs].ref_count \in Int /\ Times(Lhs, stack) \in Nat
          /\ strs[Lhs].ref_count >= 1 + Times(Lhs, stack)
      BY <2>4 DEF Lhs
    <3>2. /\ ~strs[Rhs].freed /\ strs[Rhs].ref_count \in Int /\ Times(Rhs, stack) \in Nat
          /\ strs[Rhs].ref_count >= 1 + Times(Rhs, stack)
      BY <2>4 DEF Rhs
    <3>3. Times(Lhs, stack) >= Times(Lhs, AllPopped) /\ Times(Rhs, stack) >= Times(Rhs, AllPopped)
      BY <2>6
    <3>4. Times(Lhs, AllPopped) \in Nat /\ Times(Rhs, AllPopped) \in Nat
      BY <2>6
    <3> QED
      BY <2>5, <3>1, <3>2, <3>3, <3>4
  <2> QED
    BY <2>7 DEF Survives
<1>3. ASSUME Op \in Indexing \cup {OP_ARRAPPEND}, Op \in Opcodes, ~(Len(stack) < Arity), MembersMatch
      PROVE  Survives(arrs[TheArray], 2)
  <2>1. Arity \in {2, 3} /\ ArrayAt \in 1 .. Arity /\ Needs(Op)[ArrayAt] = "array_val"
    <3>1. OP_ARRLOADIDX # OP_ARRSTOREIDX /\ OP_ARRLOADIDX # OP_ARRAPPEND
      BY DEF OP_ARRLOADIDX, OP_ARRSTOREIDX, OP_ARRAPPEND
    <3>2. CASE Op = OP_ARRLOADIDX
      <4>1. Arity = 2 /\ Needs(Op) = <<"array_val", "int_val">> /\ ArrayAt = 1
        BY <1>3, <3>2, ArityOf DEF ArrayAt
      <4> QED
        BY <4>1
    <3>3. CASE Op = OP_ARRSTOREIDX
      <4>1. Arity = 3 /\ Needs(Op) = <<"any", "array_val", "int_val">> /\ ArrayAt = 2
        BY <1>3, <3>1, <3>3, ArityOf DEF ArrayAt
      <4> QED
        BY <4>1
    <3>4. CASE Op = OP_ARRAPPEND
      <4>1. Arity = 2 /\ Needs(Op) = <<"any", "array_val">> /\ ArrayAt = 2
        BY <1>3, <3>1, <3>4, ArityOf DEF ArrayAt
      <4> QED
        BY <4>1
    <3> QED
      BY <1>3, <3>2, <3>3, <3>4 DEF Indexing
  <2>2. Popped(ArrayAt) \in Good /\ Popped(ArrayAt).member = "array_val"
    <3>1. \A i \in 1 .. Arity : Popped(i) \in Good
      BY <1>3, <2>1, Operands
    <3> QED
      BY <1>3, <2>1, <3>1 DEF MembersMatch
  <2>3. TheArray \in DOMAIN arrs
    BY <2>2 DEF Good, Pointing, Located, TheArray
  <2>4. arrs[TheArray].ref_count \in Int /\ arrs[TheArray].ref_count <= 0 /\ ~arrs[TheArray].freed
    <3>1. arrs[TheArray] \in ArrayValue
      BY <2>3, ElementOfSeq, LenProperties DEF IInv
    <3> QED
      BY <2>3, <3>1 DEF IInv, ArraysStayAllocated, ArrayValue
  <2> QED
    BY <2>4 DEF Survives
<1>4. CASE Op \in Opcodes /\ Fetchable /\ ~(Len(stack) < Arity) /\ Obstacles = F
  <2>1. ~Fault("dangling string")
    <3>1. Fault("dangling string") =>
             /\ Op = OP_SCONCAT /\ MembersMatch
             /\ \/ ~Survives(strs[Lhs], IF Lhs = Rhs THEN 2 ELSE 1)
                \/ ~Survives(strs[Rhs], IF Lhs = Rhs THEN 2 ELSE 1)
      BY DEF Fault
    <3> QED
      BY <1>2, <1>4, <3>1
  <2>2. ~Fault("dangling array")
    <3>1. Fault("dangling array") =>
             /\ Op \in Indexing \cup {OP_ARRAPPEND} /\ MembersMatch
             /\ ~Survives(arrs[TheArray], 2)
      BY DEF Fault
    <3> QED
      BY <1>3, <1>4, <3>1
  <2> QED
    BY <1>4, <2>1, <2>2
<1> HIDE DEF F
<1>5. CASE Obstacles \subseteq {"bad fetch", "unknown opcode", "invalid slot", "stack underflow"}
  BY <1>5
<1> QED
  BY <1>1, <1>4, <1>5

(* Where nothing is queued nothing can go wrong in the queue.              *)
LEMMA NothingQueued ==
  ASSUME todo' = <<>>
  PROVE  TwoRounds' /\ DropsCovered' /\ TakesHeld'
<1>1. DropsCovered'
  BY DEF DropsCovered
<1>2. DOMAIN todo' = {} /\ Len(todo') = 0
  OBVIOUS
<1>3. TakesHeld'
  BY <1>2 DEF TakesHeld
<1>4. TwoRounds'
  BY <1>2 DEF TwoRounds
<1> QED
  BY <1>1, <1>3, <1>4

(* No step of careful code leaves the invariant.                           *)
LEMMA StepDangles ==
  ASSUME IInv, Fresh, CountInv, DangleInv, [Next]_vars, [TakesCare]_vars
  PROVE  DangleInv'
<1>1. CASE UNCHANGED vars
  <2>1. UNCHANGED <<stack, locals, strs, arrs, todo, status>>
    BY <1>1 DEF vars
  <2> QED
    BY <2>1 DEF DangleInv, NothingDangles, TwoRounds, DropsCovered, TakesHeld, Dropping, Again, Act,
                HeldValues
<1>2. CASE Next /\ TakesCare
  <2>1. CASE \E img \in Images : vm_init(img)
    <3>1. todo' = <<>> /\ status' = "running"
      BY <2>1 DEF vm_init, Fresh
    <3> QED
      BY <3>1, NothingQueued DEF DangleInv, NothingDangles
  <2>2. CASE Instruction
    <3>1. status' = "running"
      BY <2>2, InstructionShape
    <3>2. TwoRounds' /\ DropsCovered' /\ TakesHeld'
      BY <1>2, <2>2, InstructionCovers
    <3> QED
      BY <3>1, <3>2 DEF DangleInv, NothingDangles
  <2>3. CASE Count
    <3>1. status' = "running" /\ TwoRounds' /\ DropsCovered' /\ TakesHeld'
      BY <2>3, CountCovers
    <3> QED
      BY <3>1 DEF DangleInv, NothingDangles
  <2>4. CASE Abort
    <3>1. status = "running" /\ todo = <<>> /\ status' \in Obstacles
      BY <2>4 DEF Abort, Ready
    <3>2. status' \notin {"dangling string", "dangling array"} /\ todo' = <<>>
      BY <2>4, <3>1, NothingFreedInTheWay DEF Abort
    <3> QED
      BY <3>2, NothingQueued DEF DangleInv, NothingDangles
  <2>5. CASE Halt
    <3>1. status' = "halted"
      BY <2>5 DEF Halt
    <3> QED
      BY <3>1 DEF DangleInv, NothingDangles
  <2>6. CASE vm_free
    <3>1. status' \in {"freed", "double free"}
      BY <2>6, Zenon DEF vm_free
    <3> QED
      BY <3>1 DEF DangleInv, NothingDangles
  <2> QED
    BY <1>2, <2>1, <2>2, <2>3, <2>4, <2>5, <2>6 DEF Next
<1> QED
  BY <1>1, <1>2

(* Code that pushes no freed constant again and hands SCONCAT two          *)
(* different strings nothing else holds never makes vm_run, its pushes and *)
(* its pops touch a string or an array after it was freed: the counts are  *)
(* enough while they are being counted down, too (DangleInv).              *)
THEOREM CarefulCodeNeverDangles ==
  ASSUME ImagesCounted
  PROVE  Spec /\ CareIsTaken => []NothingDangles
<1>1. Init => DangleInv
  BY DEF Init, DangleInv, NothingDangles
<1>2. IInv /\ Fresh /\ CountInv /\ DangleInv /\ [Next]_vars /\ [TakesCare]_vars => DangleInv'
  BY StepDangles
<1>3. DangleInv => NothingDangles
  BY DEF DangleInv
<1>4. [TakesCare]_vars => [KeepsHeld]_vars
  BY DEF TakesCare
<1>5. Spec /\ [][KeepsHeld]_vars => []CountInv
  BY CountsBalance
<1>6. CareIsTaken => [][KeepsHeld]_vars
  BY <1>4, PTL DEF CareIsTaken
<1> QED
  BY <1>1, <1>2, <1>3, <1>5, <1>6, Inductive, PTL DEF Spec, CareIsTaken

-----------------------------------------------------------------------------
(* The ideal machine reads the same instructions and computes the same:    *)
(* what it has of Instructions, Values and Bytecode is what VM has of them.*)

(* The opcodes, and the sets of them.                                      *)
LEMMA SameOpcodes ==
  /\ Ideal!OP_PUSH = OP_PUSH /\ Ideal!OP_PUSH_TRUE = OP_PUSH_TRUE /\ Ideal!OP_PUSH_FALSE = OP_PUSH_FALSE
  /\ Ideal!OP_PUSH_ARRAY = OP_PUSH_ARRAY /\ Ideal!OP_IADD = OP_IADD /\ Ideal!OP_IADDSTORE = OP_IADDSTORE
  /\ Ideal!OP_ISUB = OP_ISUB /\ Ideal!OP_ISUBSTORE = OP_ISUBSTORE /\ Ideal!OP_IMUL = OP_IMUL
  /\ Ideal!OP_IMULSTORE = OP_IMULSTORE /\ Ideal!OP_IDIV = OP_IDIV /\ Ideal!OP_IDIVSTORE = OP_IDIVSTORE
  /\ Ideal!OP_INEG = OP_INEG /\ Ideal!OP_IGT = OP_IGT /\ Ideal!OP_IGTE = OP_IGTE
  /\ Ideal!OP_ILT = OP_ILT /\ Ideal!OP_ILTE = OP_ILTE /\ Ideal!OP_IEQ = OP_IEQ
  /\ Ideal!OP_IMOD = OP_IMOD /\ Ideal!OP_BEQ = OP_BEQ /\ Ideal!OP_INEQ = OP_INEQ
  /\ Ideal!OP_BNEQ = OP_BNEQ /\ Ideal!OP_ISTORE = OP_ISTORE /\ Ideal!OP_ILOAD = OP_ILOAD
  /\ Ideal!OP_BSTORE = OP_BSTORE /\ Ideal!OP_BLOAD = OP_BLOAD /\ Ideal!OP_ARRSTORE = OP_ARRSTORE
  /\ Ideal!OP_ARRLOAD = OP_ARRLOAD /\ Ideal!OP_NOT = OP_NOT /\ Ideal!OP_JMPN = OP_JMPN
  /\ Ideal!OP_JMPT = OP_JMPT /\ Ideal!OP_JMP = OP_JMP /\ Ideal!OP_PUSH_STRING = OP_PUSH_STRING
  /\ Ideal!OP_SCONCAT = OP_SCONCAT /\ Ideal!OP_SSTORE = OP_SSTORE /\ Ideal!OP_SLOAD = OP_SLOAD
  /\ Ideal!OP_ARRLOADIDX = OP_ARRLOADIDX /\ Ideal!OP_ARRSTOREIDX = OP_ARRSTOREIDX
  /\ Ideal!OP_ARRAPPEND = OP_ARRAPPEND
BY DEF OP_PUSH, OP_PUSH_TRUE, OP_PUSH_FALSE, OP_PUSH_ARRAY, OP_IADD, OP_IADDSTORE, OP_ISUB,
       OP_ISUBSTORE, OP_IMUL, OP_IMULSTORE, OP_IDIV, OP_IDIVSTORE, OP_INEG, OP_IGT, OP_IGTE, OP_ILT,
       OP_ILTE, OP_IEQ, OP_IMOD, OP_BEQ, OP_INEQ, OP_BNEQ, OP_ISTORE, OP_ILOAD, OP_BSTORE, OP_BLOAD,
       OP_ARRSTORE, OP_ARRLOAD, OP_NOT, OP_JMPN, OP_JMPT, OP_JMP, OP_PUSH_STRING, OP_SCONCAT,
       OP_SSTORE, OP_SLOAD, OP_ARRLOADIDX, OP_ARRSTOREIDX, OP_ARRAPPEND, Ideal!OP_PUSH,
       Ideal!OP_PUSH_TRUE, Ideal!OP_PUSH_FALSE, Ideal!OP_PUSH_ARRAY, Ideal!OP_IADD,
       Ideal!OP_IADDSTORE, Ideal!OP_ISUB, Ideal!OP_ISUBSTORE, Ideal!OP_IMUL, Ideal!OP_IMULSTORE,
       Ideal!OP_IDIV, Ideal!OP_IDIVSTORE, Ideal!OP_INEG, Ideal!OP_IGT, Ideal!OP_IGTE, Ideal!OP_ILT,
       Ideal!OP_ILTE, Ideal!OP_IEQ, Ideal!OP_IMOD, Ideal!OP_BEQ, Ideal!OP_INEQ, Ideal!OP_BNEQ,
       Ideal!OP_ISTORE, Ideal!OP_ILOAD, Ideal!OP_BSTORE, Ideal!OP_BLOAD, Ideal!OP_ARRSTORE,
       Ideal!OP_ARRLOAD, Ideal!OP_NOT, Ideal!OP_JMPN, Ideal!OP_JMPT, Ideal!OP_JMP,
       Ideal!OP_PUSH_STRING, Ideal!OP_SCONCAT, Ideal!OP_SSTORE, Ideal!OP_SLOAD, Ideal!OP_ARRLOADIDX,
       Ideal!OP_ARRSTOREIDX, Ideal!OP_ARRAPPEND

(* Kinds of instructions.                                                  *)
LEMMA SameSets ==
  /\ Ideal!IntArith = IntArith
  /\ Ideal!IntTest = IntTest
  /\ Ideal!BoolTest = BoolTest
  /\ Ideal!Compound = Compound
  /\ Ideal!Loads = Loads
  /\ Ideal!Stores = Stores
  /\ Ideal!CondJumps = CondJumps
  /\ Ideal!Opcodes = Opcodes
  /\ Ideal!Indexing = Indexing
  /\ Ideal!WithOperand = WithOperand
  /\ Ideal!Slotted = Slotted
BY SameOpcodes DEF IntArith, IntTest, BoolTest, Compound, Loads, Stores, CondJumps, Opcodes, Indexing,
       WithOperand, Slotted, Ideal!IntArith, Ideal!IntTest, Ideal!BoolTest, Ideal!Compound,
       Ideal!Loads, Ideal!Stores, Ideal!CondJumps, Ideal!Opcodes, Ideal!Indexing, Ideal!WithOperand,
       Ideal!Slotted

(* The members an instruction reads.                                       *)
LEMMA SameNeeds == \A o : Ideal!Needs(o) = Needs(o)
<1>1. Ideal!Operand = Operand
  BY DEF Operand, Ideal!Operand, Unsigned16, Ideal!Unsigned16
<1> QED
  BY SameOpcodes, SameSets, <1>1, Zenon DEF Needs, Ideal!Needs

(* The instruction fetched.                                                *)
LEMMA SameFetch ==
  /\ Ideal!InCode = InCode /\ Ideal!Op = Op /\ Ideal!Fetchable = Fetchable
  /\ Ideal!Operand = Operand /\ Ideal!Steps = Steps /\ Ideal!Following = Following
  /\ Ideal!Arity = Arity /\ Ideal!ArrayAt = ArrayAt
<1>1. Ideal!InCode = InCode
  BY DEF Ideal!InCode, InCode
<1>2. Ideal!Op = Op
  BY DEF Ideal!Op, Op
<1>3. Ideal!Fetchable = Fetchable /\ Ideal!Following = Following
  BY <1>1, <1>2, SameSets DEF Ideal!Fetchable, Fetchable, Ideal!OperandBytes, OperandBytes,
     Ideal!Following, Following
<1>4. Ideal!Operand = Operand
  BY DEF Operand, Ideal!Operand, Unsigned16, Ideal!Unsigned16
<1>5. Ideal!Steps = Steps
  BY DEF Steps, Ideal!Steps, Signed16, Ideal!Signed16, Unsigned16, Ideal!Unsigned16
<1>6. Ideal!Arity = Arity
  BY <1>2, SameNeeds DEF Arity, Ideal!Arity
<1>7. Ideal!ArrayAt = ArrayAt
  BY <1>2, SameOpcodes DEF ArrayAt, Ideal!ArrayAt
<1> QED
  BY <1>1, <1>2, <1>3, <1>4, <1>5, <1>6, <1>7

(* Arithmetic and tests.                                                   *)
LEMMA SameArith ==
  /\ \A n : Ideal!Wrap(n) = Wrap(n)
  /\ \A o, a, b : Ideal!Arith(o, a, b) = Arith(o, a, b)
  /\ \A o, a, b : Ideal!Test(o, a, b) = Test(o, a, b)
<1>1. Ideal!INT_MIN = INT_MIN
  BY DEF INT_MIN, Ideal!INT_MIN
<1>2. \A n : Ideal!Wrap(n) = Wrap(n)
  BY <1>1 DEF Wrap, Ideal!Wrap
<1>3. \A n : Ideal!AbsInt(n) = AbsInt(n)
  BY DEF AbsInt, Ideal!AbsInt
<1>4. \A a, b : Ideal!Quotient(a, b) = Quotient(a, b)
  BY <1>3, Zenon DEF Quotient, Ideal!Quotient
<1>5. \A a, b : Ideal!Remainder(a, b) = Remainder(a, b)
  BY <1>4 DEF Remainder, Ideal!Remainder
<1>6. \A o, a, b : Ideal!Arith(o, a, b) = Arith(o, a, b)
  BY <1>2, <1>4, <1>5, SameOpcodes, Zenon DEF Arith, Ideal!Arith
<1>7. \A o, a, b : Ideal!Test(o, a, b) = Test(o, a, b)
  BY SameOpcodes, Zenon DEF Test, Ideal!Test
<1> QED
  BY <1>2, <1>6, <1>7

(* The values made.                                                        *)
LEMMA SameValues ==
  /\ \A n : Ideal!IntValue(n) = IntValue(n)
  /\ \A p : Ideal!BoolValue(p) = BoolValue(p)
  /\ \A t, a : Ideal!ArrayRef(t, a) = ArrayRef(t, a)
  /\ \A t : Ideal!ArrayOf(t) = ArrayOf(t)
  /\ Ideal!unknown_type = unknown_type /\ Ideal!string_type = string_type
  /\ Ideal!Garbage = Garbage /\ Ideal!INT_MIN = INT_MIN
BY DEF Ideal!IntValue, IntValue, Ideal!BoolValue, BoolValue, Ideal!ArrayRef, ArrayRef,
       Ideal!ArrayOf, ArrayOf, Ideal!unknown_type, unknown_type, Ideal!string_type, string_type,
       Ideal!Garbage, Garbage, Ideal!INT_MIN, INT_MIN, Ideal!int_type, int_type, Ideal!bool_type, bool_type,
       Ideal!Scalar, Scalar


-----------------------------------------------------------------------------
(* Seeing sequences of values.                                             *)

(* What Seen makes of values.                                              *)
Sights(ss) == {Seen(v, ss) : v \in StackValue}

(* A view has its sequence's length, and its values one by one.            *)
LEMMA ViewIs ==
  ASSUME NEW vals \in Seq(StackValue), NEW ss
  PROVE  /\ View(vals, ss) \in Seq(Sights(ss))
         /\ Len(View(vals, ss)) = Len(vals) /\ DOMAIN View(vals, ss) = DOMAIN vals
         /\ DOMAIN vals = 1 .. Len(vals) /\ Len(vals) \in Nat
         /\ \A i \in 1 .. Len(vals) : View(vals, ss)[i] = Seen(vals[i], ss) /\ vals[i] \in StackValue
<1>1. Len(vals) \in Nat /\ DOMAIN vals = 1 .. Len(vals) /\ \A i \in 1 .. Len(vals) : vals[i] \in StackValue
  BY LenProperties, ElementOfSeq
<1>2. View(vals, ss) = [i \in 1 .. Len(vals) |-> Seen(vals[i], ss)]
  BY <1>1 DEF View
<1>3. \A i \in 1 .. Len(vals) : Seen(vals[i], ss) \in Sights(ss)
  BY <1>1 DEF Sights
<1> DEFINE W == Sights(ss)
           w(i) == Seen(vals[i], ss)
           q == View(vals, ss)
           n == Len(vals)
<1>4. q = [i \in 1 .. n |-> w(i)] /\ \A i \in 1 .. n : w(i) \in W
  BY <1>2, <1>3
<1>5. n \in Nat
  BY <1>1
<1> HIDE DEF W, w, q, n
<1>6. q \in Seq(W) /\ Len(q) = n
  BY <1>4, <1>5
<1> QED
  BY <1>1, <1>2, <1>6 DEF W, q, n

(* Two views that agree value by value.                                    *)
LEMMA ViewEqual ==
  ASSUME NEW p \in Seq(StackValue), NEW ss, NEW t, NEW W, t \in Seq(W), Len(t) = Len(p),
         \A i \in 1 .. Len(p) : t[i] = Seen(p[i], ss)
  PROVE  View(p, ss) = t
<1> DEFINE q == View(p, ss)
           X == Sights(ss) \cup W
<1>1. q \in Seq(Sights(ss)) /\ Len(q) = Len(p) /\ \A i \in 1 .. Len(p) : q[i] = Seen(p[i], ss)
  BY ViewIs
<1>2. Sights(ss) \subseteq X /\ W \subseteq X
  OBVIOUS
<1> HIDE DEF q, X
<1>3. q \in Seq(X) /\ t \in Seq(X)
  BY <1>1, <1>2, SeqGrows
<1>4. q = t
  BY <1>1, <1>3, SeqEqual
<1> QED
  BY <1>4 DEF q

(* One value, and none.                                                    *)
LEMMA ViewOne ==
  ASSUME NEW v \in StackValue, NEW ss
  PROVE  View(<<v>>, ss) = <<Seen(v, ss)>> /\ View(<<>>, ss) = <<>>
<1>1. <<v>> \in Seq(StackValue) /\ Len(<<v>>) = 1 /\ <<v>>[1] = v
  OBVIOUS
<1> DEFINE x == Seen(v, ss)
<1>2. <<x>> \in Seq({x}) /\ Len(<<x>>) = 1 /\ <<x>>[1] = x
  <2> HIDE DEF x
  <2> QED
    OBVIOUS
<1>3. View(<<v>>, ss) = <<x>>
  <2>1. \A i \in 1 .. Len(<<v>>) : <<x>>[i] = Seen(<<v>>[i], ss)
    BY <1>1, <1>2
  <2> HIDE DEF x
  <2> QED
    BY <1>1, <1>2, <2>1, ViewEqual
<1>4. View(<<>>, ss) = <<>>
  <2> DEFINE q == View(<<>>, ss)
  <2>0. <<>> \in Seq(StackValue)
    OBVIOUS
  <2>1. q \in Seq(Sights(ss)) /\ Len(q) = Len(<<>>)
    BY <2>0, ViewIs
  <2> HIDE DEF q
  <2>2. q = <<>>
    BY <2>1
  <2> QED
    BY <2>2 DEF q
<1> QED
  BY <1>3, <1>4

(* The parts of a sequence are seen where they are.                        *)
LEMMA ViewConcat ==
  ASSUME NEW p \in Seq(StackValue), NEW q \in Seq(StackValue), NEW ss
  PROVE  View(p \o q, ss) = View(p, ss) \o View(q, ss)
<1> DEFINE W == Sights(ss)
           a == View(p, ss)
           b == View(q, ss)
           c == p \o q
<1>1. /\ a \in Seq(W) /\ Len(a) = Len(p) /\ \A i \in 1 .. Len(p) : a[i] = Seen(p[i], ss)
      /\ b \in Seq(W) /\ Len(b) = Len(q) /\ \A i \in 1 .. Len(q) : b[i] = Seen(q[i], ss)
      /\ Len(p) \in Nat /\ Len(q) \in Nat
  BY ViewIs
<1>2. /\ c \in Seq(StackValue) /\ Len(c) = Len(p) + Len(q)
      /\ \A i \in 1 .. Len(p) + Len(q) : c[i] = IF i <= Len(p) THEN p[i] ELSE q[i - Len(p)]
  BY ConcatProperties
<1> HIDE DEF W, a, b, c
<1>3. /\ a \o b \in Seq(W) /\ Len(a \o b) = Len(a) + Len(b)
      /\ \A i \in 1 .. Len(a) + Len(b) : (a \o b)[i] = IF i <= Len(a) THEN a[i] ELSE b[i - Len(a)]
  <2>1. a \in Seq(W) /\ b \in Seq(W)
    BY <1>1
  <2> QED
    BY ONLY <2>1, ConcatProperties
<1>4. ASSUME NEW i \in 1 .. Len(c) PROVE (a \o b)[i] = Seen(c[i], ss)
  <2>1. CASE i <= Len(p)
    <3>1. i \in 1 .. Len(p)
      BY <1>1, <1>2, <2>1
    <3> QED
      BY <1>1, <1>2, <1>3, <2>1, <3>1
  <2>2. CASE ~(i <= Len(p))
    <3>1. i - Len(p) \in 1 .. Len(q)
      BY <1>1, <1>2, <2>2
    <3> QED
      BY <1>1, <1>2, <1>3, <2>2, <3>1
  <2> QED
    BY <2>1, <2>2
<1>5. Len(a \o b) = Len(c)
  BY <1>1, <1>2, <1>3
<1>6. View(c, ss) = a \o b
  BY <1>2, <1>3, <1>4, <1>5, ViewEqual
<1> QED
  BY <1>6 DEF a, b, c

(* A stretch of a view is the view of that stretch.                        *)
LEMMA ViewSub ==
  ASSUME NEW p \in Seq(StackValue), NEW ss, NEW m \in Nat \ {0}, NEW n \in 0 .. Len(p)
  PROVE  View(SubSeq(p, m, n), ss) = SubSeq(View(p, ss), m, n) /\ SubSeq(p, m, n) \in Seq(StackValue)
<1> DEFINE W == Sights(ss)
           a == View(p, ss)
           c == SubSeq(p, m, n)
           b == SubSeq(a, m, n)
<1>1. /\ a \in Seq(W) /\ Len(a) = Len(p) /\ Len(p) \in Nat
      /\ \A i \in 1 .. Len(p) : a[i] = Seen(p[i], ss) /\ p[i] \in StackValue
  BY ViewIs
<1>2. m \in Int /\ n \in Int /\ \A i \in m .. n : i \in 1 .. Len(p)
  BY <1>1
<1>3. \A i \in m .. n : p[i] \in StackValue
  BY <1>1, <1>2
<1> HIDE DEF W, a
<1>4. \A i \in m .. n : a[i] \in W
  BY <1>1, <1>2, ElementOfSeq
<1>5. /\ c \in Seq(StackValue) /\ Len(c) = IF m <= n THEN n - m + 1 ELSE 0
      /\ \A i \in 1 .. n - m + 1 : c[i] = p[m + i - 1]
  BY <1>2, <1>3, SubSeqProperties
<1>6. /\ b \in Seq(W) /\ Len(b) = IF m <= n THEN n - m + 1 ELSE 0
      /\ \A i \in 1 .. n - m + 1 : b[i] = a[m + i - 1]
  BY <1>2, <1>4, SubSeqProperties
<1> HIDE DEF b, c
<1>7. ASSUME NEW i \in 1 .. Len(c) PROVE b[i] = Seen(c[i], ss)
  <2>1. i \in 1 .. n - m + 1 /\ m + i - 1 \in m .. n
    BY <1>2, <1>5
  <2>2. m + i - 1 \in 1 .. Len(p)
    BY <1>2, <2>1
  <2> QED
    BY <1>1, <1>5, <1>6, <2>1, <2>2
<1>8. View(c, ss) = b
  BY <1>5, <1>6, <1>7, ViewEqual
<1> QED
  BY <1>5, <1>8 DEF a, b, c

(* Another value in the place of one.                                      *)
LEMMA ViewExcept ==
  ASSUME NEW p \in Seq(StackValue), NEW ss, NEW k \in 1 .. Len(p), NEW v \in StackValue
  PROVE  View([p EXCEPT ![k] = v], ss) = [View(p, ss) EXCEPT ![k] = Seen(v, ss)]
<1>1. DOMAIN [p EXCEPT ![k] = v] = DOMAIN p /\ k \in DOMAIN p
  BY LenProperties
<1>2. \A i \in DOMAIN p : [p EXCEPT ![k] = v][i] = IF i = k THEN v ELSE p[i]
  BY <1>1
<1> DEFINE q == [p EXCEPT ![k] = v]
<1>3. View(q, ss) = [i \in DOMAIN q |-> Seen(q[i], ss)] /\ View(p, ss) = [i \in DOMAIN p |-> Seen(p[i], ss)]
  BY DEF View
<1>4. DOMAIN q = DOMAIN p /\ \A i \in DOMAIN p : q[i] = IF i = k THEN v ELSE p[i]
  BY <1>1, <1>2
<1> HIDE DEF q
<1>5. View(q, ss) = [View(p, ss) EXCEPT ![k] = Seen(v, ss)]
  BY <1>1, <1>3, <1>4
<1> QED
  BY <1>5 DEF q

(* One more value at the end.                                              *)
LEMMA ViewAppend ==
  ASSUME NEW p \in Seq(StackValue), NEW ss, NEW v \in StackValue
  PROVE  View(Append(p, v), ss) = Append(View(p, ss), Seen(v, ss))
<1> DEFINE W == Sights(ss)
           a == View(p, ss)
           x == Seen(v, ss)
           c == Append(p, v)
           b == Append(a, x)
<1>1. /\ a \in Seq(W) /\ Len(a) = Len(p) /\ Len(p) \in Nat
      /\ \A i \in 1 .. Len(p) : a[i] = Seen(p[i], ss)
  BY ViewIs
<1>2. x \in W
  BY DEF Sights
<1>3. /\ c \in Seq(StackValue) /\ Len(c) = Len(p) + 1
      /\ \A i \in 1 .. Len(p) : c[i] = p[i]
      /\ c[Len(p) + 1] = v
  BY AppendProperties
<1> HIDE DEF W, a, x, c
<1>4. /\ b \in Seq(W) /\ Len(b) = Len(a) + 1
      /\ \A i \in 1 .. Len(a) : b[i] = a[i]
      /\ b[Len(a) + 1] = x
  BY <1>1, <1>2, AppendProperties
<1> HIDE DEF b
<1>5. ASSUME NEW i \in 1 .. Len(c) PROVE b[i] = Seen(c[i], ss)
  <2>1. CASE i \in 1 .. Len(p)
    BY <1>1, <1>3, <1>4, <2>1
  <2>2. CASE i = Len(p) + 1
    BY <1>1, <1>3, <1>4, <2>2 DEF x
  <2> QED
    BY <1>1, <1>3, <2>1, <2>2
<1>6. View(c, ss) = b
  BY <1>1, <1>3, <1>4, <1>5, ViewEqual
<1> QED
  BY <1>6 DEF a, b, c, x

-----------------------------------------------------------------------------
(* What the ideal machine sees of a state.                                 *)

(* The view of the next state is the next state's view.                    *)
LEMMA ViewPrimes ==
  /\ SeenConstants' = View(constants', strs')
  /\ SeenStack' = View(stack', strs')
  /\ SeenLocals' = View(locals', strs')
  /\ SeenArrays' = [a \in DOMAIN arrs' |-> View(arrs'[a].arr_val, strs')]
BY DEF SeenConstants, SeenStack, SeenLocals, SeenArrays, View, Seen

(* A text is rewritten, or lost.                                           *)
Rewritten(ss, tt) == \E s \in DOMAIN ss : s \notin DOMAIN tt \/ tt[s].text # ss[s].text

(* As long as none is a value looks the same.                              *)
LEMMA SeenStays ==
  ASSUME NEW ss, NEW tt, NEW as, ~Rewritten(ss, tt), NEW v \in Pointing(ss, as)
  PROVE  Seen(v, tt) = Seen(v, ss)
BY DEF Rewritten, Pointing, Located, Seen

(* So does a sequence of them.                                             *)
LEMMA ViewStays ==
  ASSUME NEW ss, NEW tt, NEW as, ~Rewritten(ss, tt), NEW vals \in Seq(Pointing(ss, as))
  PROVE  View(vals, tt) = View(vals, ss)
<1>1. \A i \in DOMAIN vals : vals[i] \in Pointing(ss, as)
  BY ElementOfSeq, LenProperties
<1>2. \A i \in DOMAIN vals : Seen(vals[i], tt) = Seen(vals[i], ss)
  BY <1>1, SeenStays
<1> QED
  BY <1>2 DEF View

(* What an instruction leaves alone looks the same afterwards.             *)
LEMMA KeptInSight ==
  ASSUME IInv, ~Rewritten(strs, strs')
  PROVE  /\ \A v \in Good : Seen(v, strs') = Seen(v, strs)
         /\ \A vals \in Seq(Good) : View(vals, strs') = View(vals, strs)
         /\ UNCHANGED constants => UNCHANGED SeenConstants
         /\ UNCHANGED locals => UNCHANGED SeenLocals
         /\ UNCHANGED stack => UNCHANGED SeenStack
         /\ UNCHANGED arrs => UNCHANGED SeenArrays
         /\ \A a \in DOMAIN arrs : View(arrs[a].arr_val, strs') = View(arrs[a].arr_val, strs)
<1>1. \A v \in Good : Seen(v, strs') = Seen(v, strs)
  BY SeenStays DEF Good
<1>2. \A vals \in Seq(Good) : View(vals, strs') = View(vals, strs)
  BY ViewStays DEF Good
<1>3. constants \in Seq(Good) /\ locals \in Seq(Good) /\ stack \in Seq(Good)
      /\ \A a \in DOMAIN arrs : arrs[a].arr_val \in Seq(Good)
  BY DEF IInv
<1>4. \A a \in DOMAIN arrs : View(arrs[a].arr_val, strs') = View(arrs[a].arr_val, strs)
  BY <1>2, <1>3
<1>5. UNCHANGED arrs => UNCHANGED SeenArrays
  <2>1. SeenArrays = [a \in DOMAIN arrs |-> View(arrs[a].arr_val, strs)]
    BY DEF SeenArrays
  <2> QED
    BY <1>4, <2>1, ViewPrimes
<1>6. UNCHANGED constants => UNCHANGED SeenConstants
  BY <1>2, <1>3, ViewPrimes DEF SeenConstants
<1>7. UNCHANGED locals => UNCHANGED SeenLocals
  BY <1>2, <1>3, ViewPrimes DEF SeenLocals
<1>8. UNCHANGED stack => UNCHANGED SeenStack
  BY <1>2, <1>3, ViewPrimes DEF SeenStack
<1> QED
  BY <1>1, <1>2, <1>4, <1>5, <1>6, <1>7, <1>8

(* What an instruction finds on the stack looks like what it finds there.  *)
LEMMA PopsSeen ==
  ASSUME IInv, Arity \in Nat, Arity <= Len(stack)
  PROVE  /\ \A i \in 1 .. Arity : Ideal!Popped(i) = Seen(Popped(i), strs)
         /\ Ideal!Rest = View(Rest, strs)
         /\ Len(SeenStack) = Len(stack)
<1>1. stack \in Seq(StackValue)
  BY GoodIsTyped DEF IInv
<1>2. /\ Len(SeenStack) = Len(stack) /\ Len(stack) \in Nat
      /\ \A i \in 1 .. Len(stack) : SeenStack[i] = Seen(stack[i], strs)
  BY <1>1, ViewIs DEF SeenStack
<1>3. \A i \in 1 .. Arity : Ideal!Popped(i) = Seen(Popped(i), strs)
  BY <1>2 DEF Ideal!Popped, Popped
<1>4. Len(stack) - Arity \in 0 .. Len(stack)
  BY <1>2
<1>5. Ideal!Rest = SubSeq(SeenStack, 1, Len(stack) - Arity)
  BY <1>2, SameFetch DEF Ideal!Rest
<1>6. View(SubSeq(stack, 1, Len(stack) - Arity), strs) = SubSeq(View(stack, strs), 1, Len(stack) - Arity)
  BY <1>1, <1>4, ViewSub
<1> QED
  BY <1>2, <1>3, <1>5, <1>6 DEF Rest, SeenStack

(* So do the locals, the constants and the arrays.                         *)
LEMMA HeldSeen ==
  ASSUME IInv
  PROVE  /\ Len(SeenLocals) = Len(locals)
         /\ \A i \in 1 .. Len(locals) : SeenLocals[i] = Seen(locals[i], strs)
         /\ Len(SeenConstants) = Len(constants)
         /\ \A i \in 1 .. Len(constants) : SeenConstants[i] = Seen(constants[i], strs)
         /\ Len(SeenArrays) = Len(arrs)
         /\ \A a \in DOMAIN arrs :
              /\ SeenArrays[a] = View(arrs[a].arr_val, strs)
              /\ Len(SeenArrays[a]) = Len(arrs[a].arr_val)
              /\ \A i \in 1 .. Len(arrs[a].arr_val) :
                   SeenArrays[a][i] = Seen(arrs[a].arr_val[i], strs)
<1>1. locals \in Seq(StackValue) /\ constants \in Seq(StackValue)
      /\ \A a \in DOMAIN arrs : arrs[a].arr_val \in Seq(StackValue)
  BY GoodIsTyped DEF IInv
<1>2. /\ Len(SeenLocals) = Len(locals)
      /\ \A i \in 1 .. Len(locals) : SeenLocals[i] = Seen(locals[i], strs)
  BY <1>1, ViewIs DEF SeenLocals
<1>3. /\ Len(SeenConstants) = Len(constants)
      /\ \A i \in 1 .. Len(constants) : SeenConstants[i] = Seen(constants[i], strs)
  BY <1>1, ViewIs DEF SeenConstants
<1>4. \A a \in DOMAIN arrs : SeenArrays[a] = View(arrs[a].arr_val, strs)
  BY DEF SeenArrays
<1>5. Len(SeenArrays) = Len(arrs)
  <2>1. Len(arrs) \in Nat /\ DOMAIN arrs = 1 .. Len(arrs)
    BY LenProperties DEF IInv
  <2> DEFINE w(a) == View(arrs[a].arr_val, strs)
             n == Len(arrs)
  <2>2. SeenArrays = [a \in 1 .. n |-> w(a)] /\ n \in Nat
    BY <2>1 DEF SeenArrays
  <2> HIDE DEF w, n
  <2>3. Len(SeenArrays) = n
    BY <2>2
  <2> QED
    BY <2>3 DEF n
<1>6. ASSUME NEW a \in DOMAIN arrs
      PROVE  /\ Len(SeenArrays[a]) = Len(arrs[a].arr_val)
             /\ \A i \in 1 .. Len(arrs[a].arr_val) :
                  SeenArrays[a][i] = Seen(arrs[a].arr_val[i], strs)
  BY <1>1, <1>4, ViewIs
<1> QED
  BY <1>2, <1>3, <1>4, <1>5, <1>6

(* Only strings look other than they are.                                  *)
LEMMA SeenFields ==
  ASSUME NEW v, NEW ss
  PROVE  /\ Seen(v, ss).type = v.type /\ Seen(v, ss).member = v.member
         /\ v.member # "string_val" => Seen(v, ss).val = v.val /\ Seen(v, ss) = Ideal!Plain(v)
         /\ v.member = "string_val" => Seen(v, ss).text = ss[v.val].text
BY DEF Seen, Ideal!Plain


-----------------------------------------------------------------------------
(* What stops the machine.                                                 *)

(* Between two instructions: nothing is left to count, and the next one's  *)
(* operands are there.                                                     *)
Fed ==
  /\ IInv /\ Op \in Opcodes /\ pc \in Nat /\ pc + OperandBytes(Op) < Len(code)
  /\ ~(Len(stack) < Arity)
  /\ Op \in Slotted => ValidSlot

(* How many values it pops, and the operand it is followed by.             *)
LEMMA FedOperands ==
  ASSUME Fed
  PROVE  /\ Arity \in Nat /\ Arity <= Len(stack)
         /\ Op \in WithOperand => Operand \in Nat
         /\ Op \in Slotted => Slot \in 1 .. Len(locals)
<1>1. Op \in WithOperand => Operand \in Nat
  BY OperandType DEF Fed
<1>2. Op = OP_PUSH_ARRAY => Operand \in Nat
  BY <1>1 DEF WithOperand
<1>3. Arity \in Nat
  <2>1. Op \in Opcodes
    BY DEF Fed
  <2>2. Op \in Opcodes => Op \in IntArith \cup IntTest \cup BoolTest
                     \cup {OP_SCONCAT, OP_ARRLOADIDX, OP_ARRAPPEND}
                  \/ Op \in Compound \cup CondJumps \cup Stores \cup {OP_INEG, OP_NOT}
                  \/ Op = OP_ARRSTOREIDX \/ Op = OP_PUSH_ARRAY
                  \/ Op \in {OP_PUSH, OP_PUSH_STRING, OP_PUSH_TRUE, OP_PUSH_FALSE, OP_JMP} \cup Loads
    BY DEF Opcodes, IntArith, IntTest, BoolTest, Compound, CondJumps, Stores, Loads,
       OP_PUSH, OP_PUSH_TRUE, OP_PUSH_FALSE, OP_PUSH_ARRAY, OP_IADD, OP_IADDSTORE, OP_ISUB,
       OP_ISUBSTORE, OP_IMUL, OP_IMULSTORE, OP_IDIV, OP_IDIVSTORE, OP_INEG, OP_IGT, OP_IGTE, OP_ILT,
       OP_ILTE, OP_IEQ, OP_IMOD, OP_BEQ, OP_INEQ, OP_BNEQ, OP_ISTORE, OP_ILOAD, OP_BSTORE, OP_BLOAD,
       OP_ARRSTORE, OP_ARRLOAD, OP_NOT, OP_JMPN, OP_JMPT, OP_JMP, OP_PUSH_STRING, OP_SCONCAT,
       OP_SSTORE, OP_SLOAD, OP_ARRLOADIDX, OP_ARRSTOREIDX, OP_ARRAPPEND
  <2> QED
    BY <1>2, <2>1, <2>2, ArityOf
<1>4. Slotted \subseteq WithOperand
  BY DEF Slotted, WithOperand, Loads, Stores, Compound
<1>5. Op \in Slotted => Slot \in 1 .. Len(locals)
  <2>1. Len(locals) \in Nat
    BY LenProperties DEF IInv, Fed
  <2> QED
    BY <1>1, <1>4, <2>1 DEF Slot, ValidSlot, Fed
<1>6. Len(stack) \in Nat
  BY LenProperties DEF IInv, Fed
<1> QED
  BY <1>1, <1>3, <1>5, <1>6 DEF Fed

(* The local it names, and whether it finds the members it reads.          *)
LEMMA TypedSeen ==
  ASSUME Fed
  PROVE  /\ Op \in Slotted => /\ Ideal!Local = Seen(locals[Slot], strs)
                              /\ Ideal!Local.member = locals[Slot].member
         /\ Ideal!Typed <=> MembersMatch
<1>1. /\ Arity \in Nat /\ Arity <= Len(stack)
      /\ Op \in Slotted => Slot \in 1 .. Len(locals)
  BY FedOperands
<1>2. Op \in Slotted => Ideal!Local = Seen(locals[Slot], strs)
  <2>1. IInv
    BY DEF Fed
  <2>2. \A i \in 1 .. Len(locals) : SeenLocals[i] = Seen(locals[i], strs)
    BY <2>1, HeldSeen
  <2>3. Ideal!Local = SeenLocals[Slot]
    BY SameFetch DEF Ideal!Local, Slot
  <2> QED
    BY <1>1, <2>2, <2>3
<1>3. Op \in Slotted => Ideal!Local.member = locals[Slot].member
  BY <1>2, SeenFields
<1>4. \A i \in 1 .. Arity : Ideal!Popped(i).member = Popped(i).member
  BY <1>1, PopsSeen, SeenFields DEF Fed
<1>5. Compound \subseteq Slotted
  BY DEF Slotted
<1>6. Ideal!Typed <=> MembersMatch
  BY <1>3, <1>4, <1>5, SameFetch, SameSets, SameNeeds, Zenon DEF Ideal!Typed, MembersMatch
<1> QED
  BY <1>2, <1>3, <1>6

(* The operands it reads, where their members are what it expects.         *)
LEMMA OperandsSeen ==
  ASSUME Fed, MembersMatch
  PROVE  /\ Op \in IntArith \cup IntTest \cup BoolTest =>
              Ideal!Popped(1).val = Popped(1).val /\ Ideal!Popped(2).val = Popped(2).val
         /\ Op \in Compound \cup CondJumps \cup {OP_INEG, OP_NOT} =>
              Ideal!Popped(1).val = Popped(1).val
         /\ Op \in Compound => Ideal!Local.val = locals[Slot].val
         /\ Op = OP_SCONCAT =>
              /\ Ideal!Popped(1).text = strs[Rhs].text
              /\ Ideal!Popped(2).text = strs[Lhs].text
              /\ Lhs \in DOMAIN strs /\ Rhs \in DOMAIN strs
         /\ Op \in Indexing \cup {OP_ARRAPPEND} => Ideal!Array = TheArray /\ TheArray \in DOMAIN arrs
         /\ Op \in Indexing => Ideal!Index = Index /\ Index \in Int
<1>1. /\ Arity \in Nat /\ Arity <= Len(stack) /\ Op \in Opcodes /\ IInv
  BY FedOperands DEF Fed
<1>2. /\ \A i \in 1 .. Arity : Ideal!Popped(i) = Seen(Popped(i), strs)
      /\ \A i \in 1 .. Arity : Needs(Op)[i] \in {"any", Popped(i).member}
  BY <1>1, PopsSeen DEF MembersMatch
<1>3. \A i \in 1 .. Arity : Needs(Op)[i] \in {"int_val", "bool_val", "array_val"} =>
         Ideal!Popped(i).val = Popped(i).val
  BY <1>2, SeenFields
<1>4. Op \in IntArith \cup IntTest \cup BoolTest =>
           Arity = 2 /\ Ideal!Popped(1).val = Popped(1).val /\ Ideal!Popped(2).val = Popped(2).val
  <2>1. Op \in IntArith \cup IntTest \cup BoolTest => Arity = 2
    BY <1>1, ArityOf
  <2>2. Op \in IntArith \cup IntTest \cup BoolTest =>
          Needs(Op)[1] \in {"int_val", "bool_val"} /\ Needs(Op)[2] \in {"int_val", "bool_val"}
    BY NeedsOf
  <2> QED
    BY <1>3, <2>1, <2>2
<1>5. Op \in Compound \cup CondJumps \cup {OP_INEG, OP_NOT} =>
           Ideal!Popped(1).val = Popped(1).val
  <2>1. Op \in Compound \cup CondJumps \cup {OP_INEG, OP_NOT} => Arity = 1
    BY <1>1, ArityOf
  <2>2. Op \in Compound \cup CondJumps \cup {OP_INEG, OP_NOT} =>
          Needs(Op)[1] \in {"int_val", "bool_val"}
    BY NeedsOf
  <2> QED
    BY <1>3, <2>1, <2>2
<1>6. Op \in Compound => Ideal!Local.val = locals[Slot].val
  <2>1. Op \in Compound => Op \in Slotted /\ locals[Slot].member \in {"int_val", "none"}
    BY DEF Slotted, MembersMatch
  <2> QED
    BY <2>1, TypedSeen, SeenFields
<1>7. Op = OP_SCONCAT =>
        /\ Ideal!Popped(1).text = strs[Rhs].text /\ Ideal!Popped(2).text = strs[Lhs].text
        /\ Lhs \in DOMAIN strs /\ Rhs \in DOMAIN strs
  <2>1. Op = OP_SCONCAT => Arity = 2 /\ Needs(Op) = <<"string_val", "string_val">>
    BY <1>1, ArityOf
  <2>2. Op = OP_SCONCAT => Popped(1).member = "string_val" /\ Popped(2).member = "string_val"
    BY <1>2, <2>1
  <2>3. Op = OP_SCONCAT => Popped(1) \in Good /\ Popped(2) \in Good
    BY <1>1, <2>1, PoppedGood
  <2> QED
    BY <1>2, <2>1, <2>2, <2>3, SeenFields DEF Good, Pointing, Located, Lhs, Rhs
<1>8. Op \in Indexing \cup {OP_ARRAPPEND} =>
        /\ ArrayAt \in 1 .. Arity /\ Needs(Op)[ArrayAt] = "array_val"
        /\ Op \in Indexing => ArrayAt + 1 \in 1 .. Arity /\ Needs(Op)[ArrayAt + 1] = "int_val"
  <2>1. CASE Op = OP_ARRLOADIDX
    <3>1. Arity = 2 /\ Needs(Op) = <<"array_val", "int_val">> /\ ArrayAt = 1
      BY <1>1, <2>1, ArityOf DEF ArrayAt
    <3> QED
      BY <3>1
  <2>2. CASE Op = OP_ARRSTOREIDX
    <3>1. Arity = 3 /\ Needs(Op) = <<"any", "array_val", "int_val">> /\ ArrayAt = 2
      BY <1>1, <2>2, ArityOf DEF ArrayAt, OP_ARRSTOREIDX, OP_ARRLOADIDX
    <3> QED
      BY <3>1
  <2>3. CASE Op = OP_ARRAPPEND
    <3>1. Arity = 2 /\ Needs(Op) = <<"any", "array_val">> /\ ArrayAt = 2 /\ Op \notin Indexing
      BY <1>1, <2>3, ArityOf DEF ArrayAt, OP_ARRAPPEND, OP_ARRLOADIDX, OP_ARRSTOREIDX, Indexing
    <3> QED
      BY <3>1
  <2> QED
    BY <2>1, <2>2, <2>3 DEF Indexing
<1>9. Op \in Indexing \cup {OP_ARRAPPEND} => Ideal!Array = TheArray /\ TheArray \in DOMAIN arrs
  <2>1. Op \in Indexing \cup {OP_ARRAPPEND} =>
          Popped(ArrayAt).member = "array_val" /\ Popped(ArrayAt) \in Good
    BY <1>1, <1>2, <1>8, PoppedGood
  <2> QED
    BY <1>3, <1>8, <2>1, SameFetch DEF Ideal!Array, TheArray, Good, Pointing, Located
<1>10. Op \in Indexing => Ideal!Index = Index /\ Index \in Int
  <2>1. Op \in Indexing => Popped(ArrayAt + 1) \in StackValue
    BY <1>1, <1>8, PoppedGood, GoodIsTyped
  <2> QED
    BY <1>3, <1>8, <2>1, SameFetch DEF Ideal!Index, Index, StackValue
<1> QED
  BY <1>4, <1>5, <1>6, <1>7, <1>9, <1>10


(* What is seen of the status.                                             *)
Dangling == {"dangling string", "dangling array"}

(* Stopped short is seen as running, freed as halted, all else as it is.   *)
LEMMA StatusSeen ==
  /\ status \in {"idle", "running", "halted"} => SeenStatus = status
  /\ status' \in {"idle", "running", "halted"} => SeenStatus' = status'
  /\ status' \in Dangling => SeenStatus' = "running"
  /\ status' \in {"freed", "double free"} => SeenStatus' = "halted"
  /\ status' \notin Dangling \cup {"freed", "double free"} => SeenStatus' = status'
<1>1. status \in {"idle", "running", "halted"} => SeenStatus = status
  BY Zenon DEF SeenStatus, NothingDangles
<1>2. status' \in Dangling => SeenStatus' = "running"
  BY Zenon DEF SeenStatus, NothingDangles, Dangling
<1>3. status' \in {"freed", "double free"} => SeenStatus' = "halted"
  BY Zenon DEF SeenStatus
<1>4. status' \notin Dangling \cup {"freed", "double free"} => SeenStatus' = status'
  BY Zenon DEF SeenStatus, NothingDangles, Dangling
<1>5. status' \in {"idle", "running", "halted"} => SeenStatus' = status'
  BY Zenon DEF SeenStatus, NothingDangles
<1> QED
  BY <1>1, <1>2, <1>3, <1>4, <1>5

(* What goes wrong with the values popped goes wrong with what is seen of  *)
(* them, as far as it is not the counting that is at fault.                *)
LEMMA FaultsSeen ==
  ASSUME Fed
  PROVE  Ideal!Faults = {c \in Faults \ Dangling : Fault(c)}
<1> DEFINE P1 == ~Ideal!Typed
           P2 == Op \in {OP_PUSH, OP_PUSH_STRING} /\ Operand >= Len(SeenConstants)
           P3 == Op \in Loads \cup Compound /\ Ideal!Local.member = "none"
           P4 == Op \in {OP_IDIV, OP_IMOD} /\ Ideal!Typed /\ Ideal!Popped(1).val = 0
           P5 == \/ Op = OP_IDIVSTORE /\ Ideal!Typed /\ Ideal!Popped(1).val = 0
                 \/ /\ Op \in {OP_IDIV, OP_IMOD, OP_IDIVSTORE} /\ Ideal!Typed
                    /\ Ideal!Popped(1).val = -1
                    /\ INT_MIN = IF Op = OP_IDIVSTORE THEN Ideal!Local.val ELSE Ideal!Popped(2).val
           P6 == Op \in Indexing /\ Ideal!Typed /\ Ideal!Index >= Len(SeenArrays[Ideal!Array])
           P7 == Op \in Indexing /\ Ideal!Typed /\ Ideal!Index < 0
<1>1. Ideal!Typed <=> MembersMatch
  BY TypedSeen
<1>2. Op \in {OP_IDIV, OP_IMOD} => Op \in IntArith
  BY DEF IntArith
<1>3. Op = OP_IDIVSTORE => Op \in Compound
  BY DEF Compound
<1>4. P1 <=> Fault("wrong member")
  BY <1>1 DEF Fault
<1>5. P2 <=> Fault("no such constant")
  <2>1. IInv
    BY DEF Fed
  <2> QED
    BY <2>1, HeldSeen DEF Fault
<1>6. P3 <=> Fault("uninitialized local")
  BY TypedSeen DEF Fault, Slotted
<1>7. P4 <=> Fault("division by zero")
  BY <1>1, <1>2, OperandsSeen DEF Fault, Divisor
<1>8. P5 <=> Fault("divide trap")
  <2>1. Op = OP_IDIVSTORE /\ MembersMatch =>
          Ideal!Popped(1).val = Divisor /\ Ideal!Local.val = Dividend
    BY <1>3, OperandsSeen DEF Divisor, Dividend
  <2>2. Op \in {OP_IDIV, OP_IMOD} /\ MembersMatch =>
          Ideal!Popped(1).val = Divisor /\ Ideal!Popped(2).val = Dividend /\ Op # OP_IDIVSTORE
    <3>1. Op \in {OP_IDIV, OP_IMOD} => Op # OP_IDIVSTORE
      BY ONLY TRUE DEF OP_IDIV, OP_IMOD, OP_IDIVSTORE
    <3> QED
      BY <1>2, <3>1, OperandsSeen DEF Divisor, Dividend
  <2>3. Fault("divide trap") <=>
         /\ Op \in {OP_IDIV, OP_IMOD, OP_IDIVSTORE} /\ MembersMatch
         /\ \/ Op = OP_IDIVSTORE /\ Divisor = 0
            \/ Divisor = -1 /\ Dividend = INT_MIN
    BY DEF Fault
  <2> QED
    BY <1>1, <2>1, <2>2, <2>3
<1>9. P6 <=> Fault("index out of bounds")
  <2>1. IInv
    BY DEF Fed
  <2>2. Op \in Indexing /\ MembersMatch =>
          Ideal!Index = Index /\ Ideal!Array = TheArray
            /\ Len(SeenArrays[TheArray]) = Len(arrs[TheArray].arr_val)
    BY <2>1, OperandsSeen, HeldSeen
  <2>3. Fault("index out of bounds") <=>
          Op \in Indexing /\ MembersMatch /\ Index >= Len(arrs[TheArray].arr_val)
    BY DEF Fault
  <2> QED
    BY <1>1, <2>2, <2>3
<1>10. P7 <=> Fault("negative index")
  <2>1. Fault("negative index") <=> Op \in Indexing /\ MembersMatch /\ Index < 0
    BY DEF Fault
  <2> QED
    BY <1>1, <2>1, OperandsSeen
<1>11. Ideal!Faults =
         {c \in {"wrong member"} : P1} \cup {c \in {"no such constant"} : P2}
           \cup {c \in {"uninitialized local"} : P3} \cup {c \in {"division by zero"} : P4}
           \cup {c \in {"divide trap"} : P5} \cup {c \in {"index out of bounds"} : P6}
           \cup {c \in {"negative index"} : P7}
  <2>1. /\ Ideal!OP_PUSH = OP_PUSH /\ Ideal!OP_PUSH_STRING = OP_PUSH_STRING
        /\ Ideal!OP_IDIV = OP_IDIV /\ Ideal!OP_IMOD = OP_IMOD /\ Ideal!OP_IDIVSTORE = OP_IDIVSTORE
        /\ Ideal!Loads = Loads /\ Ideal!Compound = Compound /\ Ideal!Indexing = Indexing
        /\ Ideal!Op = Op /\ Ideal!Operand = Operand /\ Ideal!INT_MIN = INT_MIN
    BY SameFetch, SameOpcodes, SameSets, SameValues
  <2> DEFINE Q2 == Ideal!Op \in {Ideal!OP_PUSH, Ideal!OP_PUSH_STRING} /\ Ideal!Operand >= Len(SeenConstants)
             Q3 == Ideal!Op \in Ideal!Loads \cup Ideal!Compound /\ Ideal!Local.member = "none"
             Q4 == Ideal!Op \in {Ideal!OP_IDIV, Ideal!OP_IMOD} /\ Ideal!Typed /\ Ideal!Popped(1).val = 0
             Q5 == \/ Ideal!Op = Ideal!OP_IDIVSTORE /\ Ideal!Typed /\ Ideal!Popped(1).val = 0
                   \/ /\ Ideal!Op \in {Ideal!OP_IDIV, Ideal!OP_IMOD, Ideal!OP_IDIVSTORE} /\ Ideal!Typed
                      /\ Ideal!Popped(1).val = -1
                      /\ Ideal!INT_MIN = IF Ideal!Op = Ideal!OP_IDIVSTORE
                                         THEN Ideal!Local.val ELSE Ideal!Popped(2).val
             Q6 == Ideal!Op \in Ideal!Indexing /\ Ideal!Typed /\ Ideal!Index >= Len(SeenArrays[Ideal!Array])
             Q7 == Ideal!Op \in Ideal!Indexing /\ Ideal!Typed /\ Ideal!Index < 0
  <2>2. Ideal!Faults =
         {c \in {"wrong member"} : P1} \cup {c \in {"no such constant"} : Q2}
           \cup {c \in {"uninitialized local"} : Q3} \cup {c \in {"division by zero"} : Q4}
           \cup {c \in {"divide trap"} : Q5} \cup {c \in {"index out of bounds"} : Q6}
           \cup {c \in {"negative index"} : Q7}
    BY Zenon DEF Ideal!Faults
  <2>3. (Q2 <=> P2) /\ (Q3 <=> P3) /\ (Q4 <=> P4) /\ (Q5 <=> P5) /\ (Q6 <=> P6) /\ (Q7 <=> P7)
    BY <2>1, Zenon
  <2> HIDE DEF P1, P2, P3, P4, P5, P6, P7, Q2, Q3, Q4, Q5, Q6, Q7
  <2> QED
    BY <2>2, <2>3, Zenon
<1> HIDE DEF P1, P2, P3, P4, P5, P6, P7
<1>12. \A c : c \in Faults \ Dangling /\ Fault(c) <=>
         \/ (c = "wrong member" /\ P1)
         \/ (c = "no such constant" /\ P2)
         \/ (c = "uninitialized local" /\ P3)
         \/ (c = "division by zero" /\ P4)
         \/ (c = "divide trap" /\ P5)
         \/ (c = "index out of bounds" /\ P6)
         \/ (c = "negative index" /\ P7)
  <2>1. Faults \ Dangling =
          {"wrong member", "no such constant", "uninitialized local", "division by zero",
           "divide trap", "index out of bounds", "negative index"}
    BY ONLY TRUE, Zenon DEF Faults, Dangling
  <2> QED
    BY <1>4, <1>5, <1>6, <1>7, <1>8, <1>9, <1>10, <2>1, Zenon
<1>13. \A c : c \in Ideal!Faults <=> c \in Faults \ Dangling /\ Fault(c)
  BY <1>11, <1>12, Zenon
<1> QED
  BY <1>13, Zenon

(* The machine is stopped where the ideal machine is stopped, by the same  *)
(* obstacles, or short of what was freed.                                  *)
LEMMA ObstaclesSeen ==
  ASSUME IInv, status = "running", todo = <<>>
  PROVE  Ideal!Obstacles = Obstacles \ Dangling
<1> DEFINE F == {c \in Faults : Fault(c)}
<1>1. Obstacles =
        IF ~InCode THEN {"bad fetch"}
        ELSE IF Op \notin Opcodes THEN {"unknown opcode"}
        ELSE IF ~Fetchable THEN {"bad fetch"}
        ELSE IF Op \in Stores /\ ~ValidSlot THEN {"invalid slot"}
        ELSE IF Len(stack) < Arity THEN {"stack underflow"}
        ELSE IF Op \in Slotted /\ ~ValidSlot THEN {"invalid slot"}
        ELSE F
  BY Zenon DEF Obstacles
<1>2. Ideal!Obstacles =
        IF ~InCode THEN {"bad fetch"}
        ELSE IF Op \notin Opcodes THEN {"unknown opcode"}
        ELSE IF ~Fetchable THEN {"bad fetch"}
        ELSE IF Op \in Stores /\ Operand >= Len(SeenLocals) THEN {"invalid slot"}
        ELSE IF Len(SeenStack) < Arity THEN {"stack underflow"}
        ELSE IF Op \in Slotted /\ Operand >= Len(SeenLocals) THEN {"invalid slot"}
        ELSE Ideal!Faults
  BY SameFetch, SameOpcodes, SameSets, Zenon DEF Ideal!Obstacles
<1>3. /\ Len(SeenLocals) = Len(locals) /\ Len(locals) \in Nat
      /\ Len(SeenStack) = Len(stack) /\ Len(stack) \in Nat
  <2>1. stack \in Seq(StackValue) /\ Len(stack) \in Nat /\ Len(locals) \in Nat
    BY GoodIsTyped, LenProperties DEF IInv
  <2> QED
    BY <2>1, HeldSeen, ViewIs DEF SeenStack
<1>4. InCode /\ Fetchable => pc \in Nat /\ pc + OperandBytes(Op) < Len(code)
  BY DEF InCode, Fetchable, IInv
<1>5. InCode /\ Fetchable /\ Op \in Slotted => (ValidSlot <=> ~(Operand >= Len(locals)))
  <2>1. Slotted \subseteq WithOperand
    BY DEF Slotted, WithOperand, Loads, Stores, Compound
  <2>2. InCode /\ Fetchable /\ Op \in Slotted => Operand \in Nat
    BY <1>4, <2>1, OperandType
  <2> QED
    BY <1>3, <2>2 DEF ValidSlot
<1>6. Stores \subseteq Slotted
  BY DEF Slotted
<1>7. InCode /\ Op \in Opcodes /\ Fetchable /\ (Op \in Slotted => ValidSlot) /\ ~(Len(stack) < Arity)
        => Ideal!Faults = F \ Dangling
  <2>1. SUFFICES ASSUME InCode, Op \in Opcodes, Fetchable, Op \in Slotted => ValidSlot,
                        ~(Len(stack) < Arity)
                 PROVE  Ideal!Faults = F \ Dangling
    OBVIOUS
  <2>2. Fed
    BY <1>4, <2>1 DEF Fed
  <2> QED
    BY <2>2, FaultsSeen
<1>8. /\ {"bad fetch"} \ Dangling = {"bad fetch"} /\ {"invalid slot"} \ Dangling = {"invalid slot"}
      /\ {"unknown opcode"} \ Dangling = {"unknown opcode"}
      /\ {"stack underflow"} \ Dangling = {"stack underflow"}
  BY ONLY TRUE, Zenon DEF Dangling
<1> HIDE DEF F
<1> QED
  BY <1>1, <1>2, <1>3, <1>5, <1>6, <1>7, <1>8


-----------------------------------------------------------------------------
(* One instruction is one instruction of the ideal machine.                *)

(* Where the machine goes ahead the ideal machine goes ahead.              *)
LEMMA AtSeen ==
  ASSUME IInv, NEW ops, At(ops)
  PROVE  /\ Ideal!At(ops) /\ Fed /\ MembersMatch /\ Op \in ops
         /\ Arity \in Nat /\ Arity <= Len(stack)
<1>1. /\ status = "running" /\ todo = <<>> /\ pc < Len(code) /\ InCode /\ Op \in ops
      /\ Obstacles = {}
  BY DEF At, Ready
<1>2. Ideal!Obstacles = {}
  BY <1>1, ObstaclesSeen
<1>3. SeenStatus = "running"
  BY <1>1, StatusSeen
<1>4. Ideal!At(ops)
  BY <1>1, <1>2, <1>3, SameFetch, Zenon DEF Ideal!At
<1>5. Fed
  BY Fetched DEF Fed
<1>6. MembersMatch
  BY Fetched, NoFault, Zenon
<1> QED
  BY <1>1, <1>4, <1>5, <1>6, FedOperands

(* It takes and leaves on the stack what the ideal machine does.           *)
LEMMA LeaveSeen ==
  ASSUME IInv, Arity \in Nat, Arity <= Len(stack), ~Rewritten(strs, strs'),
         NEW pushed \in Seq(StackValue), NEW extra, Replace(pushed, extra),
         UNCHANGED <<code, constants, status>>
  PROVE  Ideal!Leave(View(pushed, strs'))
<1>1. Rest \in Seq(Good) /\ Rest \in Seq(StackValue)
  BY PoppedGood, GoodIsTyped
<1>2. stack' = Rest \o pushed
  BY DEF Replace
<1>3. SeenStack' = View(Rest, strs') \o View(pushed, strs')
  BY <1>1, <1>2, ViewConcat, ViewPrimes
<1>4. View(Rest, strs') = Ideal!Rest
  BY <1>1, KeptInSight, PopsSeen
<1>5. UNCHANGED SeenConstants
  BY KeptInSight
<1>6. UNCHANGED SeenStatus
  BY DEF SeenStatus, NothingDangles
<1> QED
  BY <1>3, <1>4, <1>5, <1>6 DEF Ideal!Leave

(* A push and a pop.                                                       *)
LEMMA PushSeen ==
  ASSUME IInv, NEW ops, At(ops), NEW v \in StackValue, NEW extra, Replace(<<v>>, extra),
         ~Rewritten(strs, strs'), Proceed
  PROVE  Ideal!At(ops) /\ Ideal!Push(Seen(v, strs'))
<1>1. UNCHANGED <<code, constants, status>> /\ pc' = Following
  BY DEF Proceed
<1>2. <<v>> \in Seq(StackValue)
  OBVIOUS
<1>3. Ideal!Leave(View(<<v>>, strs'))
  BY <1>1, <1>2, AtSeen, LeaveSeen
<1>4. View(<<v>>, strs') = <<Seen(v, strs')>>
  BY ViewOne
<1> QED
  BY <1>1, <1>3, <1>4, AtSeen, SameFetch DEF Ideal!Push

(* A pop alone.                                                            *)
LEMMA PopSeen ==
  ASSUME IInv, NEW ops, At(ops), Replace(<<>>, <<>>),
         ~Rewritten(strs, strs'), UNCHANGED <<code, constants, status>>
  PROVE  Ideal!At(ops) /\ Ideal!Leave(<<>>)
<1>1. <<>> \in Seq(StackValue)
  OBVIOUS
<1>2. Ideal!Leave(View(<<>>, strs'))
  BY <1>1, AtSeen, LeaveSeen
<1>3. View(<<>>, strs') = <<>>
  <2>1. Garbage \in StackValue
    BY PlainGood, GoodIsTyped
  <2> QED
    BY <2>1, ViewOne
<1> QED
  BY <1>2, <1>3, AtSeen

(* A push that leaves the heap and the locals alone.                       *)
LEMMA PurePushSeen ==
  ASSUME IInv, NEW ops, At(ops), NEW v \in Good, Push(v), Proceed, HeapUnchanged,
         UNCHANGED locals
  PROVE  Ideal!At(ops) /\ Ideal!Push(Seen(v, strs)) /\ UNCHANGED <<SeenLocals, SeenArrays>>
<1>1. ~Rewritten(strs, strs')
  BY DEF HeapUnchanged, Rewritten
<1>2. v \in StackValue
  BY GoodIsTyped
<1>3. Replace(<<v>>, <<>>)
  BY DEF Push
<1>4. Ideal!At(ops) /\ Ideal!Push(Seen(v, strs'))
  BY <1>1, <1>2, <1>3, PushSeen
<1> QED
  BY <1>1, <1>4, KeptInSight DEF HeapUnchanged

(* Results of arithmetic and tests look like what they are.                *)
LEMMA PlainSeen ==
  /\ \A n, ss : Seen(IntValue(n), ss) = Ideal!Plain(IntValue(n))
  /\ \A p, ss : Seen(BoolValue(p), ss) = Ideal!Plain(BoolValue(p))
  /\ \A t, a, ss : Seen(ArrayRef(t, a), ss) = Ideal!Plain(ArrayRef(t, a))
  /\ \A ss : Seen(Garbage, ss) = Ideal!Plain(Garbage)
BY SeenFields DEF IntValue, BoolValue, ArrayRef, Garbage

(* Constants are read from the table.                                      *)
LEMMA PushConstSeen ==
  ASSUME IInv, PushConst
  PROVE  Ideal!Constant
<1> DEFINE v == constants[Operand + 1]
           ops == {OP_PUSH, OP_PUSH_STRING}
<1>1. At(ops) /\ Push(v) /\ Proceed /\ HeapUnchanged /\ UNCHANGED locals
  BY DEF PushConst
<1>2. Op \in ops /\ Fed /\ ~(Operand >= Len(constants))
  BY <1>1, AtSeen, Fetched, NoFault, Zenon
<1>3. Operand \in Nat
  BY <1>2, FedOperands DEF WithOperand
<1>4. Operand + 1 \in 1 .. Len(constants) /\ constants \in Seq(Good)
  BY <1>2, <1>3, LenProperties DEF IInv
<1>5. v \in Good /\ SeenConstants[Operand + 1] = Seen(v, strs)
  BY <1>4, ElementOfSeq, HeldSeen
<1> HIDE DEF v, ops
<1>6. Ideal!At(ops) /\ Ideal!Push(Seen(v, strs)) /\ UNCHANGED <<SeenLocals, SeenArrays>>
  BY <1>1, <1>5, PurePushSeen
<1>7. ops = {Ideal!OP_PUSH, Ideal!OP_PUSH_STRING}
  BY SameOpcodes DEF ops
<1> QED
  BY <1>5, <1>6, <1>7, SameFetch, Zenon DEF Ideal!Constant


(* The booleans.                                                           *)
LEMMA PushBoolSeen ==
  ASSUME IInv, PushBool
  PROVE  Ideal!Boolean
<1> DEFINE v == BoolValue(Op = OP_PUSH_TRUE)
           ops == {OP_PUSH_TRUE, OP_PUSH_FALSE}
<1>1. At(ops) /\ Push(v) /\ Proceed /\ HeapUnchanged /\ UNCHANGED locals
  BY DEF PushBool
<1>2. v \in Good /\ Seen(v, strs) = Ideal!Plain(v)
  BY PlainGood, PlainSeen
<1>3. v = Ideal!BoolValue(Ideal!Op = Ideal!OP_PUSH_TRUE)
  BY SameFetch, SameOpcodes, SameValues, Zenon
<1> HIDE DEF v, ops
<1>4. Ideal!At(ops) /\ Ideal!Push(Ideal!Plain(v)) /\ UNCHANGED <<SeenLocals, SeenArrays>>
  BY <1>1, <1>2, PurePushSeen
<1>5. ops = {Ideal!OP_PUSH_TRUE, Ideal!OP_PUSH_FALSE}
  BY SameOpcodes DEF ops
<1> QED
  BY <1>3, <1>4, <1>5, Zenon DEF Ideal!Boolean

(* Arithmetic on two ints, neither of them seen otherwise than it is.      *)
LEMMA IntOpSeen ==
  ASSUME IInv, IntOp
  PROVE  Ideal!Calculate
<1> DEFINE n == Arith(Op, Popped(2).val, Popped(1).val)
           v == IntValue(n)
<1>1. At(IntArith) /\ Push(v) /\ Proceed /\ HeapUnchanged /\ UNCHANGED locals
  BY DEF IntOp
<1>2. Op \in IntArith /\ Fed /\ MembersMatch
  BY <1>1, AtSeen
<1>3. Op \in {OP_IDIV, OP_IMOD, OP_IDIVSTORE} => Popped(1).val # 0
  BY <1>1, Fetched, NoFault DEF Divisor
<1>4. Popped(1).val \in Int /\ Popped(2).val \in Int
  <2>1. Arity = 2
    BY <1>2, ArityOf DEF Fed
  <2> QED
    BY <2>1, <1>2, Operands DEF Fed
<1>5. n \in Int
  BY <1>2, <1>3, <1>4, ArithInt
<1>6. n = Ideal!Arith(Ideal!Op, Ideal!Popped(2).val, Ideal!Popped(1).val)
  <2>1. Ideal!Popped(1).val = Popped(1).val /\ Ideal!Popped(2).val = Popped(2).val
    BY <1>2, OperandsSeen
  <2> QED
    BY <2>1, SameFetch, SameArith, Zenon
<1> HIDE DEF n
<1>7. v \in Good /\ Seen(v, strs) = Ideal!Plain(v)
  BY <1>5, PlainGood, PlainSeen
<1>8. v = Ideal!IntValue(Ideal!Arith(Ideal!Op, Ideal!Popped(2).val, Ideal!Popped(1).val))
  BY <1>6, SameValues, Zenon
<1> HIDE DEF v
<1>9. Ideal!At(IntArith) /\ Ideal!Push(Ideal!Plain(v)) /\ UNCHANGED <<SeenLocals, SeenArrays>>
  BY <1>1, <1>7, PurePushSeen
<1> QED
  BY <1>8, <1>9, SameSets, Zenon DEF Ideal!Calculate

(* Comparisons, of ints and of booleans.                                   *)
LEMMA CompareSeen ==
  ASSUME IInv, Compare
  PROVE  Ideal!Compare
<1> DEFINE p == Test(Op, Popped(2).val, Popped(1).val)
           v == BoolValue(p)
           ops == IntTest \cup BoolTest
<1>1. At(ops) /\ Push(v) /\ Proceed /\ HeapUnchanged /\ UNCHANGED locals
  BY DEF Compare
<1>2. Op \in ops /\ Fed /\ MembersMatch
  BY <1>1, AtSeen
<1>3. p = Ideal!Test(Ideal!Op, Ideal!Popped(2).val, Ideal!Popped(1).val)
  <2>1. Ideal!Popped(1).val = Popped(1).val /\ Ideal!Popped(2).val = Popped(2).val
    BY <1>2, OperandsSeen
  <2> QED
    BY <2>1, SameFetch, SameArith, Zenon
<1>4. v \in Good /\ Seen(v, strs) = Ideal!Plain(v)
  <2>1. v \in {BoolValue(TRUE), BoolValue(FALSE)}
    BY DEF BoolValue
  <2> QED
    BY <2>1, PlainGood, PlainSeen
<1> HIDE DEF p
<1>5. v = Ideal!BoolValue(Ideal!Test(Ideal!Op, Ideal!Popped(2).val, Ideal!Popped(1).val))
  BY <1>3, SameValues, Zenon
<1> HIDE DEF v, ops
<1>6. Ideal!At(ops) /\ Ideal!Push(Ideal!Plain(v)) /\ UNCHANGED <<SeenLocals, SeenArrays>>
  BY <1>1, <1>4, PurePushSeen
<1>7. ops = Ideal!IntTest \cup Ideal!BoolTest
  BY SameSets DEF ops
<1> QED
  BY <1>5, <1>6, <1>7, Zenon DEF Ideal!Compare

(* OP_INEG.                                                                *)
LEMMA NegateSeen ==
  ASSUME IInv, Negate
  PROVE  Ideal!Negate
<1> DEFINE n == -Popped(1).val
           w == Wrap(n)
           v == IntValue(w)
           ops == {OP_INEG}
<1>1. At(ops) /\ Push(v) /\ Proceed /\ HeapUnchanged /\ UNCHANGED locals
  BY DEF Negate
<1>2. Op = OP_INEG /\ Fed /\ MembersMatch
  BY <1>1, AtSeen
<1>3. Popped(1).val \in Int
  <2>1. Arity = 1
    BY <1>2, ArityOf DEF Fed
  <2> QED
    BY <2>1, <1>2, Operands DEF Fed
<1>4. n = -Ideal!Popped(1).val
  BY <1>2, OperandsSeen
<1>5. n \in Int
  BY <1>3
<1> HIDE DEF n
<1>6. w \in Int /\ w = Ideal!Wrap(-Ideal!Popped(1).val)
  BY <1>4, <1>5, WrapInt, SameArith
<1> HIDE DEF w
<1>7. v \in Good /\ Seen(v, strs) = Ideal!Plain(v)
  BY <1>6, PlainGood, PlainSeen
<1>8. v = Ideal!IntValue(Ideal!Wrap(-Ideal!Popped(1).val))
  BY <1>6, SameValues, Zenon
<1> HIDE DEF v, ops
<1>9. Ideal!At(ops) /\ Ideal!Push(Ideal!Plain(v)) /\ UNCHANGED <<SeenLocals, SeenArrays>>
  BY <1>1, <1>7, PurePushSeen
<1>10. ops = {Ideal!OP_INEG}
  BY SameOpcodes DEF ops
<1> QED
  BY <1>8, <1>9, <1>10, Zenon DEF Ideal!Negate

(* OP_NOT.                                                                 *)
LEMMA NotSeen ==
  ASSUME IInv, Not
  PROVE  Ideal!Not
<1> DEFINE p == Popped(1).val = 0
           v == BoolValue(p)
           ops == {OP_NOT}
<1>1. At(ops) /\ Push(v) /\ Proceed /\ HeapUnchanged /\ UNCHANGED locals
  BY DEF Not
<1>2. Op = OP_NOT /\ Fed /\ MembersMatch
  BY <1>1, AtSeen
<1>3. p = (Ideal!Popped(1).val = 0)
  BY <1>2, OperandsSeen
<1>4. v \in Good /\ Seen(v, strs) = Ideal!Plain(v)
  BY PlainGood, PlainSeen
<1> HIDE DEF p
<1>5. v = Ideal!BoolValue(Ideal!Popped(1).val = 0)
  BY <1>3, SameValues, Zenon
<1> HIDE DEF v, ops
<1>6. Ideal!At(ops) /\ Ideal!Push(Ideal!Plain(v)) /\ UNCHANGED <<SeenLocals, SeenArrays>>
  BY <1>1, <1>4, PurePushSeen
<1>7. ops = {Ideal!OP_NOT}
  BY SameOpcodes DEF ops
<1> QED
  BY <1>5, <1>6, <1>7, Zenon DEF Ideal!Not

(* A local is copied to the stack, a string's pointer as the string.       *)
LEMMA LoadSeen ==
  ASSUME IInv, Load
  PROVE  Ideal!Read
<1> DEFINE v == locals[Slot]
<1>1. At(Loads) /\ Push(v) /\ Proceed /\ HeapUnchanged /\ UNCHANGED locals
  BY DEF Load
<1>2. Op \in Slotted /\ Fed
  BY <1>1, AtSeen DEF Slotted
<1>3. v \in Good
  <2>1. Slot \in 1 .. Len(locals) /\ locals \in Seq(Good)
    BY <1>2, FedOperands DEF IInv
  <2> QED
    BY <2>1, ElementOfSeq
<1>4. Ideal!Local = Seen(v, strs)
  BY <1>2, TypedSeen
<1> HIDE DEF v
<1>5. Ideal!At(Loads) /\ Ideal!Push(Seen(v, strs)) /\ UNCHANGED <<SeenLocals, SeenArrays>>
  BY <1>1, <1>3, PurePushSeen
<1> QED
  BY <1>4, <1>5, SameSets, Zenon DEF Ideal!Read


(* What is popped is moved to the local.                                   *)
LEMMA StoreSeen ==
  ASSUME IInv, Store
  PROVE  Ideal!Write
<1> DEFINE v == Popped(1)
<1>1. /\ At(Stores) /\ Replace(<<>>, <<>>) /\ Proceed /\ HeapUnchanged
      /\ locals' = [locals EXCEPT ![Slot] = v]
  BY DEF Store
<1>2. Op \in Slotted /\ Op \in Stores /\ Fed /\ Arity \in Nat /\ Arity <= Len(stack)
  BY <1>1, AtSeen DEF Slotted
<1>3. Arity = 1
  BY <1>2, ArityOf DEF Fed
<1>4. v \in StackValue /\ Ideal!Popped(1) = Seen(v, strs)
  <2>1. Popped(1) \in Good /\ Ideal!Popped(1) = Seen(Popped(1), strs)
    BY <1>2, <1>3, PoppedGood, PopsSeen
  <2> QED
    BY <2>1, GoodIsTyped
<1>5. ~Rewritten(strs, strs') /\ strs' = strs /\ UNCHANGED SeenArrays
  <2>1. ~Rewritten(strs, strs')
    BY <1>1 DEF HeapUnchanged, Rewritten
  <2> QED
    BY <1>1, <2>1, KeptInSight DEF HeapUnchanged
<1>6. Ideal!At(Stores) /\ Ideal!Leave(<<>>) /\ pc' = Following
  BY <1>1, <1>5, PopSeen DEF Proceed
<1>7. Slot \in 1 .. Len(locals) /\ locals \in Seq(StackValue)
  BY <1>2, FedOperands, GoodIsTyped DEF IInv
<1> HIDE DEF v
<1>8. SeenLocals' = [SeenLocals EXCEPT ![Slot] = Seen(v, strs)]
  <2>1. SeenLocals' = View([locals EXCEPT ![Slot] = v], strs)
    BY <1>1, <1>5, ViewPrimes
  <2>2. View([locals EXCEPT ![Slot] = v], strs) = [View(locals, strs) EXCEPT ![Slot] = Seen(v, strs)]
    BY <1>4, <1>7, ViewExcept
  <2> QED
    BY <2>1, <2>2 DEF SeenLocals
<1>9. Slot = Ideal!Operand + 1
  BY SameFetch DEF Slot
<1> QED
  BY <1>4, <1>5, <1>6, <1>8, <1>9, SameSets, SameFetch, Zenon DEF Ideal!Write

(* A compound assignment changes the int in the local's place.             *)
LEMMA CompoundStoreSeen ==
  ASSUME IInv, CompoundStore
  PROVE  Ideal!Update
<1> DEFINE l == locals[Slot]
           n == Arith(Op, l.val, Popped(1).val)
           v == [l EXCEPT !.val = n]
<1>1. /\ At(Compound) /\ Replace(<<>>, <<>>) /\ Proceed /\ HeapUnchanged
      /\ locals' = [locals EXCEPT ![Slot].val = Arith(Op, @, Popped(1).val)]
  BY DEF CompoundStore
<1>2. Op \in Slotted /\ Op \in Compound /\ Fed /\ MembersMatch
  BY <1>1, AtSeen DEF Slotted
<1>3. locals' = [locals EXCEPT ![Slot] = v]
  BY <1>1
<1>4. ~Rewritten(strs, strs') /\ strs' = strs /\ UNCHANGED SeenArrays
  <2>1. ~Rewritten(strs, strs')
    BY <1>1 DEF HeapUnchanged, Rewritten
  <2> QED
    BY <1>1, <2>1, KeptInSight DEF HeapUnchanged
<1>5. Ideal!At(Compound) /\ Ideal!Leave(<<>>) /\ pc' = Following
  BY <1>1, <1>4, PopSeen DEF Proceed
<1>6. Slot \in 1 .. Len(locals) /\ locals \in Seq(StackValue) /\ l \in StackValue
  <2>1. Slot \in 1 .. Len(locals) /\ locals \in Seq(StackValue)
    BY <1>2, FedOperands, GoodIsTyped DEF IInv
  <2> QED
    BY <2>1, ElementOfSeq
<1>7. l.member = "int_val"
  <2>1. locals[Slot].member # "none"
    BY <1>1, <1>2, Fetched, NoFault, Zenon
  <2> QED
    BY <1>2, <2>1 DEF MembersMatch
<1>8. Op \in {OP_IDIV, OP_IMOD, OP_IDIVSTORE} => Popped(1).val # 0
  BY <1>1, Fetched, NoFault DEF Divisor
<1>9. Popped(1).val \in Int
  <2>1. Arity = 1
    BY <1>2, ArityOf DEF Fed
  <2> QED
    BY <1>2, <2>1, Operands DEF Fed
<1>10. n \in Int
  BY <1>2, <1>6, <1>8, <1>9, ArithInt DEF StackValue
<1>11. n = Ideal!Arith(Ideal!Op, SeenLocals[Slot].val, Ideal!Popped(1).val)
  <2>1. Ideal!Popped(1).val = Popped(1).val
    BY <1>2, OperandsSeen
  <2>2. SeenLocals[Slot].val = l.val
    BY <1>6, <1>7, HeldSeen, SeenFields
  <2> QED
    BY <2>1, <2>2, SameFetch, SameArith, Zenon
<1> HIDE DEF n
<1>12. v \in StackValue /\ Seen(v, strs) = [Seen(l, strs) EXCEPT !.val = n]
  BY <1>6, <1>7, <1>10 DEF StackValue, Seen
<1>13. SeenLocals[Slot] = Seen(l, strs) /\ SeenLocals = View(locals, strs)
  BY <1>6, HeldSeen DEF SeenLocals
<1> HIDE DEF v, l
<1>14. SeenLocals' = [SeenLocals EXCEPT ![Slot] = Seen(v, strs)]
  <2>1. SeenLocals' = View([locals EXCEPT ![Slot] = v], strs)
    BY <1>3, <1>4, ViewPrimes
  <2>2. View([locals EXCEPT ![Slot] = v], strs) = [View(locals, strs) EXCEPT ![Slot] = Seen(v, strs)]
    <3>1. locals \in Seq(StackValue) /\ Slot \in 1 .. Len(locals) /\ v \in StackValue
      BY <1>6, <1>12
    <3> QED
      BY ONLY <3>1, ViewExcept
  <2> QED
    BY <1>13, <2>1, <2>2
<1>15. SeenLocals' = [SeenLocals EXCEPT ![Slot].val = n]
  BY <1>12, <1>13, <1>14
<1>16. Slot = Ideal!Operand + 1
  BY SameFetch DEF Slot
<1>17. SeenLocals' = [SeenLocals EXCEPT ![Ideal!Operand + 1].val =
                        Ideal!Arith(Ideal!Op, @, Ideal!Popped(1).val)]
  BY <1>11, <1>15, <1>16
<1> QED
  BY <1>4, <1>5, <1>17, SameSets, SameFetch, Zenon DEF Ideal!Update

(* The jumps, taken under the same condition.                              *)
LEMMA JumpSeen ==
  ASSUME IInv, Jump
  PROVE  Ideal!Jump
<1> DEFINE ops == {OP_JMP} \cup CondJumps
<1>1. /\ At(ops) /\ Replace(<<>>, <<>>) /\ HeapUnchanged
      /\ pc' = IF Jumps(Op) THEN Following + Steps ELSE Following
      /\ UNCHANGED <<code, constants, locals, status>>
  BY DEF Jump
<1>2. Op \in ops /\ Fed /\ MembersMatch
  BY <1>1, AtSeen
<1>3. ~Rewritten(strs, strs') /\ UNCHANGED SeenArrays /\ UNCHANGED SeenLocals
  <2>1. ~Rewritten(strs, strs')
    BY <1>1 DEF HeapUnchanged, Rewritten
  <2> QED
    BY <1>1, <2>1, KeptInSight DEF HeapUnchanged
<1>4. Ideal!At(ops) /\ Ideal!Leave(<<>>)
  BY <1>1, <1>3, PopSeen
<1>5. Jumps(Op) <=> (Op = OP_JMP \/ (Op = OP_JMPN <=> Ideal!Popped(1).val = 0))
  <2>1. CASE Op = OP_JMP
    <3>1. Op # OP_JMPN /\ Op # OP_JMPT
      BY <2>1 DEF OP_JMP, OP_JMPN, OP_JMPT
    <3> QED
      BY <2>1, <3>1 DEF Jumps
  <2>2. CASE Op = OP_JMPN
    <3>1. Op # OP_JMP /\ Op # OP_JMPT /\ Op \in CondJumps
      BY <2>2 DEF OP_JMP, OP_JMPN, OP_JMPT, CondJumps
    <3>2. Jumps(Op) <=> Popped(1).val = 0
      BY <2>2, <3>1 DEF Jumps
    <3> QED
      BY <1>2, <2>2, <3>1, <3>2, OperandsSeen
  <2>3. CASE Op = OP_JMPT
    <3>1. Op # OP_JMP /\ Op # OP_JMPN /\ Op \in CondJumps
      BY <2>3 DEF OP_JMP, OP_JMPN, OP_JMPT, CondJumps
    <3>2. Jumps(Op) <=> Popped(1).val # 0
      BY <2>3, <3>1 DEF Jumps
    <3> QED
      BY <1>2, <3>1, <3>2, OperandsSeen
  <2> QED
    BY <1>2, <2>1, <2>2, <2>3 DEF CondJumps
<1>6. pc' = IF Ideal!Op = Ideal!OP_JMP \/ (Ideal!Op = Ideal!OP_JMPN <=> Ideal!Popped(1).val = 0)
            THEN Ideal!Following + Ideal!Steps ELSE Ideal!Following
  <2> HIDE DEF ops
  <2> QED
    BY <1>1, <1>5, SameFetch, SameOpcodes
<1>7. ops = {Ideal!OP_JMP} \cup Ideal!CondJumps
  BY SameOpcodes, SameSets
<1> HIDE DEF ops
<1> QED
  BY <1>3, <1>4, <1>6, <1>7, Zenon DEF Ideal!Jump


(* A concatenation adds a text and rewrites none.                          *)
LEMMA ConcatSeen ==
  ASSUME IInv, Concat
  PROVE  Ideal!Join
<1> DEFINE t    == strs[Lhs].text \o strs[Rhs].text
           cell == [text |-> t, ref_count |-> 1, freed |-> FALSE]
           v    == StringRef(Len(strs) + 1)
           jobs == Work("drop", <<Popped(2), Popped(1)>>)
           ops  == {OP_SCONCAT}
<1>1. /\ At(ops) /\ strs' = Append(strs, cell) /\ Replace(<<v>>, jobs) /\ Proceed
      /\ UNCHANGED <<arrs, locals>>
  BY DEF Concat
<1>2. Op = OP_SCONCAT /\ Fed /\ MembersMatch
  BY <1>1, AtSeen
<1>3. strs \in Seq(StringValue) /\ Len(strs) \in Nat /\ DOMAIN strs = 1 .. Len(strs)
  BY LenProperties DEF IInv
<1>4. t = Ideal!Popped(2).text \o Ideal!Popped(1).text
  BY <1>2, OperandsSeen
<1>5. cell.text = t
  OBVIOUS
<1> HIDE DEF cell, t
<1>6. /\ DOMAIN strs' = 1 .. Len(strs) + 1
      /\ \A s \in 1 .. Len(strs) : strs'[s] = strs[s]
      /\ strs'[Len(strs) + 1] = cell
  <2> DEFINE S == StringValue \cup {cell}
  <2>1. strs \in Seq(S) /\ cell \in S
    BY <1>3, SeqGrows
  <2> HIDE DEF S
  <2> QED
    BY <1>1, <2>1, AppendProperties
<1>7. ~Rewritten(strs, strs')
  BY <1>3, <1>6 DEF Rewritten
<1>8. v \in StackValue
  BY <1>3 DEF StringRef, StackValue, VarType, BaseType, Member, string_type, Scalar
<1>9. Seen(v, strs') = Ideal!Text(t)
  BY <1>5, <1>6, SameValues DEF Seen, StringRef, Ideal!Text
<1> HIDE DEF v, jobs, ops
<1>10. Ideal!At(ops) /\ Ideal!Push(Ideal!Text(t))
  BY <1>1, <1>7, <1>8, <1>9, PushSeen
<1>11. UNCHANGED <<SeenLocals, SeenArrays>>
  BY <1>1, <1>7, KeptInSight
<1>12. ops = {Ideal!OP_SCONCAT}
  BY SameOpcodes DEF ops
<1> QED
  BY <1>4, <1>10, <1>11, <1>12, Zenon DEF Ideal!Join

-----------------------------------------------------------------------------
(* Arrays.                                                                 *)

(* Another cell in the place of one.                                       *)
LEMMA CellSeen ==
  ASSUME IInv, UNCHANGED strs, NEW a \in DOMAIN arrs, NEW cell, arrs' = [arrs EXCEPT ![a] = cell]
  PROVE  SeenArrays' = [SeenArrays EXCEPT ![a] = View(cell.arr_val, strs)]
<1>1. /\ DOMAIN arrs' = DOMAIN arrs
      /\ \A b \in DOMAIN arrs : arrs'[b] = IF b = a THEN cell ELSE arrs[b]
  BY LenProperties DEF IInv
<1>2. SeenArrays' = [b \in DOMAIN arrs |-> View(arrs'[b].arr_val, strs)]
  BY <1>1, ViewPrimes
<1>3. SeenArrays = [b \in DOMAIN arrs |-> View(arrs[b].arr_val, strs)]
  BY DEF SeenArrays
<1> QED
  BY <1>1, <1>2, <1>3

(* A new array behind the others.                                          *)
LEMMA NewCellSeen ==
  ASSUME IInv, UNCHANGED strs, NEW cell, arrs' = Append(arrs, cell)
  PROVE  SeenArrays' = Append(SeenArrays, View(cell.arr_val, strs))
<1> DEFINE n == Len(arrs)
           S == ArrayValue \cup {cell}
           x == View(cell.arr_val, strs)
           W == {View(c.arr_val, strs) : c \in S}
<1>1. arrs \in Seq(S) /\ cell \in S /\ n \in Nat /\ DOMAIN arrs = 1 .. n
  BY SeqGrows, LenProperties DEF IInv
<1>2. /\ DOMAIN arrs' = 1 .. n + 1 /\ arrs' \in Seq(S)
      /\ \A a \in 1 .. n : arrs'[a] = arrs[a] /\ arrs[a] \in S
      /\ arrs'[n + 1] = cell
  <2> HIDE DEF S
  <2> QED
    BY <1>1, AppendProperties, ElementOfSeq, LenProperties
<1>3. SeenArrays = [a \in 1 .. n |-> View(arrs[a].arr_val, strs)]
  BY <1>1 DEF SeenArrays
<1>4. SeenArrays' = [a \in 1 .. n + 1 |-> View(arrs'[a].arr_val, strs)]
  BY <1>2, ViewPrimes
<1>5. x \in W /\ \A a \in 1 .. n : View(arrs[a].arr_val, strs) \in W
  BY <1>1, <1>2
<1> DEFINE w(a) == View(arrs[a].arr_val, strs)
           z(a) == View(arrs'[a].arr_val, strs)
<1>6. /\ SeenArrays = [a \in 1 .. n |-> w(a)] /\ SeenArrays' = [a \in 1 .. n + 1 |-> z(a)]
      /\ \A a \in 1 .. n : w(a) \in W /\ z(a) = w(a)
      /\ z(n + 1) = x
  BY <1>1, <1>2, <1>3, <1>4, <1>5
<1> HIDE DEF n, S, x, W, w, z
<1>7. SeenArrays \in Seq(W) /\ Len(SeenArrays) = n
  BY <1>1, <1>6
<1>8. \A a \in 1 .. n + 1 : z(a) \in W
  BY <1>1, <1>5, <1>6
<1>9. SeenArrays' \in Seq(W) /\ Len(SeenArrays') = n + 1
      /\ \A a \in 1 .. n + 1 : SeenArrays'[a] = z(a)
  BY <1>1, <1>6, <1>8
<1>10. /\ Append(SeenArrays, x) \in Seq(W) /\ Len(Append(SeenArrays, x)) = n + 1
       /\ \A a \in 1 .. n : Append(SeenArrays, x)[a] = SeenArrays[a]
       /\ Append(SeenArrays, x)[n + 1] = x
  BY <1>5, <1>7, AppendProperties
<1>11. \A a \in 1 .. n + 1 : SeenArrays'[a] = Append(SeenArrays, x)[a]
  BY <1>1, <1>6, <1>9, <1>10
<1>12. SeenArrays' = Append(SeenArrays, x)
  BY <1>9, <1>10, <1>11, SeqEqual
<1> QED
  BY <1>12 DEF x

(* The new array has the elements the stack had.                           *)
LEMMA PushArraySeen ==
  ASSUME IInv, PushArray
  PROVE  Ideal!Collect
<1> DEFINE elems == SubSeq(stack, Len(stack) - Operand + 1, Len(stack))
           type  == IF Operand > 0 THEN ArrayOf(Popped(Operand).type) ELSE unknown_type
           cell  == NewArray(elems)
           v     == ArrayRef(type, Len(arrs) + 1)
           ops   == {OP_PUSH_ARRAY}
<1>1. /\ At(ops) /\ arrs' = Append(arrs, cell) /\ Replace(<<v>>, <<>>) /\ Proceed
      /\ UNCHANGED <<strs, locals>>
  BY DEF PushArray, Push
<1>2. Op = OP_PUSH_ARRAY /\ Fed /\ Arity \in Nat /\ Arity <= Len(stack)
  BY <1>1, AtSeen
<1>3. Operand \in Nat /\ Arity = Operand
  BY <1>2, FedOperands, ArityOf DEF WithOperand, Fed
<1>4. /\ stack \in Seq(StackValue) /\ Len(stack) \in Nat /\ Len(arrs) \in Nat
      /\ Len(SeenStack) = Len(stack) /\ Len(SeenArrays) = Len(arrs)
  BY <1>2, GoodIsTyped, LenProperties, PopsSeen, HeldSeen DEF IInv
<1>5. ~Rewritten(strs, strs')
  BY <1>1 DEF Rewritten
<1>6. View(elems, strs) = SubSeq(SeenStack, Len(SeenStack) - Ideal!Operand + 1, Len(SeenStack))
  <2>1. Len(stack) - Operand + 1 \in Nat \ {0} /\ Len(stack) \in 0 .. Len(stack)
    BY <1>2, <1>3, <1>4
  <2>2. View(elems, strs) = SubSeq(View(stack, strs), Len(stack) - Operand + 1, Len(stack))
    BY <1>4, <2>1, ViewSub
  <2>3. SeenStack = View(stack, strs) /\ Ideal!Operand = Operand
    BY SameFetch DEF SeenStack
  <2> QED
    BY <1>4, <2>2, <2>3
<1>7. cell.arr_val = elems
  BY DEF NewArray
<1> HIDE DEF elems, cell
<1>8. SeenArrays' = Append(SeenArrays, View(elems, strs))
  BY <1>1, <1>7, NewCellSeen
<1>9. Operand > 0 => Popped(Operand) \in StackValue
                       /\ Ideal!Popped(Operand).type = Popped(Operand).type
  <2>1. Operand > 0 => Operand \in 1 .. Arity
    BY <1>3
  <2>2. Operand > 0 => Popped(Operand) \in Good /\ Ideal!Popped(Operand) = Seen(Popped(Operand), strs)
    BY <1>2, <2>1, PoppedGood, PopsSeen
  <2> QED
    BY <2>2, GoodIsTyped, SeenFields
<1>10. type \in VarType
  <2>1. CASE Operand > 0
    BY <1>9, <2>1 DEF StackValue, VarType, ArrayOf
  <2>2. CASE ~(Operand > 0)
    BY <2>2 DEF unknown_type, Scalar, VarType, BaseType
  <2> QED
    BY <2>1, <2>2
<1>11. type = IF Ideal!Operand > 0 THEN Ideal!ArrayOf(Ideal!Popped(Ideal!Operand).type)
              ELSE Ideal!unknown_type
  BY <1>9, SameFetch, SameValues
<1> HIDE DEF type
<1>12. v \in StackValue
  BY <1>4, <1>10 DEF ArrayRef, StackValue, Member
<1>13. Seen(v, strs') = Ideal!Plain(v)
  BY PlainSeen
<1>14. v = Ideal!ArrayRef(IF Ideal!Operand > 0 THEN Ideal!ArrayOf(Ideal!Popped(Ideal!Operand).type)
                          ELSE Ideal!unknown_type, Len(SeenArrays) + 1)
  BY <1>4, <1>11, SameValues, Zenon
<1> HIDE DEF v, ops
<1>15. Ideal!At(ops) /\ Ideal!Push(Ideal!Plain(v))
  BY <1>1, <1>5, <1>12, <1>13, PushSeen
<1>16. UNCHANGED SeenLocals
  BY <1>1, <1>5, KeptInSight
<1>17. ops = {Ideal!OP_PUSH_ARRAY}
  BY SameOpcodes DEF ops
<1> QED
  BY <1>6, <1>8, <1>14, <1>15, <1>16, <1>17, Zenon DEF Ideal!Collect

(* An element is read,                                                     *)
LEMMA ArrLoadIdxSeen ==
  ASSUME IInv, ArrLoadIdx
  PROVE  Ideal!ReadElement
<1> DEFINE v == arrs[TheArray].arr_val[Index + 1]
           ops == {OP_ARRLOADIDX}
<1>1. At(ops) /\ Push(v) /\ Proceed /\ HeapUnchanged /\ UNCHANGED locals
  BY DEF ArrLoadIdx
<1>2. Op = OP_ARRLOADIDX /\ Op \in Indexing /\ Fed /\ MembersMatch
  BY <1>1, AtSeen DEF Indexing
<1>3. TheArray \in DOMAIN arrs /\ Index \in 0 .. Len(arrs[TheArray].arr_val) - 1
  BY <1>1, <1>2, ArrayOperand DEF Indexing
<1>4. Index + 1 \in 1 .. Len(arrs[TheArray].arr_val) /\ arrs[TheArray].arr_val \in Seq(Good)
  BY <1>3, LenProperties DEF IInv
<1>5. v \in Good
  BY <1>4, ElementOfSeq
<1>6. SeenArrays[TheArray][Index + 1] = Seen(v, strs)
  BY <1>3, <1>4, HeldSeen
<1>7. Ideal!Array = TheArray /\ Ideal!Index = Index
  BY <1>2, OperandsSeen
<1> HIDE DEF v, ops
<1>8. Ideal!At(ops) /\ Ideal!Push(Seen(v, strs)) /\ UNCHANGED <<SeenLocals, SeenArrays>>
  BY <1>1, <1>5, PurePushSeen
<1>9. ops = {Ideal!OP_ARRLOADIDX}
  BY SameOpcodes DEF ops
<1> QED
  BY <1>6, <1>7, <1>8, <1>9, Zenon DEF Ideal!ReadElement

(* written,                                                                *)
LEMMA ArrStoreIdxSeen ==
  ASSUME IInv, ArrStoreIdx
  PROVE  Ideal!WriteElement
<1> DEFINE old  == arrs[TheArray]
           v    == Popped(1)
           vals == [old.arr_val EXCEPT ![Index + 1] = v]
           cell == [old EXCEPT !.arr_val = vals]
           ops  == {OP_ARRSTOREIDX}
<1>1. /\ At(ops) /\ Replace(<<>>, <<>>) /\ Proceed /\ UNCHANGED <<strs, locals>>
      /\ arrs' = [arrs EXCEPT ![TheArray] = cell]
  BY DEF ArrStoreIdx
<1>2. /\ Op = OP_ARRSTOREIDX /\ Op \in Indexing /\ Fed /\ MembersMatch
      /\ Arity \in Nat /\ Arity <= Len(stack)
  BY <1>1, AtSeen DEF Indexing
<1>3. /\ TheArray \in DOMAIN arrs /\ Index \in 0 .. Len(old.arr_val) - 1
      /\ Arity >= 2 /\ v \in Good
  BY <1>1, <1>2, ArrayOperand DEF Indexing
<1>4. /\ old \in ArrayValue /\ old.arr_val \in Seq(StackValue) /\ v \in StackValue
      /\ Index + 1 \in 1 .. Len(old.arr_val)
  <2>1. old \in ArrayValue /\ old.arr_val \in Seq(StackValue)
    BY <1>3, GoodIsTyped, LenProperties, ElementOfSeq DEF IInv
  <2>2. Len(old.arr_val) \in Nat
    BY <2>1, LenProperties
  <2> QED
    BY <1>3, <2>1, <2>2, GoodIsTyped
<1>5. ~Rewritten(strs, strs')
  BY <1>1 DEF Rewritten
<1>6. Ideal!At(ops) /\ Ideal!Leave(<<>>) /\ pc' = Following
  BY <1>1, <1>5, PopSeen DEF Proceed
<1>7. Ideal!Popped(1) = Seen(v, strs)
  BY <1>2, <1>3, PopsSeen
<1>8. Ideal!Array = TheArray /\ Ideal!Index = Index
  BY <1>2, OperandsSeen
<1>9. UNCHANGED SeenLocals
  BY <1>1, <1>5, KeptInSight
<1>10. SeenArrays[TheArray] = View(old.arr_val, strs) /\ TheArray \in DOMAIN SeenArrays
  BY <1>3 DEF SeenArrays
<1>11. cell.arr_val = vals
  <2> HIDE DEF vals, old
  <2> QED
    BY <1>4 DEF ArrayValue
<1>12. View(vals, strs) = [View(old.arr_val, strs) EXCEPT ![Index + 1] = Seen(v, strs)]
  <2> HIDE DEF old, v
  <2> QED
    BY <1>4, ViewExcept
<1> HIDE DEF cell, vals, old, v, ops
<1>13. SeenArrays' = [SeenArrays EXCEPT ![TheArray] = View(vals, strs)]
  BY <1>1, <1>3, <1>11, CellSeen
<1>14. SeenArrays' = [SeenArrays EXCEPT ![TheArray][Index + 1] = Seen(v, strs)]
  BY <1>10, <1>12, <1>13
<1>15. SeenArrays' = [SeenArrays EXCEPT ![Ideal!Array][Ideal!Index + 1] = Ideal!Popped(1)]
  BY <1>7, <1>8, <1>14
<1>16. ops = {Ideal!OP_ARRSTOREIDX}
  BY SameOpcodes DEF ops
<1> QED
  BY <1>6, <1>9, <1>15, <1>16, SameFetch, Zenon DEF Ideal!WriteElement

(* or added, whatever the storage does, through every name of the array.   *)
LEMMA ArrAppendSeen ==
  ASSUME IInv, ArrAppend
  PROVE  Ideal!AddElement
<1> DEFINE old  == arrs[TheArray]
           v    == Popped(1)
           u    == Popped(2)
           cell == Grown(old, v)
           ops  == {OP_ARRAPPEND}
<1>1. /\ At(ops) /\ Replace(<<u>>, <<>>) /\ Proceed /\ UNCHANGED <<strs, locals>>
      /\ arrs' = [arrs EXCEPT ![TheArray] = cell]
  BY DEF ArrAppend, Push
<1>2. /\ Op = OP_ARRAPPEND /\ Fed /\ MembersMatch
      /\ Arity \in Nat /\ Arity <= Len(stack)
  BY <1>1, AtSeen
<1>3. TheArray \in DOMAIN arrs /\ Arity >= 2 /\ v \in Good /\ u \in Good
  BY <1>1, <1>2, ArrayOperand
<1>4. old \in ArrayValue /\ old.arr_val \in Seq(StackValue) /\ v \in StackValue /\ u \in StackValue
  BY <1>3, GoodIsTyped, LenProperties, ElementOfSeq DEF IInv
<1>5. ~Rewritten(strs, strs') /\ strs' = strs
  BY <1>1 DEF Rewritten
<1>6. Ideal!Popped(1) = Seen(v, strs) /\ Ideal!Popped(2) = Seen(u, strs)
  BY <1>2, <1>3, PopsSeen
<1>7. Ideal!Array = TheArray
  BY <1>2, OperandsSeen
<1>8. UNCHANGED SeenLocals
  BY <1>1, <1>5, KeptInSight
<1>9. SeenArrays[TheArray] = View(old.arr_val, strs) /\ TheArray \in DOMAIN SeenArrays
  BY <1>3 DEF SeenArrays
<1>10. cell.arr_val = Append(old.arr_val, v)
  <2> HIDE DEF old, v
  <2> QED
    BY <1>4 DEF Grown, ArrayValue
<1>11. View(Append(old.arr_val, v), strs) = Append(View(old.arr_val, strs), Seen(v, strs))
  <2> HIDE DEF old, v
  <2> QED
    BY <1>4, ViewAppend
<1> HIDE DEF cell, old, v, u, ops
<1>12. SeenArrays' = [SeenArrays EXCEPT ![TheArray] = View(Append(old.arr_val, v), strs)]
  BY <1>1, <1>3, <1>10, CellSeen
<1>13. SeenArrays' = [SeenArrays EXCEPT ![Ideal!Array] = Append(@, Ideal!Popped(1))]
  BY <1>6, <1>7, <1>9, <1>11, <1>12
<1>14. Ideal!At(ops) /\ Ideal!Push(Ideal!Popped(2))
  BY <1>1, <1>4, <1>5, <1>6, PushSeen
<1>15. ops = {Ideal!OP_ARRAPPEND}
  BY SameOpcodes DEF ops
<1> QED
  BY <1>8, <1>13, <1>14, <1>15, Zenon DEF Ideal!AddElement


-----------------------------------------------------------------------------
(* What is no step of the ideal machine.                                   *)

(* A step that leaves texts, elements and registers alone is not seen.     *)
LEMMA Unseen ==
  ASSUME IInv, ~Rewritten(strs, strs'), DOMAIN arrs' = DOMAIN arrs,
         \A a \in DOMAIN arrs : arrs'[a].arr_val = arrs[a].arr_val,
         UNCHANGED <<code, constants, pc, stack, locals>>, UNCHANGED SeenStatus
  PROVE  UNCHANGED Ideal!idealvars
<1>1. SeenArrays' = [a \in DOMAIN arrs |-> View(arrs[a].arr_val, strs')]
  BY ViewPrimes
<1>2. SeenArrays = [a \in DOMAIN arrs |-> View(arrs[a].arr_val, strs)]
  BY DEF SeenArrays
<1>3. UNCHANGED SeenArrays
  BY <1>1, <1>2, KeptInSight
<1> QED
  BY <1>3, KeptInSight DEF Ideal!idealvars

(* Counting is not seen: it changes neither texts nor elements.            *)
LEMMA CountUnseen ==
  ASSUME IInv, Count
  PROVE  UNCHANGED Ideal!idealvars
<1>1. todo # <<>> /\ status = "running"
  BY DEF Count, Counting, Skip, increment_ref, decrement_ref, increment_ref_arr, decrement_ref_arr, Dangle
<1>2. UNCHANGED <<code, constants, pc, stack, locals>> /\ UNCHANGED SeenStatus
  <2>1. UNCHANGED <<code, constants, pc, stack, locals>> /\ status' \in {"running"} \cup Dangling
    BY <1>1, Zenon DEF Count, Skip, increment_ref, decrement_ref, increment_ref_arr, decrement_ref_arr,
                       Dangle, Finish, Dangling
  <2> QED
    BY <1>1, <2>1, StatusSeen
<1>3. Subject \in Good
  BY <1>1, QueueGood
<1>4. ASSUME NEW s \in DOMAIN strs, NEW cell, strs' = [strs EXCEPT ![s] = cell],
             cell.text = strs[s].text
      PROVE  ~Rewritten(strs, strs')
  BY <1>4 DEF Rewritten
<1>5. ASSUME NEW a \in DOMAIN arrs, NEW cell, arrs' = [arrs EXCEPT ![a] = cell],
             cell.arr_val = arrs[a].arr_val
      PROVE  DOMAIN arrs' = DOMAIN arrs /\ \A b \in DOMAIN arrs : arrs'[b].arr_val = arrs[b].arr_val
  BY <1>5
<1>6. UNCHANGED strs => ~Rewritten(strs, strs')
  BY DEF Rewritten
<1> DEFINE s == Subject.val
           string == strs[s]
           array == arrs[s]
<1>7. IsString(Subject) => s \in DOMAIN strs /\ string \in StringValue
  <2>1. IsString(Subject) => s \in DOMAIN strs
    BY <1>3 DEF Good, Pointing, Located
  <2>2. \A x \in DOMAIN strs : strs[x] \in StringValue
    BY ElementOfSeq, LenProperties DEF IInv
  <2> QED
    BY <2>1, <2>2
<1>8. IsArray(Subject) => s \in DOMAIN arrs /\ array \in ArrayValue
  <2>1. IsArray(Subject) => s \in DOMAIN arrs
    BY <1>3 DEF Good, Pointing, Located
  <2>2. \A x \in DOMAIN arrs : arrs[x] \in ArrayValue
    BY ElementOfSeq, LenProperties DEF IInv
  <2> QED
    BY <2>1, <2>2
<1>9. CASE Skip \/ Dangle
  <2>1. strs' = strs /\ arrs' = arrs
    BY <1>9 DEF Skip, Dangle, HeapUnchanged
  <2> QED
    BY <1>2, <1>6, <2>1, Unseen
<1>10. CASE increment_ref
  <2> DEFINE cell == [string EXCEPT !.ref_count = string.ref_count + 1]
  <2>1. IsString(Subject) /\ strs' = [strs EXCEPT ![s] = cell] /\ arrs' = arrs
    BY <1>10 DEF increment_ref
  <2>2. cell.text = string.text
    <3> HIDE DEF string
    <3> QED
      BY <1>7, <2>1 DEF StringValue
  <2> HIDE DEF cell
  <2>3. ~Rewritten(strs, strs')
    BY <1>4, <1>7, <2>1, <2>2
  <2> QED
    BY <1>2, <2>1, <2>3, Unseen
<1>11. CASE decrement_ref
  <2> DEFINE cell == Dropped(string)
  <2>1. IsString(Subject) /\ strs' = [strs EXCEPT ![s] = cell] /\ arrs' = arrs
    BY <1>11 DEF decrement_ref
  <2>2. cell.text = string.text
    <3> HIDE DEF string
    <3>1. PICK f \in BOOLEAN : cell = [string EXCEPT !.ref_count = string.ref_count - 1, !.freed = f]
      BY DroppedFields
    <3> QED
      BY <1>7, <2>1, <3>1 DEF StringValue
  <2> HIDE DEF cell
  <2>3. ~Rewritten(strs, strs')
    BY <1>4, <1>7, <2>1, <2>2
  <2> QED
    BY <1>2, <2>1, <2>3, Unseen
<1>12. CASE increment_ref_arr
  <2> DEFINE n == IF array.ref_count # 0 THEN array.ref_count + 1 ELSE array.ref_count
             cell == [array EXCEPT !.ref_count = n]
  <2>1. IsArray(Subject) /\ arrs' = [arrs EXCEPT ![s] = cell] /\ strs' = strs
    BY <1>12 DEF increment_ref_arr
  <2>2. cell.arr_val = array.arr_val
    <3> HIDE DEF array
    <3> QED
      BY <1>8, <2>1 DEF ArrayValue
  <2> HIDE DEF cell
  <2>3. DOMAIN arrs' = DOMAIN arrs /\ \A b \in DOMAIN arrs : arrs'[b].arr_val = arrs[b].arr_val
    BY <1>5, <1>8, <2>1, <2>2
  <2> QED
    BY <1>2, <1>6, <2>1, <2>3, Unseen
<1>13. CASE decrement_ref_arr
  <2> DEFINE cell == Dropped(array)
  <2>1. IsArray(Subject) /\ arrs' = [arrs EXCEPT ![s] = cell] /\ strs' = strs
    BY <1>13 DEF decrement_ref_arr
  <2>2. cell.arr_val = array.arr_val
    <3> HIDE DEF array
    <3>1. PICK f \in BOOLEAN : cell = [array EXCEPT !.ref_count = array.ref_count - 1, !.freed = f]
      BY DroppedFields
    <3> QED
      BY <1>8, <2>1, <3>1 DEF ArrayValue
  <2> HIDE DEF cell
  <2>3. DOMAIN arrs' = DOMAIN arrs /\ \A b \in DOMAIN arrs : arrs'[b].arr_val = arrs[b].arr_val
    BY <1>5, <1>8, <2>1, <2>2
  <2> QED
    BY <1>2, <1>6, <2>1, <2>3, Unseen
<1> QED
  BY <1>9, <1>10, <1>11, <1>12, <1>13 DEF Count

(* vm_free is not seen.                                                    *)
LEMMA FreeUnseen ==
  ASSUME IInv, vm_free
  PROVE  UNCHANGED Ideal!idealvars
<1>1. /\ strs' = [s \in DOMAIN strs |->
                    IF OnStack(s) THEN [strs[s] EXCEPT !.freed = TRUE] ELSE strs[s]]
      /\ UNCHANGED <<code, constants, pc, stack, locals, arrs>>
  BY DEF vm_free
<1>2. \A s \in DOMAIN strs : strs[s] \in StringValue
  BY ElementOfSeq, LenProperties DEF IInv
<1>3. \A s \in DOMAIN strs : [strs[s] EXCEPT !.freed = TRUE].text = strs[s].text
  BY <1>2 DEF StringValue
<1>4. DOMAIN strs' = DOMAIN strs
  BY <1>1
<1>5. ASSUME NEW s \in DOMAIN strs
      PROVE  strs'[s].text = strs[s].text
  <2>1. CASE OnStack(s)
    BY <1>1, <1>3, <2>1
  <2>2. CASE ~OnStack(s)
    BY <1>1, <2>2
  <2> QED
    BY <2>1, <2>2
<1>6. ~Rewritten(strs, strs')
  BY <1>4, <1>5 DEF Rewritten
<1>7. status = "halted" /\ status' \in {"freed", "double free"}
  BY Zenon DEF vm_free
<1>8. UNCHANGED SeenStatus
  BY <1>7, StatusSeen
<1> QED
  BY <1>1, <1>6, <1>8, Unseen

-----------------------------------------------------------------------------
(* Starting and stopping.                                                  *)

(* vm_init hands over the image as it is seen.                             *)
LEMMA StartSeen ==
  ASSUME Fresh, NEW img \in Images, vm_init(img)
  PROVE  Ideal!Start
<1>1. /\ status = "idle" /\ status' = "running" /\ UNCHANGED <<pc, stack, arrs>>
      /\ code' = img.code /\ constants' = img.constants /\ strs' = img.strs
      /\ locals' = [i \in 1 .. img.num_locals |-> Garbage]
      /\ stack = <<>> /\ arrs = <<>>
  BY DEF vm_init, Fresh
<1>2. SeenStatus = "idle" /\ SeenStatus' = "running"
  BY <1>1, StatusSeen
<1> DEFINE shown == [code |-> img.code, constants |-> View(img.constants, img.strs),
                     num_locals |-> img.num_locals]
<1>3. shown \in ImagesSeen /\ shown.code = img.code /\ shown.num_locals = img.num_locals
      /\ shown.constants = View(img.constants, img.strs)
  BY DEF ImagesSeen
<1> HIDE DEF shown
<1>4. SeenConstants' = shown.constants /\ code' = shown.code
  BY <1>1, <1>3, ViewPrimes
<1>5. SeenLocals' = [i \in 1 .. shown.num_locals |-> Ideal!Plain(Ideal!Garbage)]
  <2>1. View(locals', strs') = [i \in 1 .. img.num_locals |-> Seen(Garbage, strs')]
    BY <1>1 DEF View
  <2>2. Seen(Garbage, strs') = Ideal!Plain(Ideal!Garbage)
    BY PlainSeen, SameValues
  <2> QED
    BY <1>3, <2>1, <2>2, ViewPrimes
<1>6. UNCHANGED SeenStack
  <2>1. \A ss : View(<<>>, ss) = <<>>
    BY ViewOne, PlainGood, GoodIsTyped
  <2> QED
    BY <1>1, <2>1, ViewPrimes DEF SeenStack
<1>7. UNCHANGED SeenArrays
  <2>1. DOMAIN arrs = {}
    BY <1>1
  <2> QED
    BY <1>1, <2>1, ViewPrimes DEF SeenArrays
<1> QED
  BY <1>1, <1>2, <1>3, <1>4, <1>5, <1>6, <1>7 DEF Ideal!Start

(* The loop ends, or an instruction cannot complete, for the same reason;  *)
(* stopped short of what was freed is not stopped for the ideal machine.   *)
LEMMA StopSeen ==
  ASSUME IInv, Abort \/ Halt
  PROVE  Ideal!Stop \/ UNCHANGED Ideal!idealvars
<1>1. /\ status = "running" /\ todo = <<>>
      /\ UNCHANGED <<code, constants, pc, stack, locals, strs, arrs>>
  BY DEF Abort, Halt, Ready
<1>2. ~Rewritten(strs, strs')
  BY <1>1 DEF Rewritten
<1>3. UNCHANGED <<code, SeenConstants, pc, SeenStack, SeenLocals, SeenArrays>>
  BY <1>1, <1>2, KeptInSight
<1>4. SeenStatus = "running"
  BY <1>1, StatusSeen
<1>5. CASE Halt
  <2>1. pc >= Len(code) /\ status' = "halted"
    BY <1>5 DEF Halt
  <2>2. SeenStatus' = "halted"
    BY <2>1, StatusSeen
  <2> QED
    BY <1>3, <1>4, <2>1, <2>2 DEF Ideal!Stop
<1>6. CASE Abort
  <2>1. PICK c \in Obstacles : status' = c
    BY <1>6 DEF Abort
  <2>2. CASE c \in Dangling
    <3>1. UNCHANGED SeenStatus
      BY <1>4, <2>1, <2>2, StatusSeen
    <3> QED
      BY <1>3, <3>1 DEF Ideal!idealvars
  <2>3. CASE c \notin Dangling
    <3>1. c \in Ideal!Obstacles /\ pc < Len(code)
      BY <1>1, <1>6, <2>1, <2>3, ObstaclesSeen DEF Abort, Ready
    <3>2. c \notin {"freed", "double free"}
      BY <2>1, Zenon DEF Obstacles, Faults
    <3>3. SeenStatus' = c
      BY <2>1, <2>3, <3>2, StatusSeen
    <3> QED
      BY <1>3, <1>4, <3>1, <3>3 DEF Ideal!Stop
  <2> QED
    BY <2>2, <2>3
<1> QED
  BY <1>5, <1>6


-----------------------------------------------------------------------------
(* The refinement.                                                         *)

(* Nothing is seen of an idle machine.                                     *)
LEMMA InitSeen ==
  ASSUME Init
  PROVE  Ideal!Init
<1>1. /\ code = <<>> /\ constants = <<>> /\ pc = 0 /\ stack = <<>> /\ locals = <<>> /\ arrs = <<>>
      /\ status = "idle"
  BY DEF Init
<1>2. \A ss : View(<<>>, ss) = <<>>
  BY ViewOne, PlainGood, GoodIsTyped
<1>3. SeenConstants = <<>> /\ SeenStack = <<>> /\ SeenLocals = <<>>
  BY <1>1, <1>2 DEF SeenConstants, SeenStack, SeenLocals
<1>4. SeenArrays = <<>>
  <2>1. DOMAIN arrs = {}
    BY <1>1
  <2> QED
    BY <2>1 DEF SeenArrays
<1>5. SeenStatus = "idle"
  BY <1>1, StatusSeen
<1> QED
  BY <1>1, <1>3, <1>4, <1>5 DEF Ideal!Init

(* Every instruction is one of the ideal machine's.                        *)
LEMMA InstructionSeen ==
  ASSUME IInv, Instruction
  PROVE  Ideal!Next
<1>1. \/ Ideal!Constant \/ Ideal!Boolean \/ Ideal!Calculate \/ Ideal!Compare \/ Ideal!Negate \/ Ideal!Not
      \/ Ideal!Join \/ Ideal!Read \/ Ideal!Write \/ Ideal!Update \/ Ideal!Jump
      \/ Ideal!Collect \/ Ideal!ReadElement \/ Ideal!WriteElement \/ Ideal!AddElement
  BY PushConstSeen, PushBoolSeen, PushArraySeen, IntOpSeen, CompareSeen, NegateSeen, NotSeen,
     CompoundStoreSeen, LoadSeen, StoreSeen, JumpSeen, ConcatSeen, ArrLoadIdxSeen, ArrStoreIdxSeen,
     ArrAppendSeen, Zenon DEF Instruction
<1> QED
  BY <1>1, Zenon DEF Ideal!Next

(* Every step is a step of the ideal machine, or none.                     *)
LEMMA StepSeen ==
  ASSUME IInv, Fresh, [Next]_vars
  PROVE  [Ideal!Next]_(Ideal!idealvars)
<1>1. CASE UNCHANGED vars
  <2>1. UNCHANGED <<code, constants, pc, stack, locals, strs, arrs, status>>
    BY <1>1 DEF vars
  <2>2. ~Rewritten(strs, strs') /\ UNCHANGED SeenStatus
    BY <2>1 DEF Rewritten, SeenStatus, NothingDangles
  <2> QED
    BY <2>1, <2>2, Unseen
<1>2. CASE \E img \in Images : vm_init(img)
  <2>1. Ideal!Start
    BY <1>2, StartSeen
  <2> QED
    BY <2>1 DEF Ideal!Next
<1>3. CASE Instruction
  BY <1>3, InstructionSeen
<1>4. CASE Count
  BY <1>4, CountUnseen
<1>5. CASE Abort \/ Halt
  <2>1. Ideal!Stop \/ UNCHANGED Ideal!idealvars
    BY <1>5, StopSeen
  <2> QED
    BY <2>1 DEF Ideal!Next
<1>6. CASE vm_free
  BY <1>6, FreeUnseen
<1> QED
  BY <1>1, <1>2, <1>3, <1>4, <1>5, <1>6 DEF Next

(* Any bytecode computes on the machine of vm.c what it computes on a      *)
(* machine without memory management: strings behave as values, no text or *)
(* element changes under another name's feet, and it stops only where the  *)
(* program itself goes wrong, or short of a cell that was freed.           *)
THEOREM CountingNeverShows == Spec => CountingIsInvisible
<1>1. Init => Ideal!Init
  BY InitSeen
<1>2. IInv /\ Fresh /\ [Next]_vars => [Ideal!Next]_(Ideal!idealvars)
  BY StepSeen
<1> QED
  BY <1>1, <1>2, Inductive, PTL DEF Spec, CountingIsInvisible, Ideal!Spec
=============================================================================
