------------------------------ MODULE VMProofs ------------------------------
(***************************************************************************)
(* Theorems about the virtual machine, for every set of images and every   *)
(* value of the constants.                                                 *)
(***************************************************************************)
EXTENDS VM, SequenceTheorems, TLAPS

Good == Pointing(strs, arrs)

GoodJob == [act : {"take", "drop"}, vals : Seq(Good) \ {<<>>}]

(* The inductive invariant: types, pointers, counts and capacities need    *)
(* each other.  What a pop leaves in a local or an array has to be a value *)
(* that can be followed; what can be followed has to have a type; and the  *)
(* counts never rising above 0 is what keeps every array cell.             *)
IInv ==
  /\ code \in Seq(Nat) /\ constants \in Seq(Good)
  /\ pc \in Int
  /\ stack \in Seq(Good) /\ locals \in Seq(Good)
  /\ stack_capacity \in Nat \ {0}
  /\ strs \in Seq(StringValue) /\ arrs \in Seq(ArrayValue)
  /\ \A a \in DOMAIN arrs : arrs[a].arr_val \in Seq(Good)
  /\ todo \in Seq(GoodJob)
  /\ status \in Status
  /\ ArraysStayAllocated
  /\ RoomToAppend
  /\ StackFits

-----------------------------------------------------------------------------
(* Growing the heap keeps every pointer good.                              *)
LEMMA PointingGrows ==
  ASSUME NEW ss1, NEW as1, NEW ss2, NEW as2,
         DOMAIN ss1 \subseteq DOMAIN ss2, DOMAIN as1 \subseteq DOMAIN as2
  PROVE  Pointing(ss1, as1) \subseteq Pointing(ss2, as2)
BY DEF Pointing, Located

(* A sequence over a set is one over any larger set.                       *)
LEMMA SeqGrows ==
  ASSUME NEW S, NEW T, S \subseteq T, NEW s \in Seq(S)
  PROVE  s \in Seq(T)
<1>1. Len(s) \in Nat /\ DOMAIN s = 1 .. Len(s) /\ \A i \in 1 .. Len(s) : s[i] \in S
  BY LenProperties, ElementOfSeq
<1>2. s = [i \in 1 .. Len(s) |-> s[i]]
  BY <1>1, LenProperties
<1> QED
  BY <1>1, <1>2

(* The counting an instruction leaves behind is a queue of good jobs.      *)
LEMMA WorkGood ==
  ASSUME NEW G, NEW act \in {"take", "drop"}, NEW vals \in Seq(G)
  PROVE  Work(act, vals) \in Seq([act : {"take", "drop"}, vals : Seq(G) \ {<<>>}])
<1> DEFINE J == [act : {"take", "drop"}, vals : Seq(G) \ {<<>>}]
<1>1. CASE \E i \in DOMAIN vals : IsCounted(vals[i])
  <2>1. vals # <<>>
    BY <1>1
  <2>2. [act |-> act, vals |-> vals] \in J
    BY <2>1
  <2>3. Work(act, vals) = <<[act |-> act, vals |-> vals]>>
    BY <1>1 DEF Work
  <2> HIDE DEF J
  <2> QED
    BY <2>2, <2>3 DEF J
<1>2. CASE ~ \E i \in DOMAIN vals : IsCounted(vals[i])
  BY <1>2 DEF Work
<1> QED
  BY <1>1, <1>2

(* The values that pointed well before a step that only grows the heap     *)
(* still do after it.                                                      *)
LEMMA GoodGrows ==
  ASSUME DOMAIN strs \subseteq DOMAIN strs', DOMAIN arrs \subseteq DOMAIN arrs'
  PROVE  /\ Good \subseteq Good'
         /\ Seq(Good) \subseteq Seq(Good')
         /\ Seq(GoodJob) \subseteq Seq(GoodJob')
<1>1. Good \subseteq Good'
  BY PointingGrows DEF Good
<1>2. Seq(Good) \subseteq Seq(Good')
  BY <1>1, SeqGrows
<1>3. GoodJob \subseteq GoodJob'
  BY <1>2 DEF GoodJob
<1> QED
  BY <1>1, <1>2, <1>3, SeqGrows

(* Good jobs are jobs.                                                     *)
LEMMA GoodIsTyped ==
  /\ Good \subseteq StackValue /\ Seq(Good) \subseteq Seq(StackValue)
  /\ Seq(GoodJob) \subseteq Seq(Job)
<1>1. Good \subseteq StackValue
  BY DEF Good, Pointing
<1>2. Seq(Good) \subseteq Seq(StackValue)
  BY <1>1, SeqGrows
<1>3. GoodJob \subseteq Job
  BY <1>2 DEF GoodJob, Job
<1> QED
  BY <1>1, <1>2, <1>3, SeqGrows

-----------------------------------------------------------------------------
(* What the guard of every instruction says.                               *)
LEMMA Fetched ==
  ASSUME IInv, NEW ops, At(ops)
  PROVE  /\ status = "running" /\ todo = <<>> /\ Op \in ops \cap Opcodes
         /\ pc \in Nat /\ pc + OperandBytes(Op) < Len(code)
         /\ Op \in Slotted => ValidSlot
         /\ ~(Len(stack) < Arity)
         /\ \A c \in Faults : ~Fault(c)
<1>1. InCode /\ Op \in ops /\ Obstacles = {} /\ status = "running" /\ todo = <<>>
  BY DEF At, Ready
<1>2. Op \in Opcodes
  BY <1>1 DEF Obstacles
<1>3. Fetchable
  BY <1>1, <1>2 DEF Obstacles
<1>4. ~(Op \in Stores /\ ~ValidSlot)
  BY <1>1, <1>2, <1>3 DEF Obstacles
<1>5. ~(Len(stack) < Arity)
  BY <1>1, <1>2, <1>3, <1>4 DEF Obstacles
<1>6. ~(Op \in Slotted /\ ~ValidSlot)
  BY <1>1, <1>2, <1>3, <1>4, <1>5 DEF Obstacles
<1>7. {c \in Faults : Fault(c)} = {}
  BY <1>1, <1>2, <1>3, <1>4, <1>5, <1>6 DEF Obstacles
<1> QED
  BY <1>1, <1>2, <1>3, <1>5, <1>6, <1>7 DEF InCode, Fetchable, IInv

(* The operand of an instruction that has one.                             *)
LEMMA OperandType ==
  ASSUME IInv, pc \in Nat, pc + OperandBytes(Op) < Len(code), Op \in WithOperand
  PROVE  Operand \in Nat /\ Steps \in Int
<1>1. code[pc + 2] \in Nat /\ code[pc + 3] \in Nat
  BY DEF IInv, OperandBytes
<1>2. BYTE \in Nat
  BY ByteAssumption
<1>3. \A h, l \in Nat : Unsigned16(h, l) \in Nat
  BY <1>2 DEF Unsigned16
<1>4. BYTE * BYTE \in Nat
  BY <1>2
<1>5. \A h, l \in Nat : Signed16(h, l) \in Int
  <2> SUFFICES ASSUME NEW h \in Nat, NEW l \in Nat PROVE Signed16(h, l) \in Int
    OBVIOUS
  <2> DEFINE u == Unsigned16(h, l)
             n == BYTE * BYTE
  <2>1. u \in Nat /\ n \in Nat
    BY <1>3, <1>4
  <2>2. Signed16(h, l) = IF 2 * u >= n THEN u - n ELSE u
    BY DEF Signed16
  <2> HIDE DEF u, n
  <2> QED
    BY <2>1, <2>2
<1>6. Operand \in Nat
  BY <1>1, <1>3 DEF Operand
<1>7. Steps \in Int
  BY <1>1, <1>5 DEF Steps
<1> QED
  BY <1>6, <1>7

(* The remaining instructions pop nothing.                                 *)
LEMMA NeedsNothing ==
  ASSUME NEW o,
         o \notin IntArith \cup IntTest, o \notin BoolTest,
         o \notin Compound \cup {OP_INEG}, o \notin CondJumps \cup {OP_NOT},
         o \notin Stores, o # OP_SCONCAT, o # OP_ARRLOADIDX,
         o # OP_ARRSTOREIDX, o # OP_ARRAPPEND, o # OP_PUSH_ARRAY
  PROVE  Needs(o) = <<>>
BY DEF Needs

(* The members each instruction reads of what it pops.                     *)
LEMMA NeedsOf ==
  /\ Op \in IntArith \cup IntTest => Needs(Op) = <<"int_val", "int_val">>
  /\ Op \in BoolTest => Needs(Op) = <<"bool_val", "bool_val">>
  /\ Op \in Compound \cup {OP_INEG} => Needs(Op) = <<"int_val">>
  /\ Op \in CondJumps \cup {OP_NOT} => Needs(Op) = <<"bool_val">>
  /\ Op \in Stores => Needs(Op) = <<"any">>
  /\ Op = OP_SCONCAT => Needs(Op) = <<"string_val", "string_val">>
  /\ Op = OP_ARRLOADIDX => Needs(Op) = <<"array_val", "int_val">>
  /\ Op = OP_ARRSTOREIDX => Needs(Op) = <<"any", "array_val", "int_val">>
  /\ Op = OP_ARRAPPEND => Needs(Op) = <<"any", "array_val">>
  /\ Op = OP_PUSH_ARRAY => Needs(Op) = [i \in 1 .. Operand |-> "any"]
<1> USE DEF OP_PUSH, OP_PUSH_TRUE, OP_PUSH_FALSE, OP_PUSH_ARRAY, OP_IADD, OP_IADDSTORE, OP_ISUB,
            OP_ISUBSTORE, OP_IMUL, OP_IMULSTORE, OP_IDIV, OP_IDIVSTORE, OP_INEG, OP_IGT, OP_IGTE,
            OP_ILT, OP_ILTE, OP_IEQ, OP_IMOD, OP_BEQ, OP_INEQ, OP_BNEQ, OP_ISTORE, OP_ILOAD,
            OP_BSTORE, OP_BLOAD, OP_ARRSTORE, OP_ARRLOAD, OP_NOT, OP_JMPN, OP_JMPT, OP_JMP,
            OP_PUSH_STRING, OP_SCONCAT, OP_SSTORE, OP_SLOAD, OP_ARRLOADIDX, OP_ARRSTOREIDX,
            OP_ARRAPPEND, IntArith, IntTest, BoolTest, Compound, CondJumps, Stores, Loads
<1>1. Op \in IntArith \cup IntTest => Needs(Op) = <<"int_val", "int_val">>
  BY SMTT(180) DEF Needs
<1>2. Op \in BoolTest => Needs(Op) = <<"bool_val", "bool_val">>
  BY SMTT(60) DEF Needs
<1>3. Op \in Compound \cup {OP_INEG} => Needs(Op) = <<"int_val">>
  BY SMTT(60) DEF Needs
<1>4. Op \in CondJumps \cup {OP_NOT} => Needs(Op) = <<"bool_val">>
  BY SMTT(60) DEF Needs
<1>5. Op \in Stores => Needs(Op) = <<"any">>
  BY SMTT(60) DEF Needs
<1>6. Op = OP_SCONCAT => Needs(Op) = <<"string_val", "string_val">>
  BY SMTT(60) DEF Needs
<1>7. Op = OP_ARRLOADIDX => Needs(Op) = <<"array_val", "int_val">>
  BY SMTT(60) DEF Needs
<1>8. Op = OP_ARRSTOREIDX => Needs(Op) = <<"any", "array_val", "int_val">>
  BY SMTT(60) DEF Needs
<1>9. Op = OP_ARRAPPEND => Needs(Op) = <<"any", "array_val">>
  BY SMTT(60) DEF Needs
<1>10. Op = OP_PUSH_ARRAY => Needs(Op) = [i \in 1 .. Operand |-> "any"]
  BY SMTT(60) DEF Needs
<1> QED
  BY <1>1, <1>2, <1>3, <1>4, <1>5, <1>6, <1>7, <1>8, <1>9, <1>10, Zenon

(* How many values each instruction pops.                                  *)
LEMMA ArityOf ==
  ASSUME Op \in Opcodes
  PROVE  /\ Op \in IntArith \cup IntTest \cup BoolTest
                     \cup {OP_SCONCAT, OP_ARRLOADIDX, OP_ARRAPPEND} => Arity = 2
         /\ Op \in Compound \cup CondJumps \cup Stores \cup {OP_INEG, OP_NOT} => Arity = 1
         /\ Op = OP_ARRSTOREIDX => Arity = 3
         /\ Op = OP_PUSH_ARRAY /\ Operand \in Nat => Arity = Operand
         /\ Op \in {OP_PUSH, OP_PUSH_STRING, OP_PUSH_TRUE, OP_PUSH_FALSE, OP_JMP} \cup Loads
              => Arity = 0
         /\ Op = OP_SCONCAT => Needs(Op) = <<"string_val", "string_val">>
         /\ Op = OP_ARRLOADIDX => Needs(Op) = <<"array_val", "int_val">>
         /\ Op = OP_ARRSTOREIDX => Needs(Op) = <<"any", "array_val", "int_val">>
         /\ Op = OP_ARRAPPEND => Needs(Op) = <<"any", "array_val">>
<1> USE DEF OP_PUSH, OP_PUSH_TRUE, OP_PUSH_FALSE, OP_PUSH_ARRAY, OP_IADD, OP_IADDSTORE, OP_ISUB,
            OP_ISUBSTORE, OP_IMUL, OP_IMULSTORE, OP_IDIV, OP_IDIVSTORE, OP_INEG, OP_IGT, OP_IGTE,
            OP_ILT, OP_ILTE, OP_IEQ, OP_IMOD, OP_BEQ, OP_INEQ, OP_BNEQ, OP_ISTORE, OP_ILOAD,
            OP_BSTORE, OP_BLOAD, OP_ARRSTORE, OP_ARRLOAD, OP_NOT, OP_JMPN, OP_JMPT, OP_JMP,
            OP_PUSH_STRING, OP_SCONCAT, OP_SSTORE, OP_SLOAD, OP_ARRLOADIDX, OP_ARRSTOREIDX,
            OP_ARRAPPEND, IntArith, IntTest, BoolTest, Compound, CondJumps, Stores, Loads
<1>1. CASE Op \in IntArith \cup IntTest
  BY <1>1, NeedsOf DEF Arity
<1>2. CASE Op \in BoolTest
  BY <1>2, NeedsOf DEF Arity
<1>3. CASE Op \in Compound \cup {OP_INEG}
  BY <1>3, NeedsOf DEF Arity
<1>4. CASE Op \in CondJumps \cup {OP_NOT}
  BY <1>4, NeedsOf DEF Arity
<1>5. CASE Op \in Stores
  BY <1>5, NeedsOf DEF Arity
<1>6. CASE Op = OP_SCONCAT
  BY <1>6, NeedsOf DEF Arity
<1>7. CASE Op = OP_ARRLOADIDX
  BY <1>7, NeedsOf DEF Arity
<1>8. CASE Op = OP_ARRSTOREIDX
  BY <1>8, NeedsOf DEF Arity
<1>9. CASE Op = OP_ARRAPPEND
  BY <1>9, NeedsOf DEF Arity
<1>10. CASE Op = OP_PUSH_ARRAY
  <2>1. Needs(Op) = [i \in 1 .. Operand |-> "any"]
    BY <1>10, NeedsOf
  <2>2. Operand \in Nat => Len([i \in 1 .. Operand |-> "any"]) = Operand
    OBVIOUS
  <2> QED
    BY <1>10, <2>1, <2>2 DEF Arity
<1>11. CASE Op \in {OP_PUSH, OP_PUSH_STRING, OP_PUSH_TRUE, OP_PUSH_FALSE, OP_JMP} \cup Loads
  <2>1. /\ Op \notin IntArith \cup IntTest /\ Op \notin BoolTest
        /\ Op \notin Compound \cup {OP_INEG} /\ Op \notin CondJumps \cup {OP_NOT}
        /\ Op \notin Stores /\ Op # OP_SCONCAT /\ Op # OP_ARRLOADIDX
        /\ Op # OP_ARRSTOREIDX /\ Op # OP_ARRAPPEND /\ Op # OP_PUSH_ARRAY
    BY <1>11
  <2>2. Needs(Op) = <<>>
    BY <2>1, NeedsNothing
  <2> QED
    BY <1>11, <2>2 DEF Arity
<1> QED
  BY <1>1, <1>2, <1>3, <1>4, <1>5, <1>6, <1>7, <1>8, <1>9, <1>10, <1>11 DEF Opcodes

-----------------------------------------------------------------------------
(* What the instructions share.                                            *)

(* The values popped can be followed.                                      *)
LEMMA PoppedGood ==
  ASSUME IInv, Arity \in Nat, Arity <= Len(stack)
  PROVE  /\ \A i \in 1 .. Arity : Popped(i) \in Good
         /\ AllPopped \in Seq(Good)
         /\ Rest \in Seq(Good) /\ Len(Rest) = Len(stack) - Arity
<1>1. stack \in Seq(Good) /\ Len(stack) \in Nat
  BY LenProperties DEF IInv
<1>2. \A i \in 1 .. Arity : Popped(i) \in Good
  BY <1>1, ElementOfSeq DEF Popped
<1>3. AllPopped \in Seq(Good)
  BY <1>2 DEF AllPopped
<1>4. Rest \in Seq(Good) /\ Len(Rest) = Len(stack) - Arity
  BY <1>1, SubSeqProperties DEF Rest
<1> QED
  BY <1>2, <1>3, <1>4

(* Pops and pushes keep the stack and the queue of jobs good, and the      *)
(* stack within its capacity.                                              *)
LEMMA ReplaceGood ==
  ASSUME IInv, Arity \in Nat, Arity <= Len(stack),
         DOMAIN strs \subseteq DOMAIN strs', DOMAIN arrs \subseteq DOMAIN arrs',
         NEW pushed \in Seq(Good'), Len(pushed) <= 1,
         NEW extra \in Seq(GoodJob'),
         Replace(pushed, extra)
  PROVE  /\ stack' \in Seq(Good') /\ todo' \in Seq(GoodJob')
         /\ stack_capacity' \in Nat \ {0} /\ StackFits'
<1>1. Seq(Good) \subseteq Seq(Good')
  BY GoodGrows
<1>2. AllPopped \in Seq(Good') /\ Rest \in Seq(Good') /\ Len(Rest) <= Len(stack)
  <2>1. Len(stack) \in Nat
    BY LenProperties DEF IInv
  <2> QED
    BY <2>1, <1>1, PoppedGood
<1>3. /\ Work("drop", AllPopped) \in Seq(GoodJob')
      /\ Work("take", pushed) \in Seq(GoodJob')
  BY <1>2, WorkGood DEF GoodJob
<1>4. todo' \in Seq(GoodJob')
  <2>1. Work("drop", AllPopped) \o extra \in Seq(GoodJob')
    BY <1>3, ConcatProperties
  <2> QED
    BY <2>1, <1>3, ConcatProperties DEF Replace
<1>5. stack' \in Seq(Good') /\ Len(stack') = Len(Rest) + Len(pushed)
  BY <1>2, ConcatProperties DEF Replace
<1>6. Len(Rest) \in Nat /\ Len(pushed) \in Nat /\ Len(stack) \in Nat
  BY <1>2, LenProperties DEF IInv
<1>7. stack_capacity' \in Nat \ {0} /\ StackFits'
  BY <1>2, <1>5, <1>6 DEF IInv, StackFits, Replace, RoomFor
<1> QED
  BY <1>4, <1>5, <1>7

(* The invariant after an instruction, from what it does to the heap and   *)
(* the locals.                                                             *)
LEMMA StepGood ==
  ASSUME IInv, Arity \in Nat, Arity <= Len(stack),
         DOMAIN strs \subseteq DOMAIN strs', DOMAIN arrs \subseteq DOMAIN arrs',
         NEW pushed \in Seq(Good'), Len(pushed) <= 1,
         NEW extra \in Seq(GoodJob'),
         Replace(pushed, extra),
         pc' \in Int, UNCHANGED <<code, constants, status>>,
         locals' \in Seq(Good'), strs' \in Seq(StringValue), arrs' \in Seq(ArrayValue),
         \A a \in DOMAIN arrs' : arrs'[a].arr_val \in Seq(Good'),
         ArraysStayAllocated', RoomToAppend'
  PROVE  IInv'
<1>1. /\ stack' \in Seq(Good') /\ todo' \in Seq(GoodJob')
      /\ stack_capacity' \in Nat \ {0} /\ StackFits'
  BY ReplaceGood
<1>2. constants' \in Seq(Good')
  BY GoodGrows DEF IInv
<1> QED
  BY <1>1, <1>2 DEF IInv

(* An instruction that pushes one value and leaves heap and locals alone.  *)
LEMMA PushGood ==
  ASSUME IInv, Arity \in Nat, Arity <= Len(stack),
         NEW v \in Good, Push(v), pc' \in Int,
         UNCHANGED <<code, constants, status, strs, arrs, locals>>
  PROVE  IInv'
<1>1. Good' = Good
  BY DEF Good, Pointing, Located
<1>2. <<v>> \in Seq(Good') /\ Len(<<v>>) <= 1
  BY <1>1
<1>3. <<>> \in Seq(GoodJob')
  OBVIOUS
<1>4. Replace(<<v>>, <<>>)
  BY DEF Push
<1>5. DOMAIN strs \subseteq DOMAIN strs' /\ DOMAIN arrs \subseteq DOMAIN arrs'
  OBVIOUS
<1>6. /\ locals' \in Seq(Good') /\ strs' \in Seq(StringValue) /\ arrs' \in Seq(ArrayValue)
      /\ \A a \in DOMAIN arrs' : arrs'[a].arr_val \in Seq(Good')
  BY <1>1 DEF IInv
<1>7. ArraysStayAllocated' /\ RoomToAppend'
  BY DEF IInv, ArraysStayAllocated, RoomToAppend
<1> QED
  BY <1>2, <1>3, <1>4, <1>5, <1>6, <1>7, StepGood

-----------------------------------------------------------------------------
(* Values instructions compute.                                            *)

(* The address behind an instruction is a number.                          *)
LEMMA FollowingInt ==
  ASSUME pc \in Nat
  PROVE  Following \in Int
BY DEF Following, OperandBytes

(* Integers, booleans and garbage point nowhere.                           *)
LEMMA PlainGood ==
  /\ \A n \in Int : IntValue(n) \in Good
  /\ \A p \in BOOLEAN : BoolValue(p) \in Good
  /\ Garbage \in Good
BY DEF IntValue, BoolValue, Garbage, Good, Pointing, Located, StackValue, VarType, BaseType, Member,
       IsString, IsArray, int_type, bool_type, unknown_type, Scalar

(* Arithmetic that wraps around stays an integer.                          *)
LEMMA WrapInt ==
  ASSUME NEW n \in Int
  PROVE  Wrap(n) \in Int
<1>1. INT_MIN \in Int /\ 2 * (INT_MAX + 1) \in Nat \ {0}
  BY IntMaxAssumption DEF INT_MIN
<1> QED
  BY <1>1 DEF Wrap

(* C's division and remainder give integers when the divisor is not 0.     *)
LEMMA QuotientInt ==
  ASSUME NEW a \in Int, NEW b \in Int, b # 0
  PROVE  Quotient(a, b) \in Int /\ Remainder(a, b) \in Int
<1>1. AbsInt(a) \in Nat /\ AbsInt(b) \in Nat \ {0}
  BY DEF AbsInt
<1>2. AbsInt(a) \div AbsInt(b) \in Int
  BY <1>1
<1>3. Quotient(a, b) \in Int
  BY <1>2 DEF Quotient
<1> QED
  BY <1>3 DEF Remainder

(* The result of every arithmetic instruction is an integer.               *)
LEMMA ArithInt ==
  ASSUME NEW o \in IntArith \cup Compound, NEW a \in Int, NEW b \in Int,
         o \in {OP_IDIV, OP_IMOD, OP_IDIVSTORE} => b # 0
  PROVE  Arith(o, a, b) \in Int
<1>1. Wrap(a + b) \in Int /\ Wrap(a - b) \in Int /\ Wrap(a * b) \in Int
  BY WrapInt
<1>2. b # 0 => Quotient(a, b) \in Int /\ Remainder(a, b) \in Int
  BY QuotientInt
<1> USE DEF OP_IADD, OP_IADDSTORE, OP_ISUB, OP_ISUBSTORE, OP_IMUL, OP_IMULSTORE, OP_IDIV,
            OP_IDIVSTORE, OP_IMOD
<1>3. CASE o \in {OP_IADD, OP_IADDSTORE}
  BY <1>1, <1>3 DEF Arith
<1>4. CASE o \in {OP_ISUB, OP_ISUBSTORE}
  BY <1>1, <1>4 DEF Arith
<1>5. CASE o \in {OP_IMUL, OP_IMULSTORE}
  BY <1>1, <1>5 DEF Arith
<1>6. CASE o \in {OP_IDIV, OP_IDIVSTORE}
  BY <1>2, <1>6 DEF Arith
<1>7. CASE o = OP_IMOD
  BY <1>2, <1>7 DEF Arith
<1> QED
  BY <1>3, <1>4, <1>5, <1>6, <1>7 DEF IntArith, Compound

(* What the absence of faults says of the operands.                        *)
LEMMA NoFault ==
  ASSUME \A c \in Faults : ~Fault(c)
  PROVE  /\ MembersMatch
         /\ Op \in {OP_PUSH, OP_PUSH_STRING} => ~(Operand >= Len(constants))
         /\ Op \in Loads \cup Compound => locals[Slot].member # "none"
         /\ Op \in {OP_IDIV, OP_IMOD, OP_IDIVSTORE} => Divisor # 0
         /\ Op \in Indexing => ~(Index >= Len(arrs[TheArray].arr_val)) /\ ~(Index < 0)
<1>1. MembersMatch
  <2>1. ~Fault("wrong member")
    BY DEF Faults
  <2> QED
    BY <2>1 DEF Fault
<1>2. Op \in {OP_PUSH, OP_PUSH_STRING} => ~(Operand >= Len(constants))
  <2>1. ~Fault("no such constant")
    BY DEF Faults
  <2> QED
    BY <2>1 DEF Fault
<1>3. Op \in Loads \cup Compound => locals[Slot].member # "none"
  <2>1. ~Fault("uninitialized local")
    BY DEF Faults
  <2> QED
    BY <2>1 DEF Fault
<1>4. Op \in {OP_IDIV, OP_IMOD, OP_IDIVSTORE} => Divisor # 0
  <2>1. ~Fault("division by zero") /\ ~Fault("divide trap")
    BY DEF Faults
  <2>2. Op \in {OP_IDIV, OP_IMOD} => Divisor # 0
    BY <2>1, <1>1 DEF Fault
  <2>3. Op = OP_IDIVSTORE => Divisor # 0
    BY <2>1, <1>1 DEF Fault
  <2> QED
    BY <2>2, <2>3
<1>5. Op \in Indexing => ~(Index >= Len(arrs[TheArray].arr_val)) /\ ~(Index < 0)
  <2>1. ~Fault("index out of bounds") /\ ~Fault("negative index")
    BY DEF Faults
  <2> QED
    BY <2>1, <1>1 DEF Fault
<1> QED
  BY <1>1, <1>2, <1>3, <1>4, <1>5

-----------------------------------------------------------------------------
(* One lemma for each group of instructions.                               *)

(* OP_PUSH, OP_PUSH_STRING, OP_PUSH_TRUE, OP_PUSH_FALSE and the loads.     *)
LEMMA PushesGood ==
  ASSUME IInv, PushConst \/ PushBool \/ Load
  PROVE  IInv'
<1> USE DEF Proceed, HeapUnchanged
<1>1. CASE PushConst
  <2>1. At({OP_PUSH, OP_PUSH_STRING})
    BY <1>1 DEF PushConst
  <2>2. Op \in {OP_PUSH, OP_PUSH_STRING} /\ Op \in Opcodes /\ pc \in Nat
        /\ pc + OperandBytes(Op) < Len(code) /\ ~(Operand >= Len(constants))
    BY <2>1, Fetched, NoFault
  <2>3. Operand \in Nat
    BY <2>2, OperandType DEF WithOperand
  <2>4. constants[Operand + 1] \in Good
    BY <2>2, <2>3, LenProperties, ElementOfSeq DEF IInv
  <2>5. Arity = 0 /\ Arity <= Len(stack)
    BY <2>2, ArityOf, LenProperties DEF IInv
  <2>6. pc' \in Int /\ UNCHANGED <<code, constants, status, strs, arrs, locals>>
        /\ Push(constants[Operand + 1])
    BY <1>1, <2>2, FollowingInt DEF PushConst
  <2> QED
    BY <2>4, <2>5, <2>6, PushGood
<1>2. CASE PushBool
  <2>1. At({OP_PUSH_TRUE, OP_PUSH_FALSE})
    BY <1>2 DEF PushBool
  <2>2. Op \in {OP_PUSH_TRUE, OP_PUSH_FALSE} /\ Op \in Opcodes /\ pc \in Nat
    BY <2>1, Fetched
  <2>3. BoolValue(Op = OP_PUSH_TRUE) \in Good
    BY PlainGood
  <2>4. Arity = 0 /\ Arity <= Len(stack)
    BY <2>2, ArityOf, LenProperties DEF IInv
  <2>5. pc' \in Int /\ UNCHANGED <<code, constants, status, strs, arrs, locals>>
        /\ Push(BoolValue(Op = OP_PUSH_TRUE))
    BY <1>2, <2>2, FollowingInt DEF PushBool
  <2> QED
    BY <2>3, <2>4, <2>5, PushGood
<1>3. CASE Load
  <2>1. At(Loads)
    BY <1>3 DEF Load
  <2>2. Op \in Loads /\ Op \in Opcodes /\ pc \in Nat
        /\ pc + OperandBytes(Op) < Len(code) /\ ValidSlot
    BY <2>1, Fetched DEF Slotted
  <2>3. Operand \in Nat
    BY <2>2, OperandType DEF WithOperand
  <2>4. locals[Slot] \in Good
    BY <2>2, <2>3, LenProperties, ElementOfSeq DEF IInv, Slot, ValidSlot
  <2>5. Arity = 0 /\ Arity <= Len(stack)
    BY <2>2, ArityOf, LenProperties DEF IInv
  <2>6. pc' \in Int /\ UNCHANGED <<code, constants, status, strs, arrs, locals>>
        /\ Push(locals[Slot])
    BY <1>3, <2>2, FollowingInt DEF Load
  <2> QED
    BY <2>4, <2>5, <2>6, PushGood
<1> QED
  BY <1>1, <1>2, <1>3

(* What Arity and the typed stack give the instructions of one or two      *)
(* operands.                                                               *)
LEMMA Operands ==
  ASSUME IInv, NEW n \in Nat, Arity = n, ~(Len(stack) < Arity)
  PROVE  /\ Arity \in Nat /\ Arity <= Len(stack)
         /\ \A i \in 1 .. n : Popped(i) \in Good /\ Popped(i).val \in Int
<1>1. Len(stack) \in Nat
  BY LenProperties DEF IInv
<1>2. \A i \in 1 .. n : Popped(i) \in Good
  BY <1>1, PoppedGood
<1>3. \A i \in 1 .. n : Popped(i).val \in Int
  BY <1>2 DEF Good, Pointing, StackValue
<1> QED
  BY <1>1, <1>2, <1>3

(* The arithmetic, the comparisons, OP_INEG and OP_NOT.                    *)
LEMMA ComputesGood ==
  ASSUME IInv, IntOp \/ Compare \/ Negate \/ Not
  PROVE  IInv'
<1> USE DEF Proceed, HeapUnchanged
<1>1. CASE IntOp
  <2> DEFINE v == IntValue(Arith(Op, Popped(2).val, Popped(1).val))
  <2>1. At(IntArith)
    BY <1>1 DEF IntOp
  <2>2. Op \in IntArith /\ Op \in Opcodes /\ pc \in Nat /\ ~(Len(stack) < Arity)
    BY <2>1, Fetched
  <2>3. Op \in {OP_IDIV, OP_IMOD, OP_IDIVSTORE} => Popped(1).val # 0
    BY <2>1, Fetched, NoFault DEF Divisor
  <2>4. Arity = 2
    BY <2>2, ArityOf
  <2>5. Arity \in Nat /\ Arity <= Len(stack) /\ Popped(1).val \in Int /\ Popped(2).val \in Int
    BY <2>2, <2>4, Operands
  <2>6. v \in Good
    BY <2>2, <2>3, <2>5, ArithInt, PlainGood
  <2>7. pc' \in Int /\ UNCHANGED <<code, constants, status, strs, arrs, locals>> /\ Push(v)
    BY <1>1, <2>2, FollowingInt DEF IntOp
  <2> QED
    BY <2>5, <2>6, <2>7, PushGood
<1>2. CASE Compare
  <2> DEFINE v == BoolValue(Test(Op, Popped(2).val, Popped(1).val))
  <2>1. At(IntTest \cup BoolTest)
    BY <1>2 DEF Compare
  <2>2. Op \in IntTest \cup BoolTest /\ Op \in Opcodes /\ pc \in Nat /\ ~(Len(stack) < Arity)
    BY <2>1, Fetched
  <2>3. Arity = 2
    BY <2>2, ArityOf
  <2>4. Arity \in Nat /\ Arity <= Len(stack)
    BY <2>2, <2>3, Operands
  <2>5. v \in Good
    <3>1. v \in {BoolValue(TRUE), BoolValue(FALSE)}
      BY DEF BoolValue
    <3> QED
      BY <3>1, PlainGood
  <2>6. pc' \in Int /\ UNCHANGED <<code, constants, status, strs, arrs, locals>> /\ Push(v)
    BY <1>2, <2>2, FollowingInt DEF Compare
  <2> QED
    BY <2>4, <2>5, <2>6, PushGood
<1>3. CASE Negate
  <2> DEFINE v == IntValue(Wrap(-Popped(1).val))
  <2>1. At({OP_INEG})
    BY <1>3 DEF Negate
  <2>2. Op = OP_INEG /\ Op \in Opcodes /\ pc \in Nat /\ ~(Len(stack) < Arity)
    BY <2>1, Fetched
  <2>3. Arity = 1
    BY <2>2, ArityOf
  <2>4. Arity \in Nat /\ Arity <= Len(stack) /\ Popped(1).val \in Int
    BY <2>2, <2>3, Operands
  <2>5. v \in Good
    <3> DEFINE n == -Popped(1).val
    <3>1. n \in Int
      BY <2>4
    <3> HIDE DEF n
    <3>2. Wrap(n) \in Int
      BY <3>1, WrapInt
    <3>3. IntValue(Wrap(n)) \in Good
      BY <3>2, PlainGood
    <3> QED
      BY <3>3 DEF n
  <2>6. pc' \in Int /\ UNCHANGED <<code, constants, status, strs, arrs, locals>> /\ Push(v)
    BY <1>3, <2>2, FollowingInt DEF Negate
  <2> QED
    BY <2>4, <2>5, <2>6, PushGood
<1>4. CASE Not
  <2> DEFINE v == BoolValue(Popped(1).val = 0)
  <2>1. At({OP_NOT})
    BY <1>4 DEF Not
  <2>2. Op = OP_NOT /\ Op \in Opcodes /\ pc \in Nat /\ ~(Len(stack) < Arity)
    BY <2>1, Fetched
  <2>3. Arity = 1
    BY <2>2, ArityOf
  <2>4. Arity \in Nat /\ Arity <= Len(stack)
    BY <2>2, <2>3, Operands
  <2>5. v \in Good
    BY PlainGood
  <2>6. pc' \in Int /\ UNCHANGED <<code, constants, status, strs, arrs, locals>> /\ Push(v)
    BY <1>4, <2>2, FollowingInt DEF Not
  <2> QED
    BY <2>4, <2>5, <2>6, PushGood
<1> QED
  BY <1>1, <1>2, <1>3, <1>4

(* Instructions that push nothing and leave the heap alone.                *)
LEMMA PopOnlyGood ==
  ASSUME IInv, Arity \in Nat, Arity <= Len(stack), Replace(<<>>, <<>>),
         pc' \in Int, UNCHANGED <<code, constants, status, strs, arrs>>,
         locals' \in Seq(Good)
  PROVE  IInv'
<1>1. Good' = Good
  BY DEF Good, Pointing, Located
<1>2. <<>> \in Seq(Good') /\ Len(<<>>) <= 1 /\ <<>> \in Seq(GoodJob')
  OBVIOUS
<1>3. DOMAIN strs \subseteq DOMAIN strs' /\ DOMAIN arrs \subseteq DOMAIN arrs'
  OBVIOUS
<1>4. /\ locals' \in Seq(Good') /\ strs' \in Seq(StringValue) /\ arrs' \in Seq(ArrayValue)
      /\ \A a \in DOMAIN arrs' : arrs'[a].arr_val \in Seq(Good')
  BY <1>1 DEF IInv
<1>5. ArraysStayAllocated' /\ RoomToAppend'
  BY DEF IInv, ArraysStayAllocated, RoomToAppend
<1> QED
  BY <1>2, <1>3, <1>4, <1>5, StepGood

(* The stores, the compound stores and the jumps.                          *)
LEMMA StoresGood ==
  ASSUME IInv, CompoundStore \/ Store \/ Jump
  PROVE  IInv'
<1> USE DEF Proceed, HeapUnchanged
<1>1. CASE CompoundStore
  <2>1. At(Compound)
    BY <1>1 DEF CompoundStore
  <2>2. Op \in Compound /\ Op \in Opcodes /\ pc \in Nat /\ ~(Len(stack) < Arity)
        /\ pc + OperandBytes(Op) < Len(code) /\ ValidSlot
    BY <2>1, Fetched DEF Slotted
  <2>3. /\ Op \in {OP_IDIV, OP_IMOD, OP_IDIVSTORE} => Popped(1).val # 0
        /\ locals[Slot].member = "int_val"
    BY <2>1, <2>2, Fetched, NoFault DEF Divisor, MembersMatch
  <2>4. Arity = 1
    BY <2>2, ArityOf
  <2>5. Arity \in Nat /\ Arity <= Len(stack) /\ Popped(1).val \in Int
    BY <2>2, <2>4, Operands
  <2>6. Operand \in Nat
    BY <2>2, OperandType DEF WithOperand
  <2>7. locals \in Seq(Good) /\ Slot \in 1 .. Len(locals)
    BY <2>2, <2>6, LenProperties DEF IInv, Slot, ValidSlot
  <2>8. locals[Slot] \in Good
    BY <2>7, ElementOfSeq
  <2> DEFINE n == Arith(Op, locals[Slot].val, Popped(1).val)
             v == [locals[Slot] EXCEPT !.val = n]
  <2>9. n \in Int
    <3>1. locals[Slot].val \in Int
      BY <2>8 DEF Good, Pointing, StackValue
    <3> QED
      BY <2>2, <2>3, <2>5, <3>1, ArithInt
  <2>10. v \in Good
    <3> HIDE DEF n
    <3> QED
      BY <2>3, <2>8, <2>9 DEF Good, Pointing, Located, StackValue, IsString, IsArray
  <2>11. locals' = [locals EXCEPT ![Slot] = v]
    BY <1>1 DEF CompoundStore
  <2>12. locals' \in Seq(Good)
    <3> HIDE DEF v
    <3> QED
      BY <2>7, <2>10, <2>11, ExceptSeq
  <2>13. pc' \in Int /\ UNCHANGED <<code, constants, status, strs, arrs>> /\ Replace(<<>>, <<>>)
    BY <1>1, <2>2, FollowingInt DEF CompoundStore
  <2> QED
    BY <2>5, <2>12, <2>13, PopOnlyGood
<1>2. CASE Store
  <2>1. At(Stores)
    BY <1>2 DEF Store
  <2>2. Op \in Stores /\ Op \in Opcodes /\ pc \in Nat /\ ~(Len(stack) < Arity)
        /\ pc + OperandBytes(Op) < Len(code) /\ ValidSlot
    BY <2>1, Fetched DEF Slotted
  <2>3. Arity = 1
    BY <2>2, ArityOf
  <2>4. Arity \in Nat /\ Arity <= Len(stack) /\ Popped(1) \in Good
    BY <2>2, <2>3, Operands
  <2>5. Operand \in Nat
    BY <2>2, OperandType DEF WithOperand
  <2>6. locals \in Seq(Good) /\ Slot \in 1 .. Len(locals)
    BY <2>2, <2>5, LenProperties DEF IInv, Slot, ValidSlot
  <2>7. locals' \in Seq(Good)
    BY <1>2, <2>4, <2>6, ExceptSeq DEF Store
  <2>8. pc' \in Int /\ UNCHANGED <<code, constants, status, strs, arrs>> /\ Replace(<<>>, <<>>)
    BY <1>2, <2>2, FollowingInt DEF Store
  <2> QED
    BY <2>4, <2>7, <2>8, PopOnlyGood
<1>3. CASE Jump
  <2>1. At({OP_JMP} \cup CondJumps)
    BY <1>3 DEF Jump
  <2>2. Op \in {OP_JMP} \cup CondJumps /\ Op \in Opcodes /\ pc \in Nat /\ ~(Len(stack) < Arity)
        /\ pc + OperandBytes(Op) < Len(code)
    BY <2>1, Fetched
  <2>3. Arity = 0 \/ Arity = 1
    BY <2>2, ArityOf
  <2>4. Arity \in Nat /\ Arity <= Len(stack)
    BY <2>2, <2>3, Operands
  <2>5. Steps \in Int /\ Following \in Int
    BY <2>2, OperandType, FollowingInt DEF WithOperand
  <2>6. pc' \in Int /\ UNCHANGED <<code, constants, status, strs, arrs, locals>>
        /\ Replace(<<>>, <<>>)
    BY <1>3, <2>5 DEF Jump
  <2>7. locals' \in Seq(Good)
    BY <2>6 DEF IInv
  <2> QED
    BY <2>4, <2>6, <2>7, PopOnlyGood
<1> QED
  BY <1>1, <1>2, <1>3

-----------------------------------------------------------------------------
(* The instructions on strings and arrays.                                 *)

(* A first capacity exceeds the length.                                    *)
LEMMA ChunkRoom ==
  ASSUME NEW n \in Nat
  PROVE  LET c == ((n \div ARRAY_CHUNK) + 1) * ARRAY_CHUNK IN c \in Int /\ n < c
<1> DEFINE k == ARRAY_CHUNK
<1>1. k \in Nat \ {0}
  BY ArrayChunkAssumption
<1> HIDE DEF k
<1>2. PICK q \in Int, m \in Int : q = n \div k /\ m = n % k /\ n = k * q + m /\ m < k
  BY <1>1
<1>3. (q + 1) * k = k * q + k
  BY <1>1
<1>4. (q + 1) * k \in Int /\ n < (q + 1) * k
  BY <1>1, <1>2, <1>3
<1> QED
  BY <1>2, <1>4 DEF k

(* The instruction that indexes or appends holds a pointer to an array.    *)
LEMMA ArrayOperand ==
  ASSUME IInv, NEW ops \in SUBSET (Indexing \cup {OP_ARRAPPEND}), At(ops)
  PROVE  /\ Arity \in Nat /\ Arity <= Len(stack) /\ Arity >= 2
         /\ \A i \in 1 .. Arity : Popped(i) \in Good
         /\ TheArray \in DOMAIN arrs
         /\ Op \in Indexing => Index \in 0 .. Len(arrs[TheArray].arr_val) - 1
         /\ Op = OP_ARRSTOREIDX => ArrayAt = 2 /\ Arity = 3
<1>1. /\ Op \in Indexing \cup {OP_ARRAPPEND} /\ Op \in Opcodes /\ ~(Len(stack) < Arity)
      /\ MembersMatch
      /\ Op \in Indexing => ~(Index >= Len(arrs[TheArray].arr_val)) /\ ~(Index < 0)
  BY Fetched, NoFault
<1>2. OP_ARRLOADIDX # OP_ARRSTOREIDX /\ OP_ARRLOADIDX # OP_ARRAPPEND
  BY DEF OP_ARRLOADIDX, OP_ARRSTOREIDX, OP_ARRAPPEND
<1>3. /\ Arity \in {2, 3} /\ ArrayAt \in 1 .. Arity /\ Needs(Op)[ArrayAt] = "array_val"
      /\ Op \in Indexing => ArrayAt + 1 \in 1 .. Arity
      /\ Op = OP_ARRSTOREIDX => ArrayAt = 2 /\ Arity = 3
  <2>1. CASE Op = OP_ARRLOADIDX
    <3>1. Arity = 2 /\ Needs(Op) = <<"array_val", "int_val">> /\ ArrayAt = 1
      BY <1>1, <2>1, ArityOf DEF ArrayAt
    <3> QED
      BY <1>2, <2>1, <3>1
  <2>2. CASE Op = OP_ARRSTOREIDX
    <3>1. Arity = 3 /\ Needs(Op) = <<"any", "array_val", "int_val">> /\ ArrayAt = 2
      BY <1>1, <1>2, <2>2, ArityOf DEF ArrayAt
    <3> QED
      BY <2>2, <3>1
  <2>3. CASE Op = OP_ARRAPPEND
    <3>1. Arity = 2 /\ Needs(Op) = <<"any", "array_val">> /\ ArrayAt = 2
      BY <1>1, <1>2, <2>3, ArityOf DEF ArrayAt
    <3>2. Op \notin Indexing
      BY <2>3 DEF Indexing, OP_ARRLOADIDX, OP_ARRSTOREIDX, OP_ARRAPPEND
    <3> QED
      BY <2>3, <3>1, <3>2 DEF Indexing
  <2> QED
    BY <1>1, <2>1, <2>2, <2>3 DEF Indexing
<1>4. /\ Arity \in Nat /\ Arity <= Len(stack)
      /\ \A i \in 1 .. Arity : Popped(i) \in Good /\ Popped(i).val \in Int
  BY <1>1, <1>3, Operands
<1>5. TheArray \in DOMAIN arrs
  <2>1. Popped(ArrayAt).member = "array_val" /\ Popped(ArrayAt) \in Good
    BY <1>1, <1>3, <1>4 DEF MembersMatch
  <2> QED
    BY <2>1 DEF Good, Pointing, Located, TheArray
<1>6. Op \in Indexing => Index \in 0 .. Len(arrs[TheArray].arr_val) - 1
  <2>1. Op \in Indexing => Index \in Int
    BY <1>3, <1>4 DEF Index
  <2>2. Len(arrs[TheArray].arr_val) \in Nat
    BY <1>5, LenProperties DEF IInv
  <2> QED
    BY <1>1, <2>1, <2>2
<1> QED
  BY <1>3, <1>4, <1>5, <1>6

(* OP_ARRLOADIDX pushes an element, which the heap already held.           *)
LEMMA ArrLoadIdxGood ==
  ASSUME IInv, ArrLoadIdx
  PROVE  IInv'
<1>1. At({OP_ARRLOADIDX})
  BY DEF ArrLoadIdx
<1>2. Op = OP_ARRLOADIDX /\ pc \in Nat
  BY <1>1, Fetched
<1>3. /\ Arity \in Nat /\ Arity <= Len(stack) /\ TheArray \in DOMAIN arrs
      /\ Index \in 0 .. Len(arrs[TheArray].arr_val) - 1
  BY <1>1, <1>2, ArrayOperand DEF Indexing
<1>4. arrs[TheArray].arr_val[Index + 1] \in Good
  <2>1. arrs[TheArray].arr_val \in Seq(Good) /\ Len(arrs[TheArray].arr_val) \in Nat
    BY <1>3, LenProperties DEF IInv
  <2>2. Index + 1 \in 1 .. Len(arrs[TheArray].arr_val)
    BY <1>3, <2>1
  <2> QED
    BY <2>1, <2>2, ElementOfSeq
<1>5. pc' \in Int /\ UNCHANGED <<code, constants, status, strs, arrs, locals>>
      /\ Push(arrs[TheArray].arr_val[Index + 1])
  BY <1>2, FollowingInt DEF ArrLoadIdx, Proceed, HeapUnchanged
<1> QED
  BY <1>3, <1>4, <1>5, PushGood

(* An array cell replaced by one with good elements, room, a count of at   *)
(* most 0 and not freed.                                                   *)
LEMMA CellGood ==
  ASSUME IInv, NEW a \in DOMAIN arrs, NEW cell \in ArrayValue,
         arrs' = [arrs EXCEPT ![a] = cell], UNCHANGED strs,
         cell.arr_val \in Seq(Good), cell.ref_count <= 0, ~cell.freed,
         Len(cell.arr_val) < cell.capacity
  PROVE  /\ Good' = Good /\ arrs' \in Seq(ArrayValue) /\ DOMAIN arrs' = DOMAIN arrs
         /\ \A b \in DOMAIN arrs' : arrs'[b].arr_val \in Seq(Good')
         /\ ArraysStayAllocated' /\ RoomToAppend'
<1>1. arrs \in Seq(ArrayValue) /\ a \in 1 .. Len(arrs)
  BY LenProperties DEF IInv
<1>2. arrs' \in Seq(ArrayValue) /\ DOMAIN arrs' = DOMAIN arrs
  BY <1>1, ExceptSeq
<1>3. Good' = Good
  BY <1>2 DEF Good, Pointing, Located
<1>4. \A b \in DOMAIN arrs' : arrs'[b] = cell \/ arrs'[b] = arrs[b]
  BY <1>2
<1>5. \A b \in DOMAIN arrs' : arrs'[b].arr_val \in Seq(Good')
  BY <1>2, <1>3, <1>4 DEF IInv
<1>6. ArraysStayAllocated' /\ RoomToAppend'
  BY <1>2, <1>4 DEF IInv, ArraysStayAllocated, RoomToAppend
<1> QED
  BY <1>2, <1>3, <1>5, <1>6

(* OP_ARRSTOREIDX overwrites an element with a value off the stack.        *)
LEMMA ArrStoreIdxGood ==
  ASSUME IInv, ArrStoreIdx
  PROVE  IInv'
<1> DEFINE old  == arrs[TheArray]
           vals == [old.arr_val EXCEPT ![Index + 1] = Popped(1)]
           cell == [old EXCEPT !.arr_val = vals]
<1>1. At({OP_ARRSTOREIDX})
  BY DEF ArrStoreIdx
<1>2. Op = OP_ARRSTOREIDX /\ pc \in Nat
  BY <1>1, Fetched
<1>3. /\ Arity \in Nat /\ Arity <= Len(stack) /\ TheArray \in DOMAIN arrs
      /\ Index \in 0 .. Len(old.arr_val) - 1 /\ Popped(1) \in Good
  BY <1>1, <1>2, ArrayOperand DEF Indexing
<1>4. /\ old \in ArrayValue /\ old.arr_val \in Seq(Good) /\ Len(old.arr_val) \in Nat
      /\ old.ref_count <= 0 /\ ~old.freed /\ Len(old.arr_val) < old.capacity
  BY <1>3, LenProperties, ElementOfSeq DEF IInv, ArraysStayAllocated, RoomToAppend
<1>5. vals \in Seq(Good) /\ Len(vals) = Len(old.arr_val)
  <2>1. Index + 1 \in 1 .. Len(old.arr_val)
    BY <1>3, <1>4
  <2> HIDE DEF old
  <2> QED
    BY <1>3, <1>4, <2>1, ExceptSeq
<1>6. arrs' = [arrs EXCEPT ![TheArray] = cell]
  BY DEF ArrStoreIdx
<1>7. /\ cell \in ArrayValue /\ cell.arr_val = vals /\ cell.ref_count = old.ref_count
      /\ cell.freed = old.freed /\ cell.capacity = old.capacity
  <2>1. vals \in Seq(StackValue)
    BY <1>5, GoodIsTyped
  <2> HIDE DEF old, vals
  <2> QED
    BY <1>4, <2>1 DEF ArrayValue
<1>8. UNCHANGED <<code, constants, status, strs, locals>> /\ pc' \in Int /\ Replace(<<>>, <<>>)
  BY <1>2, FollowingInt DEF ArrStoreIdx, Proceed
<1>9. /\ Good' = Good /\ arrs' \in Seq(ArrayValue) /\ DOMAIN arrs' = DOMAIN arrs
      /\ \A b \in DOMAIN arrs' : arrs'[b].arr_val \in Seq(Good')
      /\ ArraysStayAllocated' /\ RoomToAppend'
  <2> HIDE DEF cell, old, vals
  <2> QED
    BY <1>3, <1>4, <1>5, <1>6, <1>7, <1>8, CellGood
<1>10. locals' \in Seq(Good') /\ strs' \in Seq(StringValue)
  BY <1>8, <1>9 DEF IInv
<1>11. <<>> \in Seq(Good') /\ Len(<<>>) <= 1 /\ <<>> \in Seq(GoodJob')
  OBVIOUS
<1>12. DOMAIN strs \subseteq DOMAIN strs' /\ DOMAIN arrs \subseteq DOMAIN arrs'
  BY <1>8, <1>9
<1> QED
  BY <1>3, <1>8, <1>9, <1>10, <1>11, <1>12, StepGood

(* OP_ARRAPPEND leaves the array in place and room behind its end.         *)
LEMMA ArrAppendGood ==
  ASSUME IInv, ArrAppend
  PROVE  IInv'
<1> DEFINE old  == arrs[TheArray]
           vals == Append(old.arr_val, Popped(1))
           cell == Grown(old, Popped(1))
<1>1. At({OP_ARRAPPEND})
  BY DEF ArrAppend
<1>2. Op = OP_ARRAPPEND /\ pc \in Nat
  BY <1>1, Fetched
<1>3. /\ Arity \in Nat /\ Arity <= Len(stack) /\ TheArray \in DOMAIN arrs
      /\ Popped(1) \in Good /\ Popped(2) \in Good
  BY <1>1, <1>2, ArrayOperand
<1>4. /\ old \in ArrayValue /\ old.arr_val \in Seq(Good) /\ Len(old.arr_val) \in Nat
      /\ old.ref_count <= 0 /\ ~old.freed /\ Len(old.arr_val) < old.capacity
  BY <1>3, LenProperties, ElementOfSeq DEF IInv, ArraysStayAllocated, RoomToAppend
<1>5. vals \in Seq(Good) /\ Len(vals) = Len(old.arr_val) + 1
  <2> HIDE DEF old
  <2> QED
    BY <1>3, <1>4, AppendProperties
<1>6. arrs' = [arrs EXCEPT ![TheArray] = cell]
  BY DEF ArrAppend
<1>7. /\ cell \in ArrayValue /\ cell.arr_val = vals /\ cell.ref_count = old.ref_count
      /\ cell.freed = old.freed /\ Len(vals) < cell.capacity
  <2>1. vals \in Seq(StackValue)
    BY <1>5, GoodIsTyped
  <2>2. cell = [old EXCEPT !.arr_val = vals,
                           !.capacity = IF Len(old.arr_val) + 1 >= old.capacity
                                        THEN 2 * old.capacity ELSE old.capacity]
    <3>1. DOMAIN old = {"arr_val", "capacity", "ref_count", "freed"}
      BY <1>4 DEF ArrayValue
    <3> HIDE DEF old
    <3> QED
      BY <3>1 DEF Grown
  <2> DEFINE cap == IF Len(old.arr_val) + 1 >= old.capacity
                    THEN 2 * old.capacity ELSE old.capacity
  <2>3. cap \in Nat \ {0} /\ Len(vals) < cap
    <3>1. old.capacity \in Nat \ {0}
      <4> HIDE DEF old
      <4> QED
        BY <1>4 DEF ArrayValue
    <3> HIDE DEF old, vals
    <3> QED
      BY <1>4, <1>5, <3>1
  <2>4. cell = [old EXCEPT !.arr_val = vals, !.capacity = cap]
    BY <2>2
  <2> HIDE DEF old, vals, cell, cap
  <2> QED
    BY <1>4, <2>1, <2>3, <2>4 DEF ArrayValue
<1>8. UNCHANGED <<code, constants, status, strs, locals>> /\ pc' \in Int
      /\ Replace(<<Popped(2)>>, <<>>)
  BY <1>2, FollowingInt DEF ArrAppend, Proceed, Push
<1>9. /\ Good' = Good /\ arrs' \in Seq(ArrayValue) /\ DOMAIN arrs' = DOMAIN arrs
      /\ \A b \in DOMAIN arrs' : arrs'[b].arr_val \in Seq(Good')
      /\ ArraysStayAllocated' /\ RoomToAppend'
  <2> HIDE DEF cell, old, vals
  <2> QED
    BY <1>3, <1>4, <1>5, <1>6, <1>7, <1>8, CellGood
<1>10. locals' \in Seq(Good') /\ strs' \in Seq(StringValue)
  BY <1>8, <1>9 DEF IInv
<1>11. <<Popped(2)>> \in Seq(Good') /\ Len(<<Popped(2)>>) <= 1 /\ <<>> \in Seq(GoodJob')
  BY <1>3, <1>9
<1>12. DOMAIN strs \subseteq DOMAIN strs' /\ DOMAIN arrs \subseteq DOMAIN arrs'
  BY <1>8, <1>9
<1> QED
  BY <1>3, <1>8, <1>9, <1>10, <1>11, <1>12, StepGood

(* OP_PUSH_ARRAY moves values off the stack into a new array.              *)
LEMMA PushArrayGood ==
  ASSUME IInv, PushArray
  PROVE  IInv'
<1> DEFINE elems == SubSeq(stack, Len(stack) - Operand + 1, Len(stack))
           type  == IF Operand > 0 THEN ArrayOf(Popped(Operand).type) ELSE unknown_type
           cell  == NewArray(elems)
           v     == ArrayRef(type, Len(arrs) + 1)
<1>1. At({OP_PUSH_ARRAY})
  BY DEF PushArray
<1>2. Op = OP_PUSH_ARRAY /\ Op \in Opcodes /\ pc \in Nat /\ ~(Len(stack) < Arity)
      /\ pc + OperandBytes(Op) < Len(code)
  BY <1>1, Fetched
<1>3. Operand \in Nat
  BY <1>2, OperandType DEF WithOperand
<1>4. Arity = Operand
  BY <1>2, <1>3, ArityOf
<1>5. /\ Arity \in Nat /\ Arity <= Len(stack)
      /\ \A i \in 1 .. Operand : Popped(i) \in Good
  BY <1>2, <1>3, <1>4, Operands
<1>6. stack \in Seq(Good) /\ Len(stack) \in Nat /\ arrs \in Seq(ArrayValue)
      /\ Len(arrs) \in Nat /\ DOMAIN arrs = 1 .. Len(arrs)
  BY LenProperties DEF IInv
<1>7. elems \in Seq(Good) /\ Len(elems) = Operand
  BY <1>3, <1>4, <1>5, <1>6, SubSeqProperties
<1>8. arrs' = Append(arrs, cell)
  BY DEF PushArray
<1>9. /\ cell \in ArrayValue /\ cell.arr_val = elems /\ cell.ref_count = 0 /\ ~cell.freed
      /\ Len(elems) < cell.capacity
  <2>1. elems \in Seq(StackValue)
    BY <1>7, GoodIsTyped
  <2>2. LET c == ((Len(elems) \div ARRAY_CHUNK) + 1) * ARRAY_CHUNK
        IN c \in Int /\ Len(elems) < c
    BY <1>3, <1>7, ChunkRoom
  <2> DEFINE c == ((Len(elems) \div ARRAY_CHUNK) + 1) * ARRAY_CHUNK
  <2>3. cell = [arr_val |-> elems, capacity |-> c, ref_count |-> 0, freed |-> FALSE]
    BY DEF NewArray
  <2>4. c \in Int /\ Len(elems) < c
    BY <2>2
  <2> HIDE DEF elems, c, cell
  <2> QED
    BY <2>1, <2>3, <2>4 DEF ArrayValue
<1> HIDE DEF elems, cell
<1>10. /\ arrs' \in Seq(ArrayValue) /\ DOMAIN arrs' = 1 .. Len(arrs) + 1
       /\ \A a \in DOMAIN arrs' : arrs'[a] = cell \/ (a \in DOMAIN arrs /\ arrs'[a] = arrs[a])
  BY <1>6, <1>8, <1>9, AppendProperties
<1>11. UNCHANGED <<code, constants, status, strs, locals>> /\ pc' \in Int /\ Replace(<<v>>, <<>>)
  BY <1>2, FollowingInt DEF PushArray, Proceed, Push, elems
<1>12. DOMAIN strs \subseteq DOMAIN strs' /\ DOMAIN arrs \subseteq DOMAIN arrs'
  BY <1>6, <1>10, <1>11
<1>13. Seq(Good) \subseteq Seq(Good')
  BY <1>12, GoodGrows
<1>14. type \in VarType /\ (type.nested >= 0 \/ type = unknown_type)
  <2>1. CASE Operand > 0
    <3>1. Popped(Operand) \in Good
      BY <1>3, <1>5, <2>1
    <3> QED
      BY <2>1, <3>1 DEF Good, Pointing, Located, StackValue, VarType, ArrayOf
  <2>2. CASE ~(Operand > 0)
    BY <2>2 DEF unknown_type, Scalar, VarType, BaseType
  <2> QED
    BY <2>1, <2>2
<1>15. v \in Good'
  <2>1. Len(arrs) + 1 \in DOMAIN arrs'
    BY <1>6, <1>10
  <2>2. v \in StackValue
    BY <1>6, <1>14 DEF ArrayRef, StackValue, Member
  <2> HIDE DEF type
  <2>3. Located(v, strs', arrs')
    BY <1>14, <2>1 DEF Located, ArrayRef, IsString, IsArray, unknown_type, Scalar, VarType
  <2> QED
    BY <2>2, <2>3 DEF Good, Pointing
<1>16. <<v>> \in Seq(Good') /\ Len(<<v>>) <= 1 /\ <<>> \in Seq(GoodJob')
  <2> HIDE DEF v
  <2> QED
    BY <1>15
<1>17. locals' \in Seq(Good') /\ strs' \in Seq(StringValue)
  BY <1>11, <1>13 DEF IInv
<1>18. \A a \in DOMAIN arrs' : arrs'[a].arr_val \in Seq(Good')
  BY <1>7, <1>9, <1>10, <1>13 DEF IInv
<1>19. ArraysStayAllocated' /\ RoomToAppend'
  <2>1. \A a \in DOMAIN arrs' : arrs'[a].ref_count <= 0 /\ ~arrs'[a].freed
    <3> TAKE a \in DOMAIN arrs'
    <3>1. CASE arrs'[a] = cell
      BY <1>9, <3>1
    <3>2. CASE a \in DOMAIN arrs /\ arrs'[a] = arrs[a]
      BY <3>2 DEF IInv, ArraysStayAllocated
    <3> QED
      BY <1>10, <3>1, <3>2
  <2>2. \A a \in DOMAIN arrs' : Len(arrs'[a].arr_val) < arrs'[a].capacity
    <3> TAKE a \in DOMAIN arrs'
    <3>1. CASE arrs'[a] = cell
      BY <1>9, <3>1
    <3>2. CASE a \in DOMAIN arrs /\ arrs'[a] = arrs[a]
      BY <3>2 DEF IInv, RoomToAppend
    <3> QED
      BY <1>10, <3>1, <3>2
  <2> QED
    BY <2>1, <2>2 DEF ArraysStayAllocated, RoomToAppend
<1> QED
  <2> HIDE DEF v
  <2> QED
    BY <1>5, <1>10, <1>11, <1>12, <1>16, <1>17, <1>18, <1>19, StepGood

(* OP_SCONCAT allocates a string and points to it.                         *)
LEMMA ConcatGood ==
  ASSUME IInv, Concat
  PROVE  IInv'
<1> DEFINE cell == [text |-> strs[Lhs].text \o strs[Rhs].text, ref_count |-> 1, freed |-> FALSE]
           v    == StringRef(Len(strs) + 1)
           jobs == Work("drop", <<Popped(2), Popped(1)>>)
<1>1. At({OP_SCONCAT})
  BY DEF Concat
<1>2. Op = OP_SCONCAT /\ Op \in Opcodes /\ pc \in Nat /\ ~(Len(stack) < Arity) /\ MembersMatch
  BY <1>1, Fetched, NoFault
<1>3. Arity = 2 /\ Needs(Op) = <<"string_val", "string_val">>
  BY <1>2, ArityOf
<1>4. /\ Arity \in Nat /\ Arity <= Len(stack) /\ Popped(1) \in Good /\ Popped(2) \in Good
  BY <1>2, <1>3, Operands
<1>5. Lhs \in DOMAIN strs /\ Rhs \in DOMAIN strs
  <2>1. Popped(1).member = "string_val" /\ Popped(2).member = "string_val"
    BY <1>2, <1>3 DEF MembersMatch
  <2> QED
    BY <1>4, <2>1 DEF Good, Pointing, Located, Lhs, Rhs
<1>6. strs \in Seq(StringValue) /\ Len(strs) \in Nat /\ DOMAIN strs = 1 .. Len(strs)
  BY LenProperties DEF IInv
<1>7. cell \in StringValue
  <2>1. strs[Lhs].text \in Seq(STRING) /\ strs[Rhs].text \in Seq(STRING)
    <3>1. strs[Lhs] \in StringValue /\ strs[Rhs] \in StringValue
      BY <1>5, <1>6, ElementOfSeq
    <3> QED
      BY <3>1 DEF StringValue
  <2>2. strs[Lhs].text \o strs[Rhs].text \in Seq(STRING)
    BY <2>1, ConcatProperties
  <2> QED
    BY <2>2 DEF StringValue
<1>8. strs' = Append(strs, cell)
  BY DEF Concat
<1> HIDE DEF cell
<1>9. strs' \in Seq(StringValue) /\ DOMAIN strs' = 1 .. Len(strs) + 1
  BY <1>6, <1>7, <1>8, AppendProperties
<1>10. UNCHANGED <<code, constants, status, arrs, locals>> /\ pc' \in Int /\ Replace(<<v>>, jobs)
  BY <1>2, FollowingInt DEF Concat, Proceed
<1>11. DOMAIN strs \subseteq DOMAIN strs' /\ DOMAIN arrs \subseteq DOMAIN arrs'
  BY <1>6, <1>9, <1>10
<1>12. Seq(Good) \subseteq Seq(Good') /\ Seq(GoodJob) \subseteq Seq(GoodJob')
  BY <1>11, GoodGrows
<1>13. v \in Good'
  BY <1>6, <1>9 DEF StringRef, Good, Pointing, Located, StackValue, VarType, BaseType, Member,
                    IsString, IsArray, string_type, Scalar
<1>14. <<v>> \in Seq(Good') /\ Len(<<v>>) <= 1
  <2> HIDE DEF v
  <2> QED
    BY <1>13
<1>15. jobs \in Seq(GoodJob')
  <2>1. <<Popped(2), Popped(1)>> \in Seq(Good)
    BY <1>4
  <2>2. jobs \in Seq(GoodJob)
    BY <2>1, WorkGood DEF GoodJob
  <2> QED
    BY <1>12, <2>2
<1>16. locals' \in Seq(Good') /\ arrs' \in Seq(ArrayValue)
       /\ \A a \in DOMAIN arrs' : arrs'[a].arr_val \in Seq(Good')
  BY <1>10, <1>12 DEF IInv
<1>17. ArraysStayAllocated' /\ RoomToAppend'
  BY <1>10 DEF IInv, ArraysStayAllocated, RoomToAppend
<1> QED
  <2> HIDE DEF v, jobs
  <2> QED
    BY <1>4, <1>9, <1>10, <1>11, <1>14, <1>15, <1>16, <1>17, StepGood

-----------------------------------------------------------------------------
(* The reference counting steps.                                           *)

(* What counting down changes.                                             *)
LEMMA DroppedFields ==
  ASSUME NEW cell
  PROVE  \E f \in BOOLEAN :
           Dropped(cell) = [cell EXCEPT !.ref_count = cell.ref_count - 1, !.freed = f]
BY Zenon DEF Dropped

(* Counted down from anything but 1 a cell stays allocated.                *)
LEMMA DroppedAlive ==
  ASSUME NEW cell, cell.ref_count # 1
  PROVE  Dropped(cell) = [cell EXCEPT !.ref_count = cell.ref_count - 1, !.freed = FALSE]
<1>1. (cell.ref_count = 1) = FALSE
  OBVIOUS
<1> QED
  BY <1>1, Zenon DEF Dropped

(* A cell with another count and another mark is a cell.                   *)
LEMMA StringCell ==
  ASSUME NEW cell \in StringValue, NEW n \in Int, NEW f \in BOOLEAN
  PROVE  [cell EXCEPT !.ref_count = n, !.freed = f] \in StringValue
BY DEF StringValue

(* Counting up or down leaves an array's elements and capacity alone.      *)
LEMMA ArrayCell ==
  ASSUME NEW cell \in ArrayValue, NEW n \in Int
  PROVE  LET d == [cell EXCEPT !.ref_count = n, !.freed = FALSE]
         IN  d \in ArrayValue /\ d.arr_val = cell.arr_val /\ d.ref_count = n /\ d.freed = FALSE
             /\ d.capacity = cell.capacity
BY DEF ArrayValue

(* The value to visit, and the queue behind it.                            *)
LEMMA QueueGood ==
  ASSUME IInv, todo # <<>>
  PROVE  /\ Subject \in Good /\ Act \in {"take", "drop"}
         /\ Tail(Head(todo).vals) \in Seq(Good) /\ Tail(todo) \in Seq(GoodJob)
<1>1. Head(todo) \in GoodJob /\ Tail(todo) \in Seq(GoodJob)
  BY HeadTailProperties DEF IInv
<1>2. Head(todo).vals \in Seq(Good) /\ Head(todo).vals # <<>> /\ Act \in {"take", "drop"}
  BY <1>1 DEF GoodJob, Act
<1>3. Subject \in Good /\ Tail(Head(todo).vals) \in Seq(Good)
  BY <1>2, HeadTailProperties DEF Subject
<1> QED
  BY <1>1, <1>2, <1>3

(* The invariant after a step that counts one value and queues elems.      *)
LEMMA FinishGood ==
  ASSUME IInv, todo # <<>>, Good' = Good,
         NEW act \in {"take", "drop"}, NEW elems \in Seq(Good), Finish(act, elems),
         strs' \in Seq(StringValue), arrs' \in Seq(ArrayValue),
         \A a \in DOMAIN arrs' : arrs'[a].arr_val \in Seq(Good'),
         ArraysStayAllocated', RoomToAppend'
  PROVE  IInv'
<1>1. /\ Work(act, elems) \in Seq(GoodJob) /\ Tail(todo) \in Seq(GoodJob)
      /\ Work(Act, Tail(Head(todo).vals)) \in Seq(GoodJob)
  BY QueueGood, WorkGood DEF GoodJob
<1>2. todo' \in Seq(GoodJob)
  <2>1. Work(act, elems) \o Work(Act, Tail(Head(todo).vals)) \in Seq(GoodJob)
    BY <1>1, ConcatProperties
  <2> QED
    BY <1>1, <2>1, ConcatProperties DEF Finish
<1>3. GoodJob' = GoodJob
  BY DEF GoodJob
<1>4. /\ UNCHANGED <<code, constants, pc, stack, stack_capacity, locals, status>>
      /\ StackFits'
  BY DEF Finish, IInv, StackFits
<1> QED
  BY <1>2, <1>3, <1>4 DEF IInv

(* A step that only changes the status.                                    *)
LEMMA HaltGood ==
  ASSUME IInv, status' \in Status,
         UNCHANGED <<code, constants, pc, stack, stack_capacity, locals, strs, arrs, todo>>
  PROVE  IInv'
<1>1. Good' = Good
  BY DEF Good, Pointing, Located
<1>2. GoodJob' = GoodJob
  BY <1>1 DEF GoodJob
<1>3. ArraysStayAllocated' /\ RoomToAppend' /\ StackFits'
  BY DEF IInv, ArraysStayAllocated, RoomToAppend, StackFits
<1> QED
  BY <1>1, <1>2, <1>3 DEF IInv

(* One step of reference counting.                                         *)
LEMMA CountGood ==
  ASSUME IInv, Count
  PROVE  IInv'
<1> USE DEF Counting, HeapUnchanged
<1>1. CASE Skip
  <2>1. UNCHANGED <<strs, arrs>> /\ todo # <<>> /\ Finish(Act, <<>>)
    BY <1>1 DEF Skip
  <2>2. Good' = Good
    BY <2>1 DEF Good, Pointing, Located
  <2>3. /\ strs' \in Seq(StringValue) /\ arrs' \in Seq(ArrayValue)
        /\ \A a \in DOMAIN arrs' : arrs'[a].arr_val \in Seq(Good')
        /\ ArraysStayAllocated' /\ RoomToAppend'
    BY <2>1, <2>2 DEF IInv, ArraysStayAllocated, RoomToAppend
  <2>4. <<>> \in Seq(Good)
    OBVIOUS
  <2> QED
    BY <2>1, <2>2, <2>3, <2>4, QueueGood, FinishGood
<1>2. CASE increment_ref \/ decrement_ref
  <2>1. /\ UNCHANGED arrs /\ todo # <<>> /\ Finish(Act, <<>>) /\ IsString(Subject)
        /\ \/ strs' = [strs EXCEPT ![Subject.val].ref_count = @ + 1]
           \/ strs' = [strs EXCEPT ![Subject.val] = Dropped(@)]
    BY <1>2 DEF increment_ref, decrement_ref
  <2>2. Subject \in Good
    BY <2>1, QueueGood
  <2>3. strs \in Seq(StringValue) /\ Subject.val \in 1 .. Len(strs)
    BY <2>1, <2>2, LenProperties DEF IInv, Good, Pointing, Located
  <2>4. strs[Subject.val] \in StringValue
    BY <2>3, ElementOfSeq
  <2>5. /\ [strs[Subject.val] EXCEPT !.ref_count = strs[Subject.val].ref_count + 1] \in StringValue
        /\ Dropped(strs[Subject.val]) \in StringValue
    <3> DEFINE c == strs[Subject.val]
    <3> HIDE DEF c
    <3>1. c \in StringValue
      BY <2>4 DEF c
    <3>2. c.ref_count \in Int /\ c.text \in Seq(STRING)
      BY <3>1 DEF StringValue
    <3>3. [c EXCEPT !.ref_count = c.ref_count + 1] \in StringValue
      BY <3>1, <3>2 DEF StringValue
    <3>4. Dropped(c) \in StringValue
      <4>1. PICK f \in BOOLEAN : Dropped(c) = [c EXCEPT !.ref_count = c.ref_count - 1, !.freed = f]
        BY DroppedFields
      <4>2. c.ref_count - 1 \in Int
        BY <3>2
      <4>3. [c EXCEPT !.ref_count = c.ref_count - 1, !.freed = f] \in StringValue
        BY <3>1, <4>2, StringCell
      <4> QED
        BY <4>1, <4>3, Zenon
    <3> QED
      BY <3>3, <3>4 DEF c
  <2>6. strs' \in Seq(StringValue) /\ DOMAIN strs' = DOMAIN strs
    BY <2>1, <2>3, <2>5, ExceptSeq
  <2>7. Good' = Good
    BY <2>1, <2>6 DEF Good, Pointing, Located
  <2>8. /\ arrs' \in Seq(ArrayValue) /\ \A a \in DOMAIN arrs' : arrs'[a].arr_val \in Seq(Good')
        /\ ArraysStayAllocated' /\ RoomToAppend'
    BY <2>1, <2>7 DEF IInv, ArraysStayAllocated, RoomToAppend
  <2>9. <<>> \in Seq(Good)
    OBVIOUS
  <2> QED
    BY <2>1, <2>6, <2>7, <2>8, <2>9, QueueGood, FinishGood
<1>3. CASE increment_ref_arr \/ decrement_ref_arr
  <2> DEFINE a   == Subject.val
             old == arrs[a]
             up  == [old EXCEPT !.ref_count = IF old.ref_count # 0 THEN old.ref_count + 1
                                                                  ELSE old.ref_count]
  <2>1. todo # <<>> /\ IsArray(Subject) /\ UNCHANGED strs
    BY <1>3 DEF increment_ref_arr, decrement_ref_arr
  <2>2. Subject \in Good
    BY <2>1, QueueGood
  <2>3. a \in DOMAIN arrs
    BY <2>1, <2>2 DEF Good, Pointing, Located
  <2>4. /\ old \in ArrayValue /\ old.arr_val \in Seq(Good) /\ old.ref_count <= 0
        /\ ~old.freed /\ Len(old.arr_val) < old.capacity
    BY <2>3, LenProperties, ElementOfSeq DEF IInv, ArraysStayAllocated, RoomToAppend
  <2>5. old.ref_count \in Int
    <3> HIDE DEF old
    <3> QED
      BY <2>4 DEF ArrayValue
  <2>6. \/ arrs' = [arrs EXCEPT ![a] = up] /\ Finish("take", old.arr_val)
        \/ arrs' = [arrs EXCEPT ![a] = Dropped(old)]
           /\ Finish("drop", IF old.ref_count = 1 THEN old.arr_val ELSE <<>>)
    BY <1>3 DEF increment_ref_arr, decrement_ref_arr
  <2>7. /\ up \in ArrayValue /\ up.arr_val = old.arr_val /\ up.ref_count <= 0 /\ ~up.freed
        /\ up.capacity = old.capacity
    <3> HIDE DEF old
    <3> QED
      BY <2>4, <2>5 DEF ArrayValue
  <2>8. /\ Dropped(old) \in ArrayValue /\ Dropped(old).arr_val = old.arr_val
        /\ Dropped(old).ref_count <= 0 /\ ~Dropped(old).freed
        /\ Dropped(old).capacity = old.capacity
    <3> HIDE DEF old
    <3>1. old.ref_count # 1 /\ old.ref_count - 1 <= 0
      BY <2>4, <2>5
    <3>2. Dropped(old) = [old EXCEPT !.ref_count = old.ref_count - 1, !.freed = FALSE]
      BY <3>1, DroppedAlive
    <3> DEFINE n == old.ref_count - 1
               d == [old EXCEPT !.ref_count = n, !.freed = FALSE]
    <3>3. n \in Int /\ n <= 0
      BY <2>5, <3>1
    <3>4. Dropped(old) = d
      BY <3>2
    <3> HIDE DEF n
    <3>5. /\ d \in ArrayValue /\ d.arr_val = old.arr_val /\ d.ref_count = n
          /\ d.freed = FALSE /\ d.capacity = old.capacity
      BY <2>4, <3>3, ArrayCell
    <3> HIDE DEF d
    <3> QED
      BY <3>3, <3>4, <3>5
  <2>9. PICK cell \in ArrayValue :
          /\ arrs' = [arrs EXCEPT ![a] = cell] /\ cell.arr_val = old.arr_val
          /\ cell.ref_count <= 0 /\ ~cell.freed /\ cell.capacity = old.capacity
    <3> HIDE DEF old, up
    <3> QED
      BY <2>6, <2>7, <2>8
  <2>10. /\ Good' = Good /\ arrs' \in Seq(ArrayValue)
         /\ \A b \in DOMAIN arrs' : arrs'[b].arr_val \in Seq(Good')
         /\ ArraysStayAllocated' /\ RoomToAppend'
    <3> HIDE DEF old, a
    <3> QED
      BY <2>1, <2>3, <2>4, <2>9, CellGood
  <2>11. PICK act \in {"take", "drop"}, elems \in Seq(Good) : Finish(act, elems)
    <3>1. <<>> \in Seq(Good)
      OBVIOUS
    <3> HIDE DEF old, up
    <3> QED
      BY <2>4, <2>6, <3>1
  <2>12. strs' \in Seq(StringValue)
    BY <2>1 DEF IInv
  <2> QED
    BY <2>1, <2>10, <2>11, <2>12, FinishGood
<1>4. CASE Dangle
  <2>1. UNCHANGED <<code, constants, pc, stack, stack_capacity, locals, strs, arrs, todo>>
        /\ status' \in Status
    BY <1>4 DEF Dangle, Status, Undefined
  <2> QED
    BY <2>1, HaltGood
<1> QED
  BY <1>1, <1>2, <1>3, <1>4 DEF Count

-----------------------------------------------------------------------------
(* Starting and leaving the machine.                                       *)

(* What keeps an instruction from completing is a status.                  *)
LEMMA ObstaclesStop == Obstacles \subseteq Status \ {"idle"}
<1>1. Faults \subseteq Status \ {"idle"}
  BY DEF Faults, Status, RuntimeError, Undefined
<1>2. {c \in Faults : Fault(c)} \subseteq Faults
  OBVIOUS
<1>3. {"bad fetch", "unknown opcode", "invalid slot", "stack underflow"} \subseteq Status \ {"idle"}
  BY DEF Status, RuntimeError, Undefined
<1>4. \/ Obstacles \subseteq {"bad fetch", "unknown opcode", "invalid slot", "stack underflow"}
      \/ Obstacles = {c \in Faults : Fault(c)}
  BY Zenon DEF Obstacles
<1> QED
  BY <1>1, <1>2, <1>3, <1>4, Zenon

(* Before vm_init the machine holds nothing.                               *)
Fresh == status = "idle" => stack = <<>> /\ arrs = <<>> /\ todo = <<>>

(* The machine before vm_init.                                             *)
LEMMA InitGood ==
  ASSUME Init
  PROVE  IInv /\ Fresh
<1>1. stack_capacity \in Nat \ {0}
  BY StackInitAssumption DEF Init
<1>2. status \in Status
  BY DEF Init, Status
<1>3. ArraysStayAllocated /\ RoomToAppend
  BY DEF Init, ArraysStayAllocated, RoomToAppend
<1>4. StackFits
  BY <1>1 DEF Init, StackFits
<1> QED
  BY <1>1, <1>2, <1>3, <1>4 DEF Init, IInv, Fresh

(* Nothing returns to the state before vm_init.                            *)
LEMMA FreshGood ==
  ASSUME Fresh, Next
  PROVE  Fresh'
<1>1. CASE \E img \in Images : vm_init(img)
  BY <1>1 DEF vm_init, Fresh
<1>2. CASE Instruction
  BY <1>2 DEF Instruction, PushConst, PushBool, PushArray, IntOp, Compare, Negate, Not,
              CompoundStore, Load, Store, Jump, Concat, ArrLoadIdx, ArrStoreIdx, ArrAppend,
              At, Ready, Proceed, Fresh
<1>3. CASE Count
  <2>1. Counting /\ (status' = status \/ status' \in {"dangling string", "dangling array"})
    BY <1>3, Zenon DEF Count, Skip, increment_ref, decrement_ref, increment_ref_arr,
                       decrement_ref_arr, Dangle, Finish
  <2> QED
    BY <2>1 DEF Counting, Fresh
<1>4. CASE Abort
  BY <1>4, ObstaclesStop DEF Abort, Fresh
<1>5. CASE Halt \/ vm_free
  BY <1>5 DEF Halt, vm_free, Fresh
<1> QED
  BY <1>1, <1>2, <1>3, <1>4, <1>5 DEF Next

(* vm_init: what the images are assumed to be is what it needs.            *)
LEMMA StartGood ==
  ASSUME IInv, Fresh, NEW img \in Images, vm_init(img)
  PROVE  IInv'
<1>1. /\ stack' = <<>> /\ arrs' = <<>> /\ todo' = <<>> /\ status' = "running"
      /\ pc' = pc /\ stack_capacity' = stack_capacity
      /\ code' = img.code /\ constants' = img.constants /\ strs' = img.strs
      /\ locals' = [i \in 1 .. img.num_locals |-> Garbage]
  BY DEF vm_init, Fresh
<1>2. img \in Image /\ img.constants \in Seq(Pointing(img.strs, <<>>))
  BY ImagesAssumption
<1>3. code' \in Seq(Nat) /\ strs' \in Seq(StringValue) /\ img.num_locals \in Nat
  BY <1>1, <1>2 DEF Image
<1>4. Good' = Pointing(img.strs, <<>>)
  BY <1>1 DEF Good
<1>5. constants' \in Seq(Good')
  BY <1>1, <1>2, <1>4
<1>6. Garbage \in Good'
  BY DEF Garbage, Good, Pointing, Located, StackValue, VarType, BaseType, Member, IsString,
         IsArray, unknown_type, Scalar
<1>7. locals' \in Seq(Good')
  BY <1>1, <1>3, <1>6
<1>8. status' \in Status
  BY <1>1 DEF Status
<1>9. ArraysStayAllocated' /\ RoomToAppend'
  BY <1>1 DEF ArraysStayAllocated, RoomToAppend
<1>10. StackFits'
  BY <1>1 DEF IInv, StackFits
<1>11. stack' \in Seq(Good') /\ arrs' \in Seq(ArrayValue) /\ todo' \in Seq(GoodJob')
       /\ \A a \in DOMAIN arrs' : arrs'[a].arr_val \in Seq(Good')
  BY <1>1
<1> QED
  BY <1>1, <1>3, <1>5, <1>7, <1>8, <1>9, <1>10, <1>11 DEF IInv

(* A function on the indices of a sequence is a sequence.                  *)
LEMMA SeqOfFunction ==
  ASSUME NEW S, NEW n \in Nat, NEW f, f = [i \in 1 .. n |-> f[i]],
         \A i \in 1 .. n : f[i] \in S
  PROVE  f \in Seq(S)
OBVIOUS

(* vm_free only marks strings as freed.                                    *)
LEMMA FreeGood ==
  ASSUME IInv, vm_free
  PROVE  IInv'
<1>1. UNCHANGED <<code, constants, pc, stack, stack_capacity, locals, arrs, todo>>
  BY Zenon DEF vm_free
<1>2. status' \in Status
  BY Zenon DEF vm_free, Status
<1>3. strs \in Seq(StringValue) /\ Len(strs) \in Nat /\ DOMAIN strs = 1 .. Len(strs)
  BY LenProperties DEF IInv
<1>4. \A s \in DOMAIN strs : strs[s] \in StringValue /\ [strs[s] EXCEPT !.freed = TRUE] \in StringValue
  <2> SUFFICES ASSUME NEW s \in DOMAIN strs
               PROVE  strs[s] \in StringValue /\ [strs[s] EXCEPT !.freed = TRUE] \in StringValue
    OBVIOUS
  <2> DEFINE cell == strs[s]
  <2>1. cell \in StringValue
    BY <1>3, ElementOfSeq
  <2> HIDE DEF cell
  <2>2. [cell EXCEPT !.freed = TRUE] \in StringValue
    BY <2>1 DEF StringValue
  <2> QED
    BY <2>1, <2>2 DEF cell
<1>5. /\ DOMAIN strs' = 1 .. Len(strs) /\ strs' = [s \in 1 .. Len(strs) |-> strs'[s]]
      /\ \A s \in 1 .. Len(strs) : strs'[s] \in StringValue
  <2>1. strs' = [s \in 1 .. Len(strs) |->
                   IF OnStack(s) THEN [strs[s] EXCEPT !.freed = TRUE] ELSE strs[s]]
    BY <1>3, Zenon DEF vm_free
  <2>2. \A s \in 1 .. Len(strs) :
          (IF OnStack(s) THEN [strs[s] EXCEPT !.freed = TRUE] ELSE strs[s]) \in StringValue
    BY <1>3, <1>4, Zenon
  <2> QED
    BY <2>1, <2>2, Zenon
<1>6. strs' \in Seq(StringValue) /\ DOMAIN strs' = DOMAIN strs
  BY <1>3, <1>5, SeqOfFunction
<1>7. Good' = Good
  BY <1>1, <1>6 DEF Good, Pointing, Located
<1>8. GoodJob' = GoodJob
  BY <1>7 DEF GoodJob
<1>9. ArraysStayAllocated' /\ RoomToAppend' /\ StackFits'
  BY <1>1 DEF IInv, ArraysStayAllocated, RoomToAppend, StackFits
<1> QED
  BY <1>1, <1>2, <1>6, <1>7, <1>8, <1>9 DEF IInv

-----------------------------------------------------------------------------
(* Every step keeps the invariant.                                         *)

(* No step of the machine leaves the inductive invariant.                  *)
LEMMA StepKeepsIInv ==
  ASSUME IInv, Fresh, [Next]_vars
  PROVE  IInv'
<1>1. CASE \E img \in Images : vm_init(img)
  BY <1>1, StartGood
<1>2. CASE Instruction
  <2>1. CASE PushConst \/ PushBool \/ Load
    BY <2>1, PushesGood
  <2>2. CASE IntOp \/ Compare \/ Negate \/ Not
    BY <2>2, ComputesGood
  <2>3. CASE CompoundStore \/ Store \/ Jump
    BY <2>3, StoresGood
  <2>4. CASE PushArray
    BY <2>4, PushArrayGood
  <2>5. CASE Concat
    BY <2>5, ConcatGood
  <2>6. CASE ArrLoadIdx
    BY <2>6, ArrLoadIdxGood
  <2>7. CASE ArrStoreIdx
    BY <2>7, ArrStoreIdxGood
  <2>8. CASE ArrAppend
    BY <2>8, ArrAppendGood
  <2> QED
    BY <1>2, <2>1, <2>2, <2>3, <2>4, <2>5, <2>6, <2>7, <2>8 DEF Instruction
<1>3. CASE Count
  BY <1>3, CountGood
<1>4. CASE Abort
  <2>1. status' \in Status
    BY <1>4, ObstaclesStop DEF Abort
  <2> QED
    BY <1>4, <2>1, HaltGood DEF Abort
<1>5. CASE Halt
  <2>1. status' \in Status
    BY <1>5 DEF Halt, Status
  <2> QED
    BY <1>5, <2>1, HaltGood DEF Halt
<1>6. CASE vm_free
  BY <1>6, FreeGood
<1>7. CASE UNCHANGED vars
  <2>1. status' \in Status
    BY <1>7 DEF vars, IInv
  <2> QED
    BY <1>7, <2>1, HaltGood DEF vars
<1> QED
  BY <1>1, <1>2, <1>3, <1>4, <1>5, <1>6, <1>7 DEF Next

(* Everything the machine holds between vm_init and vm_free is typed, can  *)
(* be followed and has room (IInv), and before vm_init its heap is empty   *)
(* (Fresh): the invariant every theorem below follows from.                *)
THEOREM Inductive == Spec => [](IInv /\ Fresh)
<1>1. Init => IInv /\ Fresh
  BY InitGood
<1>2. IInv /\ Fresh /\ [Next]_vars => (IInv /\ Fresh)'
  <2> SUFFICES ASSUME IInv, Fresh, [Next]_vars PROVE IInv' /\ Fresh'
    OBVIOUS
  <2>1. CASE Next
    BY <2>1, StepKeepsIInv, FreshGood
  <2>2. CASE UNCHANGED vars
    BY <2>2, StepKeepsIInv DEF vars, Fresh
  <2> QED
    BY <2>1, <2>2
<1> QED
  BY <1>1, <1>2, PTL DEF Spec

(* Whatever images the emitter hands over and however long they run, every *)
(* variable of the machine (struct VM of vm.h, Stack of stack.h) keeps its *)
(* type.                                                                   *)
THEOREM VMTypeCorrect == Spec => []VMTypeOK
<1>1. IInv => VMTypeOK
  BY GoodIsTyped DEF IInv, VMTypeOK
<1> QED
  BY <1>1, Inductive, PTL

(* stack_push and stack_pop may follow the pointer the type tag announces: *)
(* no instruction of vm_run puts a value on the stack, in a local, in an   *)
(* array or in the counting queue whose tag names a member nobody wrote or *)
(* whose pointer leaves the heap.                                          *)
THEOREM PointersAlwaysLocated == Spec => []PointersLocated
<1>1. IInv => PointersLocated
  <2> SUFFICES ASSUME IInv PROVE PointersLocated
    OBVIOUS
  <2>1. \A j \in DOMAIN todo : todo[j].vals \in Seq(Good)
    <3>1. todo \in Seq(GoodJob) /\ DOMAIN todo = 1 .. Len(todo)
      BY LenProperties DEF IInv
    <3>2. \A j \in DOMAIN todo : todo[j] \in GoodJob
      BY <3>1, ElementOfSeq
    <3> QED
      BY <3>2 DEF GoodJob
  <2> QED
    BY <2>1 DEF IInv, PointersLocated, Good
<1> QED
  BY <1>1, Inductive, PTL

(* decrement_ref_arr never frees: while vm_run runs no array is returned   *)
(* to the allocator, for any bytecode.                                     *)
THEOREM ArraysNeverFreed == Spec => []ArraysStayAllocated
<1>1. IInv => ArraysStayAllocated
  BY DEF IInv
<1> QED
  BY <1>1, Inductive, PTL

(* The capacity OP_PUSH_ARRAY computes and the doubling of OP_ARRAPPEND    *)
(* leave room for the element the next append writes.                      *)
THEOREM AppendInBounds == Spec => []RoomToAppend
<1>1. IInv => RoomToAppend
  BY DEF IInv
<1> QED
  BY <1>1, Inductive, PTL

(* The doubling of stack_push is enough for every instruction: none grows  *)
(* the stack by more than one value.                                       *)
THEOREM PushInBounds == Spec => []StackFits
<1>1. IInv => StackFits
  BY DEF IInv
<1> QED
  BY <1>1, Inductive, PTL
=============================================================================
