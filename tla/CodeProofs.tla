------------------------------ MODULE CodeProofs ------------------------------
(***************************************************************************)
(* Theorems about the machine running the code it is made for: code that   *)
(* decodes, whatever it does otherwise, and typed code.  The runs check    *)
(* that bytecode_gen makes only code that decodes, and of the trees        *)
(* type_check lets through that have no && or || only typed code.          *)
(***************************************************************************)
EXTENDS StackTyping, VMProofs

-----------------------------------------------------------------------------
(* Code that decodes.                                                      *)

(* The machine runs an image of the emitter.                               *)
Loaded(img) ==
  code = img.code /\ constants = img.constants /\ DOMAIN locals = 1 .. img.num_locals

(* That pc is at the start of an instruction is inductive only with what   *)
(* the code is: the image vm_init was handed, its slots included.          *)
DecodingInv ==
  /\ status = "idle" => pc = 0
  /\ status # "idle" => \E img \in Images : Loaded(img)
  /\ JumpsLandOnInstructions
  /\ CodeIsWellFormed

-----------------------------------------------------------------------------
(* What stands at pc while the machine runs code that decodes.             *)
LEMMA DecodedHere ==
  ASSUME IInv, NEW img \in Images, Loaded(img), Decodes(img), pc \in Starts(code), pc < Len(code)
  PROVE  /\ InCode /\ Op \in Opcodes /\ Fetchable /\ Following \in Starts(code)
         /\ Op \in {OP_PUSH, OP_PUSH_STRING} => Operand < Len(constants)
         /\ Op \in Slotted => ValidSlot
         /\ Op \in JumpCodes => Following + Steps \in Starts(code)
<1>1. code = img.code /\ constants = img.constants /\ Len(code) \in Nat
  BY LenProperties DEF Loaded, IInv
<1>2. DecodesAt(img, pc) /\ pc \in 0 .. Len(code)
  BY <1>1 DEF Decodes
<1>3. InCode
  BY <1>2 DEF InCode
<1>4. Op \in Opcodes /\ Following \in Starts(code)
  BY <1>1, <1>2 DEF DecodesAt, Op, Following
<1>5. OperandBytes(Op) \in {0, 2}
  BY DEF OperandBytes
<1>6. Following \in 0 .. Len(code)
  BY <1>1, <1>4 DEF Decodes
<1>7. Fetchable
  BY <1>1, <1>2, <1>3, <1>5, <1>6 DEF Fetchable, Following
<1>8. Op \in {OP_PUSH, OP_PUSH_STRING} => Operand < Len(constants)
  BY <1>1, <1>2 DEF DecodesAt, Op, Operand
<1>9. Op \in Slotted => ValidSlot
  <2>1. img.num_locals \in Nat
    BY ImagesAssumption DEF Image
  <2>2. Len(locals) = img.num_locals
    <3>1. locals \in Seq(Good)
      BY DEF IInv
    <3>2. Len(locals) \in Nat /\ DOMAIN locals = 1 .. Len(locals)
      BY <3>1, LenProperties
    <3> QED
      BY <2>1, <3>2 DEF Loaded
  <2> QED
    BY <1>1, <1>2, <2>2 DEF DecodesAt, Op, Operand, ValidSlot
<1>10. Op \in JumpCodes => Following + Steps \in Starts(code)
  <2>1. Op \in JumpCodes => Following = pc + 3
    BY <1>2 DEF JumpCodes, Following, OperandBytes, WithOperand
  <2> QED
    BY <1>1, <1>2, <2>1 DEF DecodesAt, Op, Steps
<1> QED
  BY <1>3, <1>4, <1>7, <1>8, <1>9, <1>10

(* Where an instruction leaves pc.                                         *)
LEMMA InstructionLands ==
  ASSUME IInv, NEW img \in Images, Loaded(img), Decodes(img), pc \in Starts(code), Instruction
  PROVE  /\ UNCHANGED <<code, constants, status>> /\ DOMAIN locals' = DOMAIN locals
         /\ pc' \in Starts(code)
<1>1. CASE Jump
  <2>1. Ready /\ Op \in JumpCodes /\ UNCHANGED <<code, constants, locals, status>>
        /\ (pc' = Following \/ pc' = Following + Steps)
    BY <1>1, Zenon DEF Jump, At, JumpCodes
  <2> QED
    BY <2>1, DecodedHere DEF Ready
<1>2. CASE Store \/ CompoundStore
  <2>1. Ready /\ Proceed
    BY <1>2 DEF Store, CompoundStore, At
  <2>2. DOMAIN locals' = DOMAIN locals
    BY <1>2 DEF Store, CompoundStore
  <2> QED
    BY <2>1, <2>2, DecodedHere DEF Ready, Proceed
<1>3. CASE PushConst \/ PushBool \/ PushArray \/ IntOp \/ Compare \/ Negate \/ Not \/ Load
             \/ Concat \/ ArrLoadIdx \/ ArrStoreIdx \/ ArrAppend
  <2>1. Ready /\ Proceed /\ locals' = locals
    BY <1>3, Zenon DEF PushConst, PushBool, PushArray, IntOp, Compare, Negate, Not, Load, Concat,
                       ArrLoadIdx, ArrStoreIdx, ArrAppend, At
  <2> QED
    BY <2>1, DecodedHere DEF Ready, Proceed
<1> QED
  BY <1>1, <1>2, <1>3 DEF Instruction

(* Why an instruction that decodes may stop the machine all the same.      *)
LEMMA AbortReasons ==
  ASSUME IInv, NEW img \in Images, Loaded(img), Decodes(img), pc \in Starts(code),
         pc < Len(code)
  PROVE  Obstacles \subseteq {"stack underflow"} \cup (Faults \ {"no such constant"})
<1>1. /\ InCode /\ Op \in Opcodes /\ Fetchable
      /\ Op \in {OP_PUSH, OP_PUSH_STRING} => Operand < Len(constants)
      /\ Op \in Slotted => ValidSlot
  BY DecodedHere
<1>2. Op \in Stores => ValidSlot
  BY <1>1 DEF Slotted
<1>3. Obstacles = IF Len(stack) < Arity THEN {"stack underflow"} ELSE {c \in Faults : Fault(c)}
  BY <1>1, <1>2, Zenon DEF Obstacles
<1>4. ~Fault("no such constant")
  <2>1. Op \in {OP_PUSH, OP_PUSH_STRING} => Operand \in Nat
    <3>1. pc \in Nat /\ pc + OperandBytes(Op) < Len(code)
      BY <1>1 DEF InCode, Fetchable, IInv
    <3>2. Op \in {OP_PUSH, OP_PUSH_STRING} => Op \in WithOperand
      BY DEF WithOperand
    <3> QED
      BY <3>1, <3>2, OperandType
  <2>2. Len(constants) \in Nat
    BY LenProperties DEF IInv
  <2> QED
    BY <1>1, <2>1, <2>2 DEF Fault
<1> QED
  BY <1>3, <1>4, Zenon

-----------------------------------------------------------------------------
LEMMA StepKeepsDecodingInv ==
  ASSUME \A img \in Images : Decodes(img), IInv, Fresh, DecodingInv, [Next]_vars
  PROVE  DecodingInv'
<1> USE DEF JumpsLandOnInstructions, CodeIsWellFormed
<1>1. CASE \E img \in Images : vm_init(img)
  <2>1. PICK img \in Images : vm_init(img)
    BY <1>1
  <2>2. img.num_locals \in Nat
    BY ImagesAssumption DEF Image
  <2>3. /\ code' = img.code /\ constants' = img.constants
        /\ locals' = [i \in 1 .. img.num_locals |-> Garbage]
        /\ status = "idle" /\ status' = "running" /\ pc' = pc
    BY <2>1 DEF vm_init
  <2>4. pc' = 0 /\ 0 \in Starts(code')
    BY <2>3 DEF DecodingInv, Decodes
  <2>5. Loaded(img)'
    BY <2>3 DEF Loaded
  <2> QED
    BY <2>3, <2>4, <2>5 DEF DecodingInv
<1>2. CASE Instruction
  <2>1. status = "running"
    BY <1>2, Zenon DEF Instruction, PushConst, PushBool, PushArray, IntOp, Compare, Negate, Not,
              CompoundStore, Load, Store, Jump, Concat, ArrLoadIdx, ArrStoreIdx, ArrAppend, At, Ready
  <2>2. PICK img \in Images : Loaded(img)
    BY <2>1 DEF DecodingInv
  <2>3. /\ UNCHANGED <<code, constants, status>> /\ DOMAIN locals' = DOMAIN locals
        /\ pc' \in Starts(code)
    BY <1>2, <2>1, <2>2, InstructionLands DEF DecodingInv
  <2>4. Loaded(img)'
    BY <2>2, <2>3 DEF Loaded
  <2> QED
    BY <2>1, <2>3, <2>4 DEF DecodingInv
<1>3. CASE Count
  <2>1. /\ Counting /\ UNCHANGED <<code, constants, pc, locals>>
        /\ status' = status \/ status' \in {"dangling string", "dangling array"}
    BY <1>3, Zenon DEF Count, Skip, increment_ref, decrement_ref, increment_ref_arr,
                       decrement_ref_arr, Dangle, Finish
  <2> QED
    BY <2>1 DEF Counting, DecodingInv, Loaded
<1>4. CASE Abort
  <2>1. /\ Ready /\ status' \in Obstacles /\ UNCHANGED <<code, constants, pc, locals>>
    BY <1>4, Zenon DEF Abort
  <2>2. PICK img \in Images : Loaded(img)
    BY <2>1 DEF DecodingInv, Ready
  <2>3. status' \in {"stack underflow"} \cup (Faults \ {"no such constant"})
    BY <2>1, <2>2, AbortReasons DEF DecodingInv, Ready
  <2>4. Loaded(img)'
    BY <2>1, <2>2 DEF Loaded
  <2> QED
    BY <2>3, <2>4 DEF DecodingInv, Faults
<1>5. CASE Halt \/ vm_free
  <2>1. /\ status # "idle" /\ UNCHANGED <<code, constants, pc, locals>>
        /\ status' \in {"halted", "freed", "double free"}
    BY <1>5, Zenon DEF Halt, vm_free
  <2> QED
    BY <2>1 DEF DecodingInv, Loaded
<1>6. CASE UNCHANGED vars
  BY <1>6 DEF vars, DecodingInv, Loaded
<1> QED
  BY <1>1, <1>2, <1>3, <1>4, <1>5, <1>6 DEF Next

-----------------------------------------------------------------------------
(* If everything bytecode_gen makes decodes, vm_run is always between two  *)
(* instructions of it, whichever jumps it takes, and neither falls out of  *)
(* the code nor looks up a constant or a slot that does not exist.         *)
THEOREM DecodingInductive ==
  ASSUME \A img \in Images : Decodes(img)
  PROVE  Spec => []DecodingInv
<1>1. Init => DecodingInv
  BY DEF Init, DecodingInv, JumpsLandOnInstructions, CodeIsWellFormed
<1>2. IInv /\ Fresh /\ DecodingInv /\ [Next]_vars => DecodingInv'
  BY StepKeepsDecodingInv
<1> QED
  BY <1>1, <1>2, Inductive, PTL DEF Spec

(* A jump the emitter patched, or one back to the head of a loop, never    *)
(* lands inside an instruction.                                            *)
THEOREM JumpsAlwaysLand ==
  ASSUME \A img \in Images : Decodes(img)
  PROVE  Spec => []JumpsLandOnInstructions
<1>1. DecodingInv => JumpsLandOnInstructions
  BY DEF DecodingInv
<1> QED
  BY <1>1, DecodingInductive, PTL

(* vm_run never stops for want of an instruction, a constant or a slot.    *)
THEOREM CodeStaysWellFormed ==
  ASSUME \A img \in Images : Decodes(img)
  PROVE  Spec => []CodeIsWellFormed
<1>1. DecodingInv => CodeIsWellFormed
  BY DEF DecodingInv
<1> QED
  BY <1>1, DecodingInductive, PTL

-----------------------------------------------------------------------------
(* What emit_jmp and patch_int write of a step count, cut to two bytes,    *)
(* vm_run reads back, if and only if it is one of the BYTE * BYTE numbers  *)
(* around 0; a body longer than that sends the machine somewhere else.     *)
THEOREM StepsReadBack ==
  ASSUME NEW n \in Int
  PROVE  Signed16(HighByte(n), LowByte(n)) = n
           <=> -(BYTE * BYTE) <= 2 * n /\ 2 * n < BYTE * BYTE
<1> DEFINE q == n \div BYTE
           l == n % BYTE
           h == q % BYTE
           k == q \div BYTE
<1>1. BYTE \in Nat /\ BYTE > 0 /\ BYTE * BYTE \in Nat
  BY ByteAssumption
<1>2. q \in Int /\ l \in 0 .. BYTE - 1 /\ n = BYTE * q + l
  BY <1>1
<1>3. k \in Int /\ h \in 0 .. BYTE - 1 /\ q = BYTE * k + h
  BY <1>1, <1>2
<1> DEFINE u == h * BYTE + l
           m == BYTE * BYTE
<1>4. Signed16(HighByte(n), LowByte(n)) = IF 2 * u >= m THEN u - m ELSE u
  BY DEF Signed16, HighByte, LowByte, Unsigned16
<1> HIDE DEF q, l, h, k
<1>5. n = m * k + u
  <2>1. BYTE * q = BYTE * (BYTE * k) + BYTE * h
    BY <1>1, <1>2, <1>3
  <2>2. BYTE * (BYTE * k) = m * k
    BY <1>1, <1>3
  <2> QED
    BY <1>1, <1>2, <1>3, <2>1, <2>2
<1>6. u \in 0 .. m - 1
  <2>1. h * BYTE <= (BYTE - 1) * BYTE /\ h * BYTE >= 0
    BY <1>1, <1>3
  <2>2. (BYTE - 1) * BYTE = m - BYTE
    BY <1>1
  <2> QED
    BY <1>1, <1>2, <1>3, <2>1, <2>2
<1> HIDE DEF u
<1>7. m \in Nat /\ m > 0
  BY <1>1
<1> HIDE DEF m
<1>8. (IF 2 * u >= m THEN u - m ELSE u) = n <=> -m <= 2 * n /\ 2 * n < m
  <2>1. k = 0 \/ k = -1 \/ k >= 1 \/ k <= -2
    BY <1>3
  <2>2. k >= 1 => m * k >= m
    BY <1>3, <1>7
  <2>3. k <= -2 => m * k <= -(2 * m)
    BY <1>3, <1>7
  <2>4. (k = 0 => m * k = 0) /\ (k = -1 => m * k = -m)
    BY <1>7
  <2>5. m * k \in Int
    BY <1>3, <1>7
  <2> QED
    BY <1>3, <1>5, <1>6, <1>7, <2>1, <2>2, <2>3, <2>4, <2>5
<1> QED
  BY <1>4, <1>8 DEF m

-----------------------------------------------------------------------------
(* Typed code.                                                             *)

(* A value whose tag names the member written, and if it points to an      *)
(* array, the type of that array's elements.                               *)
SoundIn(v, as) ==
  /\ v.member = MemberOf(v.type)
  /\ IsArray(v) => ElementOf(v.type) = as[v.val].arr_val[1].type

CellSound(cell, as) ==
  /\ cell.arr_val # <<>>
  /\ \A i \in DOMAIN cell.arr_val :
       SoundIn(cell.arr_val[i], as) /\ cell.arr_val[i].type = cell.arr_val[1].type

(* The types of the values on top of a stack, the topmost first.           *)
TopOf(st, ts) ==
  Len(ts) <= Len(st) /\ \A i \in 1 .. Len(ts) : st[Len(st) + 1 - i].type = ts[i]

(* What the machine holds has the types the code was verified with.        *)
Typed(slots, at) ==
  /\ \A i \in DOMAIN stack : SoundIn(stack[i], arrs)
  /\ \A i \in DOMAIN locals : SoundIn(locals[i], arrs)
  /\ LocalsHold(slots)
  /\ \A a \in DOMAIN arrs : CellSound(arrs[a], arrs)
  /\ status = "running" => TopOf(stack, at[pc])

(* TypesAreSound is inductive only with the types of everything the        *)
(* machine holds, the elements of arrays included.                         *)
TypingInv(declared) ==
  /\ status \notin {"wrong member", "stack underflow"}
  /\ status # "idle" =>
       \E img \in Images : \E at :
         Loaded(img) /\ Verified(img, declared[img], at) /\ Typed(declared[img], at)

(* Every image can be verified with the types declared for its slots.      *)
ImagesAreTyped(declared) ==
  \A img \in Images : \E at : Verified(img, declared[img], at)

-----------------------------------------------------------------------------
(* Values and cells.                                                       *)

(* Arrays may come and change as long as the first element keeps its type. *)
KeepsElements(as1, as2) ==
  \A a \in DOMAIN as1 :
    a \in DOMAIN as2 /\ as2[a].arr_val[1].type = as1[a].arr_val[1].type

LEMMA SoundKept ==
  ASSUME NEW as1, NEW as2, KeepsElements(as1, as2),
         NEW v, SoundIn(v, as1), IsArray(v) => v.val \in DOMAIN as1
  PROVE  SoundIn(v, as2)
BY DEF SoundIn, KeepsElements

LEMMA SoundAllKept ==
  ASSUME NEW as1, NEW as2, KeepsElements(as1, as2), NEW ss, NEW s \in Seq(Pointing(ss, as1)),
         \A i \in DOMAIN s : SoundIn(s[i], as1)
  PROVE  \A i \in DOMAIN s : SoundIn(s[i], as2)
<1> SUFFICES ASSUME NEW i \in DOMAIN s
             PROVE  SoundIn(s[i], as2)
  OBVIOUS
<1>1. s[i] \in Pointing(ss, as1)
  BY LenProperties, ElementOfSeq
<1>2. IsArray(s[i]) => s[i].val \in DOMAIN as1
  BY <1>1 DEF Pointing, Located
<1> QED
  BY <1>2, SoundKept

(* A value that is not a pointer to an array is sound whatever the heap.   *)
LEMMA PlainSound ==
  ASSUME NEW as
  PROVE  /\ \A n : SoundIn(IntValue(n), as)
         /\ \A p : SoundIn(BoolValue(p), as)
         /\ \A s : SoundIn(StringRef(s), as)
         /\ SoundIn(Garbage, as)
BY DEF SoundIn, MemberOf, IntValue, BoolValue, StringRef, Garbage, IsArray, IsArrayType,
       int_type, bool_type, string_type, unknown_type, Scalar

LEMMA TypesAreTypes ==
  /\ int_type \in VarType /\ bool_type \in VarType /\ string_type \in VarType
  /\ \A t \in VarType : /\ ArrayOf(t) \in VarType /\ ElementOf(t) \in VarType
                        /\ ElementOf(ArrayOf(t)) = t
                        /\ t.nested >= -1 => IsArrayType(ArrayOf(t))
                        /\ ArrayOf(t).nested = t.nested + 1
<1>1. int_type \in VarType /\ bool_type \in VarType /\ string_type \in VarType
  BY DEF int_type, bool_type, string_type, Scalar, VarType, BaseType
<1>2. ASSUME NEW t \in VarType
      PROVE  /\ ArrayOf(t) \in VarType /\ ElementOf(t) \in VarType
             /\ ArrayOf(t).nested = t.nested + 1
             /\ ElementOf(ArrayOf(t)) = t
  <2>1. PICK b \in BaseType, n \in Int : t = [base_type |-> b, nested |-> n]
    BY DEF VarType
  <2>2. ArrayOf(t) = [base_type |-> b, nested |-> n + 1]
    BY <2>1 DEF ArrayOf
  <2>3. ElementOf(t) = [base_type |-> b, nested |-> n - 1]
    BY <2>1 DEF ElementOf
  <2>4. ElementOf(ArrayOf(t)) = [base_type |-> b, nested |-> n + 1 - 1]
    BY <2>2 DEF ElementOf
  <2>5. n + 1 - 1 = n
    OBVIOUS
  <2> QED
    BY <2>1, <2>2, <2>3, <2>4, <2>5 DEF VarType
<1>3. \A t \in VarType : t.nested >= -1 => IsArrayType(ArrayOf(t))
  <2> SUFFICES ASSUME NEW t \in VarType, t.nested >= -1
               PROVE  ArrayOf(t).nested # -1
    BY DEF IsArrayType
  <2>1. t.nested \in Int
    BY DEF VarType
  <2> QED
    BY <1>2, <2>1
<1> QED
  BY <1>1, <1>2, <1>3

-----------------------------------------------------------------------------
(* Stacks and the types on top of them.                                    *)

(* Fewer types are on top of the stack where these are.                    *)
LEMMA TopPrefix ==
  ASSUME NEW S, NEW T, NEW st \in Seq(S), NEW ts \in Seq(T), NEW us \in Seq(T),
         TopOf(st, ts), IsPrefix(us, ts)
  PROVE  TopOf(st, us)
<1>1. /\ Len(st) \in Nat /\ Len(ts) \in Nat /\ Len(us) \in Nat /\ Len(us) <= Len(ts)
      /\ SubSeq(us, 1, Len(us)) = SubSeq(ts, 1, Len(us))
  BY LenProperties DEF IsPrefix
<1>2. \A i \in 1 .. Len(us) : us[i] = ts[i]
  <2>1. \A i \in 1 .. Len(us) : SubSeq(us, 1, Len(us))[i] = us[i]
    BY <1>1
  <2>2. \A i \in 1 .. Len(us) : SubSeq(ts, 1, Len(us))[i] = ts[i]
    BY <1>1
  <2> QED
    BY <1>1, <2>1, <2>2
<1> QED
  BY <1>1, <1>2 DEF TopOf

(* Taking n values off and putting at most one on.                         *)
LEMMA TopReplaced ==
  ASSUME NEW S, NEW T, NEW st \in Seq(S), NEW ts \in Seq(T), TopOf(st, ts),
         NEW n \in Nat, n <= Len(ts),
         NEW pushed \in Seq(S), NEW makes \in Seq(T),
         Len(pushed) = Len(makes), Len(pushed) <= 1,
         Len(pushed) = 1 => pushed[1].type = makes[1]
  PROVE  TopOf(SubSeq(st, 1, Len(st) - n) \o pushed, makes \o SubSeq(ts, n + 1, Len(ts)))
<1> DEFINE rest == SubSeq(st, 1, Len(st) - n)
           more == SubSeq(ts, n + 1, Len(ts))
           k    == Len(pushed)
           new  == rest \o pushed
           us   == makes \o more
<1>1. Len(st) \in Nat /\ Len(ts) \in Nat /\ Len(ts) <= Len(st) /\ k \in 0 .. 1
  BY LenProperties DEF TopOf
<1>2. /\ rest \in Seq(S) /\ Len(rest) = Len(st) - n
      /\ \A i \in 1 .. Len(st) - n : rest[i] = st[i]
  BY <1>1
<1>3. /\ more \in Seq(T) /\ Len(more) = Len(ts) - n
      /\ \A i \in 1 .. Len(ts) - n : more[i] = ts[n + i]
  BY <1>1
<1> HIDE DEF rest, more
<1>4. /\ Len(new) = Len(st) - n + k
      /\ \A i \in 1 .. Len(st) - n : new[i] = st[i]
      /\ k = 1 => new[Len(st) - n + 1] = pushed[1]
  BY <1>1, <1>2
<1>5. /\ Len(us) = k + Len(ts) - n
      /\ k = 1 => us[1] = makes[1]
      /\ \A i \in k + 1 .. Len(us) : us[i] = ts[n + i - k]
  <2>1. Len(us) = k + Len(ts) - n /\ (k = 1 => us[1] = makes[1])
    BY <1>1, <1>3
  <2>2. \A i \in k + 1 .. Len(us) : us[i] = more[i - k]
    BY <1>1, <1>3, <2>1
  <2>3. \A i \in k + 1 .. Len(us) : i - k \in 1 .. Len(ts) - n
    BY <1>1, <2>1
  <2>4. \A i \in k + 1 .. Len(us) : more[i - k] = ts[n + (i - k)]
    BY <1>3, <2>3
  <2> QED
    BY <1>1, <2>1, <2>2, <2>4
<1> HIDE DEF new, us
<1>6. \A i \in 1 .. Len(us) : new[Len(new) + 1 - i].type = us[i]
  <2> SUFFICES ASSUME NEW i \in 1 .. Len(us)
               PROVE  new[Len(new) + 1 - i].type = us[i]
    OBVIOUS
  <2>1. CASE i <= k
    <3>1. i = 1 /\ k = 1 /\ Len(new) + 1 - i = Len(st) - n + 1
      BY <1>1, <1>4, <2>1
    <3> QED
      BY <1>4, <1>5, <3>1
  <2>2. CASE i > k
    <3>1. n + i - k \in 1 .. Len(ts) /\ us[i] = ts[n + i - k]
      BY <1>1, <1>5, <2>2
    <3>2. /\ Len(new) + 1 - i \in 1 .. Len(st) - n
          /\ Len(new) + 1 - i = Len(st) + 1 - (n + i - k)
      BY <1>1, <1>4, <1>5, <2>2
    <3>3. st[Len(st) + 1 - (n + i - k)].type = ts[n + i - k]
      BY <3>1 DEF TopOf
    <3> QED
      BY <1>4, <3>1, <3>2, <3>3
  <2> QED
    BY <1>1, <2>1, <2>2
<1>7. TopOf(new, us)
  BY <1>1, <1>4, <1>5, <1>6 DEF TopOf
<1> QED
  BY <1>7 DEF new, us, rest, more

-----------------------------------------------------------------------------
(* What each instruction takes and makes, and that the machine pops as     *)
(* many values and reads the members their types are in.                   *)
LEMMA TakesNothing ==
  ASSUME NEW slots, NEW o, NEW n, NEW t,
         o \notin IntArith \cup IntTest, o \notin BoolTest,
         o \notin Compound \cup {OP_INEG}, o \notin CondJumps \cup {OP_NOT},
         o \notin Stores, o # OP_SCONCAT, o # OP_ARRLOADIDX,
         o # OP_ARRSTOREIDX, o # OP_ARRAPPEND, o # OP_PUSH_ARRAY
  PROVE  Takes(slots, o, n, t) = <<>>
BY DEF Takes

LEMMA TakesOf ==
  ASSUME NEW slots, NEW t, Op \in Opcodes
  PROVE  /\ Op \in IntArith \cup IntTest => Takes(slots, Op, Operand, t) = <<int_type, int_type>>
         /\ Op \in BoolTest => Takes(slots, Op, Operand, t) = <<bool_type, bool_type>>
         /\ Op \in Compound \cup {OP_INEG} => Takes(slots, Op, Operand, t) = <<int_type>>
         /\ Op \in CondJumps \cup {OP_NOT} => Takes(slots, Op, Operand, t) = <<bool_type>>
         /\ Op \in Stores => Takes(slots, Op, Operand, t) = <<slots[Operand + 1]>>
         /\ Op = OP_SCONCAT => Takes(slots, Op, Operand, t) = <<string_type, string_type>>
         /\ Op = OP_ARRLOADIDX => Takes(slots, Op, Operand, t) = <<ArrayOf(t), int_type>>
         /\ Op = OP_ARRSTOREIDX => Takes(slots, Op, Operand, t) = <<t, ArrayOf(t), int_type>>
         /\ Op = OP_ARRAPPEND => Takes(slots, Op, Operand, t) = <<t, ArrayOf(t)>>
         /\ Op = OP_PUSH_ARRAY => Takes(slots, Op, Operand, t) = [i \in 1 .. Operand |-> t]
         /\ Op \in {OP_PUSH, OP_PUSH_STRING, OP_PUSH_TRUE, OP_PUSH_FALSE, OP_JMP} \cup Loads
              => Takes(slots, Op, Operand, t) = <<>>
<1> USE DEF OP_PUSH, OP_PUSH_TRUE, OP_PUSH_FALSE, OP_PUSH_ARRAY, OP_IADD, OP_IADDSTORE, OP_ISUB,
            OP_ISUBSTORE, OP_IMUL, OP_IMULSTORE, OP_IDIV, OP_IDIVSTORE, OP_INEG, OP_IGT, OP_IGTE,
            OP_ILT, OP_ILTE, OP_IEQ, OP_IMOD, OP_BEQ, OP_INEQ, OP_BNEQ, OP_ISTORE, OP_ILOAD,
            OP_BSTORE, OP_BLOAD, OP_ARRSTORE, OP_ARRLOAD, OP_NOT, OP_JMPN, OP_JMPT, OP_JMP,
            OP_PUSH_STRING, OP_SCONCAT, OP_SSTORE, OP_SLOAD, OP_ARRLOADIDX, OP_ARRSTOREIDX,
            OP_ARRAPPEND, IntArith, IntTest, BoolTest, Compound, CondJumps, Stores, Loads
<1>1. Op \in IntArith \cup IntTest => Takes(slots, Op, Operand, t) = <<int_type, int_type>>
  BY SMTT(180) DEF Takes
<1>2. Op \in BoolTest => Takes(slots, Op, Operand, t) = <<bool_type, bool_type>>
  BY SMTT(60) DEF Takes
<1>3. Op \in Compound \cup {OP_INEG} => Takes(slots, Op, Operand, t) = <<int_type>>
  BY SMTT(60) DEF Takes
<1>4. Op \in CondJumps \cup {OP_NOT} => Takes(slots, Op, Operand, t) = <<bool_type>>
  BY SMTT(60) DEF Takes
<1>5. Op \in Stores => Takes(slots, Op, Operand, t) = <<slots[Operand + 1]>>
  BY SMTT(60) DEF Takes
<1>6. Op = OP_SCONCAT => Takes(slots, Op, Operand, t) = <<string_type, string_type>>
  BY SMTT(60) DEF Takes
<1>7. Op = OP_ARRLOADIDX => Takes(slots, Op, Operand, t) = <<ArrayOf(t), int_type>>
  BY SMTT(60) DEF Takes
<1>8. Op = OP_ARRSTOREIDX => Takes(slots, Op, Operand, t) = <<t, ArrayOf(t), int_type>>
  BY SMTT(60) DEF Takes
<1>9. Op = OP_ARRAPPEND => Takes(slots, Op, Operand, t) = <<t, ArrayOf(t)>>
  BY SMTT(60) DEF Takes
<1>10. Op = OP_PUSH_ARRAY => Takes(slots, Op, Operand, t) = [i \in 1 .. Operand |-> t]
  BY SMTT(60) DEF Takes
<1>11. Op \in {OP_PUSH, OP_PUSH_STRING, OP_PUSH_TRUE, OP_PUSH_FALSE, OP_JMP} \cup Loads
         => Takes(slots, Op, Operand, t) = <<>>
  <2> SUFFICES ASSUME Op \in {OP_PUSH, OP_PUSH_STRING, OP_PUSH_TRUE, OP_PUSH_FALSE, OP_JMP} \cup Loads
               PROVE  Takes(slots, Op, Operand, t) = <<>>
    OBVIOUS
  <2>1. /\ ~(Op \in IntArith \cup IntTest) /\ ~(Op \in BoolTest)
        /\ ~(Op \in Compound \cup {OP_INEG}) /\ ~(Op \in CondJumps \cup {OP_NOT})
        /\ ~(Op \in Stores) /\ ~(Op = OP_SCONCAT) /\ ~(Op = OP_ARRLOADIDX)
        /\ ~(Op = OP_ARRSTOREIDX) /\ ~(Op = OP_ARRAPPEND) /\ ~(Op = OP_PUSH_ARRAY)
    OBVIOUS
  <2> QED
    BY <2>1, TakesNothing
<1> QED
  BY <1>1, <1>2, <1>3, <1>4, <1>5, <1>6, <1>7, <1>8, <1>9, <1>10, <1>11, Zenon

LEMMA MakesOf ==
  ASSUME NEW img, NEW slots, NEW t, Op \in Opcodes
  PROVE  /\ Op \in {OP_PUSH, OP_PUSH_STRING}
              => Makes(img, slots, Op, Operand, t) = <<img.constants[Operand + 1].type>>
         /\ Op \in {OP_PUSH_TRUE, OP_PUSH_FALSE, OP_NOT} \cup IntTest \cup BoolTest
              => Makes(img, slots, Op, Operand, t) = <<bool_type>>
         /\ Op \in IntArith \cup {OP_INEG}
              => Makes(img, slots, Op, Operand, t) = <<int_type>>
         /\ Op \in Loads
              => Makes(img, slots, Op, Operand, t) = <<slots[Operand + 1]>>
         /\ Op = OP_SCONCAT
              => Makes(img, slots, Op, Operand, t) = <<string_type>>
         /\ Op = OP_ARRLOADIDX
              => Makes(img, slots, Op, Operand, t) = <<t>>
         /\ Op \in {OP_PUSH_ARRAY, OP_ARRAPPEND}
              => Makes(img, slots, Op, Operand, t) = <<ArrayOf(t)>>
         /\ Op \in Stores \cup Compound \cup CondJumps \cup {OP_JMP, OP_ARRSTOREIDX}
              => Makes(img, slots, Op, Operand, t) = <<>>
<1> USE DEF OP_PUSH, OP_PUSH_TRUE, OP_PUSH_FALSE, OP_PUSH_ARRAY, OP_IADD, OP_IADDSTORE, OP_ISUB,
            OP_ISUBSTORE, OP_IMUL, OP_IMULSTORE, OP_IDIV, OP_IDIVSTORE, OP_INEG, OP_IGT, OP_IGTE,
            OP_ILT, OP_ILTE, OP_IEQ, OP_IMOD, OP_BEQ, OP_INEQ, OP_BNEQ, OP_ISTORE, OP_ILOAD,
            OP_BSTORE, OP_BLOAD, OP_ARRSTORE, OP_ARRLOAD, OP_NOT, OP_JMPN, OP_JMPT, OP_JMP,
            OP_PUSH_STRING, OP_SCONCAT, OP_SSTORE, OP_SLOAD, OP_ARRLOADIDX, OP_ARRSTOREIDX,
            OP_ARRAPPEND, IntArith, IntTest, BoolTest, Compound, CondJumps, Stores, Loads
<1>1. Op \in {OP_PUSH, OP_PUSH_STRING}
       => Makes(img, slots, Op, Operand, t) = <<img.constants[Operand + 1].type>>
  BY SMTT(180) DEF Makes
<1>2. Op \in {OP_PUSH_TRUE, OP_PUSH_FALSE, OP_NOT} \cup IntTest \cup BoolTest
       => Makes(img, slots, Op, Operand, t) = <<bool_type>>
  BY SMTT(60) DEF Makes
<1>3. Op \in IntArith \cup {OP_INEG} => Makes(img, slots, Op, Operand, t) = <<int_type>>
  BY SMTT(60) DEF Makes
<1>4. Op \in Loads => Makes(img, slots, Op, Operand, t) = <<slots[Operand + 1]>>
  BY SMTT(60) DEF Makes
<1>5. Op = OP_SCONCAT => Makes(img, slots, Op, Operand, t) = <<string_type>>
  BY SMTT(60) DEF Makes
<1>6. Op = OP_ARRLOADIDX => Makes(img, slots, Op, Operand, t) = <<t>>
  BY SMTT(60) DEF Makes
<1>7. Op \in {OP_PUSH_ARRAY, OP_ARRAPPEND} => Makes(img, slots, Op, Operand, t) = <<ArrayOf(t)>>
  BY SMTT(60) DEF Makes
<1>8. Op \in Stores \cup Compound \cup CondJumps \cup {OP_JMP, OP_ARRSTOREIDX}
       => Makes(img, slots, Op, Operand, t) = <<>>
  BY SMTT(60) DEF Makes
<1> QED
  BY <1>1, <1>2, <1>3, <1>4, <1>5, <1>6, <1>7, <1>8, Zenon

(* What vm_run reads of a type is the member it is in.                     *)
LEMMA MembersOfTypes ==
  /\ MemberOf(int_type) = "int_val" /\ MemberOf(bool_type) = "bool_val"
  /\ MemberOf(string_type) = "string_val"
  /\ \A t \in VarType : t.nested >= -1 => MemberOf(ArrayOf(t)) = "array_val"
<1>1. /\ MemberOf(int_type) = "int_val" /\ MemberOf(bool_type) = "bool_val"
      /\ MemberOf(string_type) = "string_val"
  BY DEF MemberOf, int_type, bool_type, string_type, Scalar, IsArrayType
<1>2. ASSUME NEW t \in VarType, t.nested >= -1
      PROVE  MemberOf(ArrayOf(t)) = "array_val"
  <2>1. IsArrayType(ArrayOf(t)) /\ ArrayOf(t) # int_type
        /\ ArrayOf(t) # bool_type /\ ArrayOf(t) # string_type
    BY <1>2, TypesAreTypes DEF IsArrayType, int_type, bool_type, string_type, Scalar
  <2> QED
    BY <2>1 DEF MemberOf
<1> QED
  BY <1>1, <1>2

LEMMA MembersTaken ==
  ASSUME Op \in Opcodes, Op = OP_PUSH_ARRAY => Operand \in Nat,
         NEW slots, NEW t \in VarType, t.nested >= -1
  PROVE  LET takes == Takes(slots, Op, Operand, t)
         IN  /\ Arity \in Nat /\ Len(takes) = Arity
             /\ \A i \in 1 .. Arity :
                  Needs(Op)[i] = "any" \/ Needs(Op)[i] = MemberOf(takes[i])
<1>1. CASE Op \in IntArith \cup IntTest
  <2>1. Needs(Op) = <<"int_val", "int_val">>
    BY <1>1, NeedsOf
  <2>2. Takes(slots, Op, Operand, t) = <<int_type, int_type>>
    BY <1>1, TakesOf
  <2> QED
    BY <2>1, <2>2, MembersOfTypes DEF Arity
<1>2. CASE Op \in BoolTest
  <2>1. Needs(Op) = <<"bool_val", "bool_val">>
    BY <1>2, NeedsOf
  <2>2. Takes(slots, Op, Operand, t) = <<bool_type, bool_type>>
    BY <1>2, TakesOf
  <2> QED
    BY <2>1, <2>2, MembersOfTypes DEF Arity
<1>3. CASE Op \in Compound \cup {OP_INEG}
  <2>1. Needs(Op) = <<"int_val">>
    BY <1>3, NeedsOf
  <2>2. Takes(slots, Op, Operand, t) = <<int_type>>
    BY <1>3, TakesOf
  <2> QED
    BY <2>1, <2>2, MembersOfTypes DEF Arity
<1>4. CASE Op \in CondJumps \cup {OP_NOT}
  <2>1. Needs(Op) = <<"bool_val">>
    BY <1>4, NeedsOf
  <2>2. Takes(slots, Op, Operand, t) = <<bool_type>>
    BY <1>4, TakesOf
  <2> QED
    BY <2>1, <2>2, MembersOfTypes DEF Arity
<1>5. CASE Op \in Stores
  <2>1. Needs(Op) = <<"any">>
    BY <1>5, NeedsOf
  <2>2. Takes(slots, Op, Operand, t) = <<slots[Operand + 1]>>
    BY <1>5, TakesOf
  <2> QED
    BY <2>1, <2>2, MembersOfTypes DEF Arity
<1>6. CASE Op = OP_SCONCAT
  <2>1. Needs(Op) = <<"string_val", "string_val">>
    BY <1>6, NeedsOf
  <2>2. Takes(slots, Op, Operand, t) = <<string_type, string_type>>
    BY <1>6, TakesOf
  <2> QED
    BY <2>1, <2>2, MembersOfTypes DEF Arity
<1>7. CASE Op = OP_ARRLOADIDX
  <2>1. Needs(Op) = <<"array_val", "int_val">>
    BY <1>7, NeedsOf
  <2>2. Takes(slots, Op, Operand, t) = <<ArrayOf(t), int_type>>
    BY <1>7, TakesOf
  <2> QED
    BY <2>1, <2>2, MembersOfTypes DEF Arity
<1>8. CASE Op = OP_ARRSTOREIDX
  <2>1. Needs(Op) = <<"any", "array_val", "int_val">>
    BY <1>8, NeedsOf
  <2>2. Takes(slots, Op, Operand, t) = <<t, ArrayOf(t), int_type>>
    BY <1>8, TakesOf
  <2> QED
    BY <2>1, <2>2, MembersOfTypes DEF Arity
<1>9. CASE Op = OP_ARRAPPEND
  <2>1. Needs(Op) = <<"any", "array_val">>
    BY <1>9, NeedsOf
  <2>2. Takes(slots, Op, Operand, t) = <<t, ArrayOf(t)>>
    BY <1>9, TakesOf
  <2> QED
    BY <2>1, <2>2, MembersOfTypes DEF Arity
<1>10. CASE Op = OP_PUSH_ARRAY
  <2>1. Needs(Op) = [i \in 1 .. Operand |-> "any"]
    BY <1>10, NeedsOf
  <2>2. Takes(slots, Op, Operand, t) = [i \in 1 .. Operand |-> t]
    BY <1>10, TakesOf
  <2>3. Arity = Operand /\ Operand \in Nat
    BY <1>10, ArityOf
  <2> QED
    BY <2>1, <2>2, <2>3
<1>11. CASE Op \in {OP_PUSH, OP_PUSH_STRING, OP_PUSH_TRUE, OP_PUSH_FALSE, OP_JMP} \cup Loads
  <2>1. Arity = 0
    BY <1>11, ArityOf
  <2>2. Takes(slots, Op, Operand, t) = <<>>
    BY <1>11, TakesOf
  <2> QED
    BY <2>1, <2>2
<1>12. \/ Op \in IntArith \cup IntTest \cup BoolTest \cup Compound \cup {OP_INEG}
       \/ Op \in CondJumps \cup {OP_NOT} \cup Stores
       \/ Op \in {OP_SCONCAT, OP_ARRLOADIDX, OP_ARRSTOREIDX, OP_ARRAPPEND, OP_PUSH_ARRAY}
       \/ Op \in {OP_PUSH, OP_PUSH_STRING, OP_PUSH_TRUE, OP_PUSH_FALSE, OP_JMP} \cup Loads
  BY DEF Opcodes, OP_PUSH, OP_PUSH_TRUE, OP_PUSH_FALSE, OP_PUSH_ARRAY, OP_IADD, OP_IADDSTORE, OP_ISUB,
         OP_ISUBSTORE, OP_IMUL, OP_IMULSTORE, OP_IDIV, OP_IDIVSTORE, OP_INEG, OP_IGT, OP_IGTE,
         OP_ILT, OP_ILTE, OP_IEQ, OP_IMOD, OP_BEQ, OP_INEQ, OP_BNEQ, OP_ISTORE, OP_ILOAD,
         OP_BSTORE, OP_BLOAD, OP_ARRSTORE, OP_ARRLOAD, OP_NOT, OP_JMPN, OP_JMPT, OP_JMP,
         OP_PUSH_STRING, OP_SCONCAT, OP_SSTORE, OP_SLOAD, OP_ARRLOADIDX, OP_ARRSTOREIDX,
         OP_ARRAPPEND, IntArith, IntTest, BoolTest, Compound, CondJumps, Stores, Loads
<1> QED
  BY <1>1, <1>2, <1>3, <1>4, <1>5, <1>6, <1>7, <1>8, <1>9, <1>10, <1>11, <1>12

-----------------------------------------------------------------------------
(* The instruction at pc and the types on the stack.                       *)

(* What an instruction leaves on top of a stack it finds as expected.      *)
LeftHere(img, slots, at, t) ==
  Makes(img, slots, Op, Operand, t)
    \o SubSeq(at[pc], Len(Takes(slots, Op, Operand, t)) + 1, Len(at[pc]))

(* The instruction at pc was verified, moving an element of type t if it   *)
(* is one for arrays.                                                      *)
FitsHere(img, slots, at, t) ==
  /\ t \in VarType /\ t.nested >= -1
  /\ IsPrefix(Takes(slots, Op, Operand, t), at[pc])
  /\ Op = OP_PUSH_ARRAY => Operand > 0
  /\ Op \in Compound => slots[Slot] = int_type
  /\ Op # OP_JMP => IsPrefix(at[Following], LeftHere(img, slots, at, t))
  /\ Op \in JumpCodes => IsPrefix(at[Following + Steps], LeftHere(img, slots, at, t))

LEMMA VerifiedHere ==
  ASSUME NEW img, NEW slots, NEW at, code = img.code, Verified(img, slots, at),
         pc \in Starts(code), pc # Len(code), pc \in Nat
  PROVE  /\ at[pc] \in Seq(VarType)
         /\ \E t : FitsHere(img, slots, at, t)
<1>1. at[pc] \in Seq(VarType) /\ TypedAt(img, slots, at, pc)
  BY DEF Verified
<1>2. PICK t \in ElementTypes(at[pc]) :
         /\ IsPrefix(Takes(slots, Op, Operand, t), at[pc])
         /\ Op = OP_PUSH_ARRAY => Operand > 0
         /\ Op \in Compound => slots[Operand + 1] = int_type
         /\ Op # OP_JMP => IsPrefix(at[pc + 1 + OperandBytes(Op)], LeftHere(img, slots, at, t))
         /\ Op \in JumpCodes => IsPrefix(at[pc + 3 + Steps], LeftHere(img, slots, at, t))
  BY <1>1, Zenon DEF TypedAt, Op, Operand, Steps, LeftHere
<1>3. t \in VarType /\ t.nested >= -1
  <2>1. Range(at[pc]) \subseteq VarType
    BY <1>1, LenProperties, ElementOfSeq DEF Range
  <2> QED
    BY <1>2, <2>1, TypesAreTypes DEF ElementTypes
<1>4. Op \in JumpCodes => Following = pc + 3
  BY DEF JumpCodes, Following, OperandBytes, WithOperand
<1>5. FitsHere(img, slots, at, t)
  BY <1>2, <1>3, <1>4 DEF FitsHere, Following, Slot
<1> QED
  BY <1>1, <1>5

(* An instruction that was verified finds the operands it needs, and reads *)
(* the member of each that was written.                                    *)
LEMMA OperandsTyped ==
  ASSUME IInv, NEW img \in Images, NEW slots, NEW at, NEW t,
         Loaded(img), Verified(img, slots, at), Typed(slots, at), FitsHere(img, slots, at, t),
         status = "running", pc \in Starts(code), pc < Len(code)
  PROVE  LET takes == Takes(slots, Op, Operand, t)
         IN  /\ Arity \in Nat /\ Len(takes) = Arity /\ Arity <= Len(stack)
             /\ at[pc] \in Seq(VarType) /\ Arity <= Len(at[pc]) /\ TopOf(stack, at[pc])
             /\ \A i \in 1 .. Arity :
                  Popped(i).type = takes[i] /\ SoundIn(Popped(i), arrs) /\ Popped(i) \in Good
             /\ MembersMatch
<1> DEFINE takes == Takes(slots, Op, Operand, t)
<1>1. /\ InCode /\ Op \in Opcodes /\ Fetchable
      /\ Op \in Slotted => ValidSlot
  BY DecodedHere DEF Verified
<1>2. pc \in Nat /\ pc + OperandBytes(Op) < Len(code)
  BY <1>1 DEF InCode, Fetchable, IInv
<1>3. Op \in WithOperand => Operand \in Nat
  BY <1>2, OperandType
<1>4. /\ Arity \in Nat /\ Len(takes) = Arity
      /\ \A i \in 1 .. Arity : Needs(Op)[i] = "any" \/ Needs(Op)[i] = MemberOf(takes[i])
  BY <1>1, <1>3, MembersTaken DEF FitsHere, WithOperand
<1> HIDE DEF takes
<1>5. at[pc] \in Seq(VarType) /\ TopOf(stack, at[pc])
  BY DEF Verified, Loaded, Typed
<1>6. Len(at[pc]) \in Nat /\ Len(stack) \in Nat
  BY <1>5, LenProperties DEF IInv
<1>7. Arity <= Len(at[pc]) /\ SubSeq(takes, 1, Arity) = SubSeq(at[pc], 1, Arity)
  BY <1>4 DEF FitsHere, IsPrefix, takes
<1>8. \A i \in 1 .. Arity : takes[i] = at[pc][i]
  <2>1. \A i \in 1 .. Arity : SubSeq(takes, 1, Arity)[i] = takes[i]
    BY <1>4
  <2>2. \A i \in 1 .. Arity : SubSeq(at[pc], 1, Arity)[i] = at[pc][i]
    BY <1>4, <1>6, <1>7
  <2> QED
    BY <1>7, <2>1, <2>2
<1>9. Arity <= Len(stack) /\ \A i \in 1 .. Arity : Popped(i).type = takes[i]
  <2>1. /\ Len(at[pc]) <= Len(stack)
        /\ \A i \in 1 .. Len(at[pc]) : stack[Len(stack) + 1 - i].type = at[pc][i]
    BY <1>5 DEF TopOf
  <2>2. Arity <= Len(at[pc])
    BY <1>7
  <2>3. Arity <= Len(stack)
    BY <1>4, <1>6, <2>1, <2>2
  <2>4. \A i \in 1 .. Arity : i \in 1 .. Len(at[pc])
    BY <1>4, <1>6, <2>2
  <2> QED
    BY <1>8, <2>1, <2>3, <2>4 DEF Popped
<1>10. \A i \in 1 .. Arity : SoundIn(Popped(i), arrs) /\ Popped(i) \in Good
  <2>1. stack \in Seq(Good) /\ DOMAIN stack = 1 .. Len(stack)
    BY LenProperties DEF IInv
  <2>2. \A i \in 1 .. Arity : Len(stack) + 1 - i \in DOMAIN stack
    BY <1>4, <1>6, <1>9, <2>1
  <2> QED
    BY <2>1, <2>2, ElementOfSeq DEF Typed, Popped
<1>11. MembersMatch
  <2>1. \A i \in 1 .. Arity : Needs(Op)[i] \in {"any", Popped(i).member}
    BY <1>4, <1>9, <1>10 DEF SoundIn
  <2>2. Op \in Compound => locals[Slot].member \in {"int_val", "none"}
    <3> SUFFICES ASSUME Op \in Compound, locals[Slot].member # "none"
                 PROVE  locals[Slot].member = "int_val"
      OBVIOUS
    <3>1. Slot \in DOMAIN locals
      <4>1. Operand \in Nat /\ Operand < Len(locals)
        BY <1>1, <1>3 DEF Slotted, WithOperand, ValidSlot
      <4>2. DOMAIN locals = 1 .. Len(locals) /\ Len(locals) \in Nat
        BY LenProperties DEF IInv
      <4> QED
        BY <4>1, <4>2 DEF Slot
    <3>2. locals[Slot].type = int_type /\ SoundIn(locals[Slot], arrs)
      BY <3>1 DEF FitsHere, Typed, LocalsHold
    <3> QED
      BY <3>2, MembersOfTypes DEF SoundIn
  <2> QED
    BY <2>1, <2>2 DEF MembersMatch
<1> QED
  BY <1>4, <1>5, <1>7, <1>9, <1>10, <1>11 DEF takes

-----------------------------------------------------------------------------
(* Steps.                                                                  *)

(* The machine is at a verified instruction of the image it was started    *)
(* with, and all it holds has the types it should.                         *)
TypedHere(img, slots, at, t) ==
  /\ img \in Images /\ Loaded(img) /\ Verified(img, slots, at) /\ Typed(slots, at)
  /\ status = "running" /\ pc \in Starts(code) /\ pc < Len(code)
  /\ FitsHere(img, slots, at, t)

LEMMA StepTyped ==
  ASSUME IInv, NEW img, NEW slots, NEW at, NEW t, TypedHere(img, slots, at, t),
         NEW pushed \in Seq(StackValue), Len(pushed) <= 1,
         Makes(img, slots, Op, Operand, t) = [i \in 1 .. Len(pushed) |-> pushed[i].type],
         \A i \in DOMAIN pushed : SoundIn(pushed[i], arrs'),
         stack' = Rest \o pushed,
         KeepsElements(arrs, arrs'), \A a \in DOMAIN arrs' : CellSound(arrs'[a], arrs'),
         \A i \in DOMAIN locals' : SoundIn(locals'[i], arrs'), LocalsHold(slots)',
         \/ pc' = Following /\ Op # OP_JMP
         \/ pc' = Following + Steps /\ Op \in JumpCodes
  PROVE  Typed(slots, at)'
<1> DEFINE takes == Takes(slots, Op, Operand, t)
           makes == Makes(img, slots, Op, Operand, t)
           left  == LeftHere(img, slots, at, t)
<1>1. /\ Arity \in Nat /\ Len(takes) = Arity /\ Arity <= Len(stack)
      /\ at[pc] \in Seq(VarType) /\ Arity <= Len(at[pc]) /\ TopOf(stack, at[pc])
  BY OperandsTyped DEF TypedHere
<1>2. stack \in Seq(StackValue) /\ stack \in Seq(Good) /\ Len(stack) \in Nat
  BY GoodIsTyped, LenProperties DEF IInv
<1>3. makes \in Seq(VarType) /\ Len(makes) = Len(pushed) /\ (Len(pushed) = 1 => makes[1] = pushed[1].type)
  <2>1. Len(pushed) \in Nat /\ \A i \in 1 .. Len(pushed) : pushed[i] \in StackValue
    BY LenProperties, ElementOfSeq
  <2>2. \A v \in StackValue : v.type \in VarType
    BY DEF StackValue
  <2>3. \A i \in 1 .. Len(pushed) : pushed[i].type \in VarType
    BY <2>1, <2>2
  <2> QED
    BY <2>1, <2>3
<1>4. TopOf(stack', left)
  <2> HIDE DEF makes, takes
  <2>1. TopOf(SubSeq(stack, 1, Len(stack) - Arity) \o pushed, makes \o SubSeq(at[pc], Arity + 1, Len(at[pc])))
    BY <1>1, <1>2, <1>3, TopReplaced
  <2> QED
    BY <1>1, <2>1 DEF Rest, LeftHere, makes, takes
<1>5. left \in Seq(VarType)
  <2>1. Len(at[pc]) \in Nat
    BY <1>1, LenProperties
  <2>2. SubSeq(at[pc], Arity + 1, Len(at[pc])) \in Seq(VarType)
    BY <1>1, <2>1
  <2> QED
    BY <1>1, <1>3, <2>2, ConcatProperties DEF LeftHere
<1>6. stack' \in Seq(StackValue)
  <2>1. Rest \in Seq(StackValue)
    BY <1>1, <1>2 DEF Rest
  <2> QED
    BY <2>1, ConcatProperties
<1>7. pc' \in Starts(code) /\ code = img.code
  BY DecodedHere DEF TypedHere, Verified, Loaded
<1>8. at[pc'] \in Seq(VarType) /\ IsPrefix(at[pc'], left)
  BY <1>7 DEF TypedHere, Verified, FitsHere
<1>9. TopOf(stack', at[pc'])
  <2> HIDE DEF left
  <2> QED
    BY <1>4, <1>5, <1>6, <1>8, TopPrefix
<1>10. \A i \in DOMAIN stack' : SoundIn(stack'[i], arrs')
  <2>1. \A i \in DOMAIN stack : SoundIn(stack[i], arrs')
    BY <1>2, SoundAllKept DEF Good, TypedHere, Typed
  <2>2. /\ Len(Rest) = Len(stack) - Arity
        /\ \A i \in 1 .. Len(Rest) : Rest[i] = stack[i]
    BY <1>1, <1>2 DEF Rest
  <2>3. Rest \in Seq(StackValue)
    BY <1>1, <1>2 DEF Rest
  <2>4. /\ DOMAIN stack' = 1 .. Len(Rest) + Len(pushed)
        /\ \A i \in DOMAIN stack' :
             stack'[i] = IF i <= Len(Rest) THEN Rest[i] ELSE pushed[i - Len(Rest)]
    BY <2>3, ConcatProperties
  <2> SUFFICES ASSUME NEW i \in DOMAIN stack'
               PROVE  SoundIn(stack'[i], arrs')
    OBVIOUS
  <2>5. Len(Rest) \in Nat /\ Len(pushed) \in Nat
    BY <2>3, LenProperties
  <2>6. CASE i <= Len(Rest)
    <3>1. i \in 1 .. Len(Rest) /\ i \in DOMAIN stack
      BY <1>1, <1>2, <2>2, <2>4, <2>5, <2>6, LenProperties
    <3> QED
      BY <2>1, <2>2, <2>4, <2>6, <3>1
  <2>7. CASE i > Len(Rest)
    <3>1. i - Len(Rest) \in DOMAIN pushed
      BY <2>4, <2>5, <2>7, LenProperties
    <3> QED
      BY <2>4, <2>5, <2>7, <3>1
  <2> QED
    BY <2>4, <2>5, <2>6, <2>7
<1> QED
  BY <1>9, <1>10 DEF Typed

(* The heap and the locals as they were.                                   *)
LEMMA NothingElse ==
  ASSUME NEW slots, NEW at, Typed(slots, at), UNCHANGED <<arrs, locals>>
  PROVE  /\ KeepsElements(arrs, arrs') /\ \A a \in DOMAIN arrs' : CellSound(arrs'[a], arrs')
         /\ \A i \in DOMAIN locals' : SoundIn(locals'[i], arrs')
         /\ LocalsHold(slots)'
BY DEF Typed, KeepsElements, LocalsHold

(* An instruction that pushes one value and leaves heap and locals alone.  *)
LEMMA PushTyped ==
  ASSUME IInv, NEW img, NEW slots, NEW at, NEW t, TypedHere(img, slots, at, t),
         NEW v \in StackValue, SoundIn(v, arrs), Push(v), Proceed, Op # OP_JMP,
         Makes(img, slots, Op, Operand, t) = <<v.type>>,
         UNCHANGED <<arrs, locals>>
  PROVE  Typed(slots, at)'
<1> DEFINE pushed == <<v>>
<1>1. /\ pushed \in Seq(StackValue) /\ Len(pushed) <= 1
      /\ Makes(img, slots, Op, Operand, t) = [i \in 1 .. Len(pushed) |-> pushed[i].type]
      /\ \A i \in DOMAIN pushed : SoundIn(pushed[i], arrs')
  OBVIOUS
<1>2. stack' = Rest \o pushed /\ pc' = Following
  BY DEF Push, Replace, Proceed
<1>3. /\ KeepsElements(arrs, arrs') /\ \A a \in DOMAIN arrs' : CellSound(arrs'[a], arrs')
      /\ \A i \in DOMAIN locals' : SoundIn(locals'[i], arrs')
      /\ LocalsHold(slots)'
  BY NothingElse DEF TypedHere
<1> HIDE DEF pushed
<1> QED
  BY <1>1, <1>2, <1>3, StepTyped

(* An instruction that pushes nothing and leaves the heap alone.           *)
LEMMA PopTyped ==
  ASSUME IInv, NEW img, NEW slots, NEW at, NEW t, TypedHere(img, slots, at, t),
         Replace(<<>>, <<>>), Makes(img, slots, Op, Operand, t) = <<>>,
         KeepsElements(arrs, arrs'), \A a \in DOMAIN arrs' : CellSound(arrs'[a], arrs'),
         \A i \in DOMAIN locals' : SoundIn(locals'[i], arrs'), LocalsHold(slots)',
         \/ pc' = Following /\ Op # OP_JMP
         \/ pc' = Following + Steps /\ Op \in JumpCodes
  PROVE  Typed(slots, at)'
<1> DEFINE pushed == <<>>
<1>1. /\ pushed \in Seq(StackValue) /\ Len(pushed) <= 1
      /\ Makes(img, slots, Op, Operand, t) = [i \in 1 .. Len(pushed) |-> pushed[i].type]
      /\ \A i \in DOMAIN pushed : SoundIn(pushed[i], arrs')
  OBVIOUS
<1>2. stack' = Rest \o pushed
  BY DEF Replace
<1> HIDE DEF pushed
<1> QED
  BY <1>1, <1>2, StepTyped

(* OP_PUSH, OP_PUSH_STRING, OP_PUSH_TRUE, OP_PUSH_FALSE and the loads.     *)
LEMMA PushesTyped ==
  ASSUME IInv, NEW img, NEW slots, NEW at, NEW t, TypedHere(img, slots, at, t),
         PushConst \/ PushBool \/ Load
  PROVE  Typed(slots, at)'
<1> USE DEF HeapUnchanged
<1>1. CASE PushConst
  <2> DEFINE v == constants[Operand + 1]
  <2>1. At({OP_PUSH, OP_PUSH_STRING})
    BY <1>1 DEF PushConst
  <2>2. Op \in {OP_PUSH, OP_PUSH_STRING} /\ Op \in Opcodes /\ pc \in Nat
        /\ pc + OperandBytes(Op) < Len(code) /\ ~(Operand >= Len(constants))
    BY <2>1, Fetched, NoFault
  <2>3. Operand \in Nat
    BY <2>2, OperandType DEF WithOperand
  <2>4. /\ img \in Images /\ constants = img.constants
        /\ \A c \in Range(img.constants) : c.member = MemberOf(c.type)
    BY DEF TypedHere, Loaded, Verified
  <2>5. constants \in Seq(Pointing(img.strs, <<>>)) /\ Len(constants) \in Nat
    BY <2>4, ImagesAssumption, LenProperties
  <2>6. Operand + 1 \in 1 .. Len(constants) /\ DOMAIN constants = 1 .. Len(constants)
    BY <2>2, <2>3, <2>5, LenProperties
  <2>7. v \in Pointing(img.strs, <<>>) /\ v \in Range(img.constants)
    BY <2>4, <2>5, <2>6, ElementOfSeq DEF Range
  <2>8. v \in StackValue /\ ~IsArray(v)
    BY <2>7 DEF Pointing, Located
  <2>9. SoundIn(v, arrs)
    BY <2>4, <2>7, <2>8 DEF SoundIn
  <2>10. Makes(img, slots, Op, Operand, t) = <<v.type>>
    BY <2>2, <2>4, MakesOf
  <2>11. Push(v) /\ Proceed /\ UNCHANGED <<arrs, locals>>
    BY <1>1 DEF PushConst
  <2>12. Op # OP_JMP
    BY <2>2 DEF OP_PUSH, OP_PUSH_STRING, OP_JMP
  <2> HIDE DEF v
  <2> QED
    BY <2>8, <2>9, <2>10, <2>11, <2>12, PushTyped
<1>2. CASE PushBool
  <2> DEFINE v == BoolValue(Op = OP_PUSH_TRUE)
  <2>1. At({OP_PUSH_TRUE, OP_PUSH_FALSE})
    BY <1>2 DEF PushBool
  <2>2. Op \in {OP_PUSH_TRUE, OP_PUSH_FALSE} /\ Op \in Opcodes
    BY <2>1, Fetched
  <2>3. v \in StackValue /\ v.type = bool_type
    BY PlainGood, GoodIsTyped DEF BoolValue
  <2>4. SoundIn(v, arrs)
    BY PlainSound
  <2>5. Makes(img, slots, Op, Operand, t) = <<v.type>>
    BY <2>2, <2>3, MakesOf
  <2>6. Push(v) /\ Proceed /\ UNCHANGED <<arrs, locals>>
    BY <1>2 DEF PushBool
  <2>7. Op # OP_JMP
    BY <2>2 DEF OP_PUSH_TRUE, OP_PUSH_FALSE, OP_JMP
  <2> HIDE DEF v
  <2> QED
    BY <2>3, <2>4, <2>5, <2>6, <2>7, PushTyped
<1>3. CASE Load
  <2> DEFINE v == locals[Slot]
  <2>1. At(Loads)
    BY <1>3 DEF Load
  <2>2. Op \in Loads /\ Op \in Opcodes /\ pc \in Nat /\ v.member # "none"
        /\ pc + OperandBytes(Op) < Len(code) /\ ValidSlot
    BY <2>1, Fetched, NoFault DEF Slotted
  <2>3. Operand \in Nat
    BY <2>2, OperandType DEF WithOperand
  <2>4. Slot \in DOMAIN locals /\ v \in Good
    BY <2>2, <2>3, LenProperties, ElementOfSeq DEF IInv, Slot, ValidSlot
  <2>5. v \in StackValue
    BY <2>4, GoodIsTyped
  <2>6. SoundIn(v, arrs) /\ v.type = slots[Slot]
    BY <2>2, <2>4 DEF TypedHere, Typed, LocalsHold
  <2>7. Makes(img, slots, Op, Operand, t) = <<v.type>>
    BY <2>2, <2>6, MakesOf DEF Slot
  <2>8. Push(v) /\ Proceed /\ UNCHANGED <<arrs, locals>>
    BY <1>3 DEF Load
  <2>9. Op # OP_JMP
    BY <2>2 DEF Loads, OP_ILOAD, OP_BLOAD, OP_SLOAD, OP_ARRLOAD, OP_JMP
  <2> HIDE DEF v
  <2> QED
    BY <2>5, <2>6, <2>7, <2>8, <2>9, PushTyped
<1> QED
  BY <1>1, <1>2, <1>3

(* The arithmetic, the comparisons, OP_INEG and OP_NOT.                    *)
LEMMA ComputesTyped ==
  ASSUME IInv, NEW img, NEW slots, NEW at, NEW t, TypedHere(img, slots, at, t),
         IntOp \/ Compare \/ Negate \/ Not
  PROVE  Typed(slots, at)'
<1>1. PICK v \in StackValue :
        /\ Push(v) /\ Proceed /\ UNCHANGED <<arrs, locals>> /\ SoundIn(v, arrs)
        /\ Op \in Opcodes /\ Op # OP_JMP
        /\ Makes(img, slots, Op, Operand, t) = <<v.type>>
  <2>1. CASE IntOp
    <3> DEFINE v == IntValue(Arith(Op, Popped(2).val, Popped(1).val))
    <3>1. At(IntArith) /\ Push(v) /\ Proceed /\ UNCHANGED <<arrs, locals>>
      BY <2>1 DEF IntOp, HeapUnchanged
    <3>2. Op \in IntArith /\ Op \in Opcodes /\ ~(Len(stack) < Arity)
          /\ (Op \in {OP_IDIV, OP_IMOD, OP_IDIVSTORE} => Popped(1).val # 0)
      BY <3>1, Fetched, NoFault DEF Divisor
    <3>3. Arity = 2
      BY <3>2, ArityOf
    <3>4. Popped(1).val \in Int /\ Popped(2).val \in Int
      BY <3>2, <3>3, Operands
    <3>5. v \in StackValue /\ v.type = int_type /\ SoundIn(v, arrs)
      BY <3>2, <3>4, ArithInt, PlainGood, GoodIsTyped, PlainSound DEF IntValue
    <3>6. Makes(img, slots, Op, Operand, t) = <<v.type>> /\ Op # OP_JMP
      BY <3>2, <3>5, MakesOf DEF IntArith, OP_IADD, OP_ISUB, OP_IMUL, OP_IDIV, OP_IMOD, OP_JMP
    <3> HIDE DEF v
    <3> QED
      BY <3>1, <3>2, <3>5, <3>6
  <2>2. CASE Compare
    <3> DEFINE v == BoolValue(Test(Op, Popped(2).val, Popped(1).val))
    <3>1. At(IntTest \cup BoolTest) /\ Push(v) /\ Proceed /\ UNCHANGED <<arrs, locals>>
      BY <2>2 DEF Compare, HeapUnchanged
    <3>2. Op \in IntTest \cup BoolTest /\ Op \in Opcodes
      BY <3>1, Fetched
    <3>3. v \in StackValue /\ v.type = bool_type /\ SoundIn(v, arrs)
      <4>1. v \in {BoolValue(TRUE), BoolValue(FALSE)} /\ v.type = bool_type
        BY DEF BoolValue
      <4> QED
        BY <4>1, PlainGood, GoodIsTyped, PlainSound
    <3>4. Makes(img, slots, Op, Operand, t) = <<v.type>>
      BY <3>2, <3>3, MakesOf
    <3>5. Op # OP_JMP
      BY <3>2 DEF IntTest, BoolTest, OP_IGT, OP_IGTE, OP_ILT, OP_ILTE, OP_IEQ, OP_INEQ,
                  OP_BEQ, OP_BNEQ, OP_JMP
    <3> HIDE DEF v
    <3> QED
      BY <3>1, <3>2, <3>3, <3>4, <3>5
  <2>3. CASE Negate
    <3> DEFINE v == IntValue(Wrap(-Popped(1).val))
    <3>1. At({OP_INEG}) /\ Push(v) /\ Proceed /\ UNCHANGED <<arrs, locals>>
      BY <2>3 DEF Negate, HeapUnchanged
    <3>2. Op = OP_INEG /\ Op \in Opcodes /\ ~(Len(stack) < Arity)
      BY <3>1, Fetched
    <3>3. Arity = 1
      BY <3>2, ArityOf
    <3>4. -Popped(1).val \in Int
      BY <3>2, <3>3, Operands
    <3>5. Wrap(-Popped(1).val) \in Int
      <4> DEFINE n == -Popped(1).val
      <4>1. n \in Int
        BY <3>4
      <4> HIDE DEF n
      <4>2. Wrap(n) \in Int
        BY <4>1, WrapInt
      <4> QED
        BY <4>2 DEF n
    <3>6. v \in StackValue /\ v.type = int_type /\ SoundIn(v, arrs)
      BY <3>5, PlainGood, GoodIsTyped, PlainSound DEF IntValue
    <3>7. Makes(img, slots, Op, Operand, t) = <<v.type>> /\ Op # OP_JMP
      BY <3>2, <3>6, MakesOf DEF OP_INEG, OP_JMP
    <3> HIDE DEF v
    <3> QED
      BY <3>1, <3>2, <3>6, <3>7
  <2>4. CASE Not
    <3> DEFINE v == BoolValue(Popped(1).val = 0)
    <3>1. At({OP_NOT}) /\ Push(v) /\ Proceed /\ UNCHANGED <<arrs, locals>>
      BY <2>4 DEF Not, HeapUnchanged
    <3>2. Op = OP_NOT /\ Op \in Opcodes
      BY <3>1, Fetched
    <3>3. v \in StackValue /\ v.type = bool_type /\ SoundIn(v, arrs)
      BY PlainGood, GoodIsTyped, PlainSound DEF BoolValue
    <3>4. Makes(img, slots, Op, Operand, t) = <<v.type>> /\ Op # OP_JMP
      BY <3>2, <3>3, MakesOf DEF OP_NOT, OP_JMP
    <3> HIDE DEF v
    <3> QED
      BY <3>1, <3>2, <3>3, <3>4
  <2> QED
    BY <2>1, <2>2, <2>3, <2>4
<1> QED
  BY <1>1, PushTyped

(* The stores, the compound stores and the jumps.                          *)
LEMMA StoresTyped ==
  ASSUME IInv, NEW img, NEW slots, NEW at, NEW t, TypedHere(img, slots, at, t),
         CompoundStore \/ Store \/ Jump
  PROVE  Typed(slots, at)'
<1>1. arrs' = arrs /\ Replace(<<>>, <<>>)
  BY DEF CompoundStore, Store, Jump, HeapUnchanged
<1>2. KeepsElements(arrs, arrs') /\ \A a \in DOMAIN arrs' : CellSound(arrs'[a], arrs')
  BY <1>1 DEF TypedHere, Typed, KeepsElements
<1>3. CASE CompoundStore
  <2>1. At(Compound) /\ Proceed
    BY <1>3 DEF CompoundStore
  <2>2. Op \in Compound /\ Op \in Opcodes /\ pc \in Nat /\ locals[Slot].member # "none"
        /\ pc + OperandBytes(Op) < Len(code) /\ ValidSlot
    BY <2>1, Fetched, NoFault DEF Slotted
  <2>3. Operand \in Nat
    BY <2>2, OperandType DEF WithOperand
  <2>4. Slot \in DOMAIN locals /\ locals[Slot] \in StackValue
    BY <2>2, <2>3, LenProperties, ElementOfSeq, GoodIsTyped DEF IInv, Slot, ValidSlot
  <2>5. SoundIn(locals[Slot], arrs) /\ locals[Slot].type = int_type
    BY <2>2, <2>4 DEF TypedHere, Typed, LocalsHold, FitsHere
  <2> DEFINE v == [locals[Slot] EXCEPT !.val = Arith(Op, locals[Slot].val, Popped(1).val)]
  <2>6. v.type = locals[Slot].type /\ v.member = locals[Slot].member
    BY <2>4 DEF StackValue
  <2>7. ~IsArray(v)
    BY <2>5, <2>6 DEF IsArray, int_type, Scalar
  <2>8. SoundIn(v, arrs)
    BY <2>5, <2>6, <2>7 DEF SoundIn
  <2>9. locals' = [locals EXCEPT ![Slot] = v]
    BY <1>3 DEF CompoundStore
  <2> HIDE DEF v
  <2>10. \A i \in DOMAIN locals' : SoundIn(locals'[i], arrs')
    BY <1>1, <2>8, <2>9 DEF TypedHere, Typed
  <2>11. LocalsHold(slots)'
    BY <2>4, <2>6, <2>9 DEF TypedHere, Typed, LocalsHold
  <2>12. Makes(img, slots, Op, Operand, t) = <<>>
    BY <2>2, MakesOf
  <2>13. pc' = Following /\ Op # OP_JMP
    BY <2>1, <2>2 DEF Proceed, Compound, OP_IADDSTORE, OP_ISUBSTORE, OP_IMULSTORE, OP_IDIVSTORE, OP_JMP
  <2> QED
    BY <1>1, <1>2, <2>10, <2>11, <2>12, <2>13, PopTyped
<1>4. CASE Store
  <2>1. At(Stores) /\ Proceed /\ locals' = [locals EXCEPT ![Slot] = Popped(1)]
    BY <1>4 DEF Store
  <2>2. Op \in Stores /\ Op \in Opcodes
    BY <2>1, Fetched
  <2>3. Arity = 1
    BY <2>2, ArityOf
  <2>4. Takes(slots, Op, Operand, t) = <<slots[Operand + 1]>>
    BY <2>2, TakesOf
  <2>5. Popped(1).type = slots[Slot] /\ SoundIn(Popped(1), arrs)
    BY <2>3, <2>4, OperandsTyped DEF TypedHere, Slot
  <2>6. \A i \in DOMAIN locals' : SoundIn(locals'[i], arrs')
    BY <1>1, <2>1, <2>5 DEF TypedHere, Typed
  <2>7. LocalsHold(slots)'
    BY <2>1, <2>5 DEF TypedHere, Typed, LocalsHold
  <2>8. Makes(img, slots, Op, Operand, t) = <<>>
    BY <2>2, MakesOf
  <2>9. pc' = Following /\ Op # OP_JMP
    BY <2>1, <2>2 DEF Proceed, Stores, OP_ISTORE, OP_BSTORE, OP_SSTORE, OP_ARRSTORE, OP_JMP
  <2> QED
    BY <1>1, <1>2, <2>6, <2>7, <2>8, <2>9, PopTyped
<1>5. CASE Jump
  <2>1. At({OP_JMP} \cup CondJumps) /\ locals' = locals
        /\ pc' = IF Jumps(Op) THEN Following + Steps ELSE Following
    BY <1>5 DEF Jump
  <2>2. Op \in {OP_JMP} \cup CondJumps /\ Op \in Opcodes
    BY <2>1, Fetched
  <2>3. Op = OP_JMP => Jumps(Op)
    BY DEF Jumps, OP_JMP, OP_JMPN, OP_JMPT
  <2>4. \/ pc' = Following /\ Op # OP_JMP
        \/ pc' = Following + Steps /\ Op \in JumpCodes
    BY <2>1, <2>2, <2>3 DEF JumpCodes
  <2>5. Makes(img, slots, Op, Operand, t) = <<>>
    BY <2>2, MakesOf
  <2>6. (\A i \in DOMAIN locals' : SoundIn(locals'[i], arrs')) /\ LocalsHold(slots)'
    BY <1>1, <2>1, NothingElse DEF TypedHere
  <2> QED
    BY <1>1, <1>2, <2>4, <2>5, <2>6, PopTyped
<1> QED
  BY <1>3, <1>4, <1>5

(* OP_SCONCAT and OP_ARRLOADIDX.                                           *)
LEMMA ReadsTyped ==
  ASSUME IInv, NEW img, NEW slots, NEW at, NEW t, TypedHere(img, slots, at, t),
         Concat \/ ArrLoadIdx
  PROVE  Typed(slots, at)'
<1>1. CASE Concat
  <2> DEFINE v == StringRef(Len(strs) + 1)
             pushed == <<v>>
  <2>1. /\ At({OP_SCONCAT}) /\ Proceed /\ UNCHANGED <<arrs, locals>>
        /\ Replace(<<v>>, Work("drop", <<Popped(2), Popped(1)>>))
    BY <1>1 DEF Concat
  <2>2. Op = OP_SCONCAT /\ Op \in Opcodes
    BY <2>1, Fetched
  <2>3. v \in StackValue /\ v.type = string_type /\ SoundIn(v, arrs)
    <3>1. Len(strs) \in Nat
      BY LenProperties DEF IInv
    <3>2. v \in StackValue
      BY <3>1 DEF StringRef, StackValue, Member, VarType, BaseType, string_type, Scalar
    <3> QED
      BY <3>2, PlainSound DEF StringRef
  <2>4. Makes(img, slots, Op, Operand, t) = <<v.type>> /\ Op # OP_JMP
    BY <2>2, <2>3, MakesOf DEF OP_SCONCAT, OP_JMP
  <2> HIDE DEF v
  <2>5. /\ pushed \in Seq(StackValue) /\ Len(pushed) <= 1
        /\ Makes(img, slots, Op, Operand, t) = [i \in 1 .. Len(pushed) |-> pushed[i].type]
        /\ \A i \in DOMAIN pushed : SoundIn(pushed[i], arrs')
    BY <2>1, <2>3, <2>4
  <2>6. stack' = Rest \o pushed /\ pc' = Following
    BY <2>1 DEF Replace, Proceed
  <2>7. /\ KeepsElements(arrs, arrs') /\ \A a \in DOMAIN arrs' : CellSound(arrs'[a], arrs')
        /\ \A i \in DOMAIN locals' : SoundIn(locals'[i], arrs')
        /\ LocalsHold(slots)'
    BY <2>1, NothingElse DEF TypedHere
  <2> HIDE DEF pushed
  <2> QED
    BY <2>4, <2>5, <2>6, <2>7, StepTyped
<1>2. CASE ArrLoadIdx
  <2> DEFINE vals == arrs[TheArray].arr_val
             v    == vals[Index + 1]
  <2>1. At({OP_ARRLOADIDX}) /\ Push(v) /\ Proceed /\ UNCHANGED <<arrs, locals>>
    BY <1>2 DEF ArrLoadIdx, HeapUnchanged
  <2>2. Op = OP_ARRLOADIDX /\ Op \in Opcodes
    BY <2>1, Fetched
  <2>3. TheArray \in DOMAIN arrs /\ Index \in 0 .. Len(vals) - 1
    BY <2>1, <2>2, ArrayOperand DEF Indexing
  <2>4. vals \in Seq(Good) /\ Len(vals) \in Nat /\ DOMAIN vals = 1 .. Len(vals)
    BY <2>3, LenProperties DEF IInv
  <2>5. Index + 1 \in DOMAIN vals
    BY <2>3, <2>4
  <2>6. v \in StackValue
    BY <2>4, <2>5, ElementOfSeq, GoodIsTyped
  <2>7. SoundIn(v, arrs) /\ v.type = vals[1].type
    BY <2>3, <2>5 DEF TypedHere, Typed, CellSound
  <2>8. Arity = 2 /\ ArrayAt = 1
    BY <2>2, ArityOf DEF ArrayAt
  <2>9. Takes(slots, Op, Operand, t) = <<ArrayOf(t), int_type>>
    BY <2>2, TakesOf
  <2>10. Popped(1).type = ArrayOf(t) /\ SoundIn(Popped(1), arrs)
    BY <2>8, <2>9, OperandsTyped DEF TypedHere
  <2>11. IsArray(Popped(1)) /\ ElementOf(Popped(1).type) = t
    BY <2>10, TypesAreTypes DEF TypedHere, FitsHere, IsArray, IsArrayType
  <2>12. vals[1].type = t
    BY <2>8, <2>10, <2>11 DEF SoundIn, TheArray
  <2>13. Makes(img, slots, Op, Operand, t) = <<v.type>> /\ Op # OP_JMP
    BY <2>2, <2>7, <2>12, MakesOf DEF OP_ARRLOADIDX, OP_JMP
  <2> HIDE DEF v, vals
  <2> QED
    BY <2>1, <2>6, <2>7, <2>13, PushTyped
<1> QED
  BY <1>1, <1>2

-----------------------------------------------------------------------------
(* Arrays written to and made.                                             *)

(* A cell whose elements become those of cell, of the type they were of.   *)
LEMMA CellTyped ==
  ASSUME IInv, NEW slots, NEW at, Typed(slots, at),
         NEW a \in DOMAIN arrs, NEW cell, arrs' = [arrs EXCEPT ![a] = cell],
         cell.arr_val \in Seq(Good), Len(cell.arr_val) >= Len(arrs[a].arr_val),
         \A i \in DOMAIN cell.arr_val :
           /\ SoundIn(cell.arr_val[i], arrs)
           /\ cell.arr_val[i].type = arrs[a].arr_val[1].type,
         UNCHANGED locals
  PROVE  /\ KeepsElements(arrs, arrs') /\ \A b \in DOMAIN arrs' : CellSound(arrs'[b], arrs')
         /\ \A i \in DOMAIN locals' : SoundIn(locals'[i], arrs')
         /\ LocalsHold(slots)'
<1>1. CellSound(arrs[a], arrs) /\ arrs[a].arr_val \in Seq(Good)
  BY DEF Typed, IInv
<1>2. cell.arr_val # <<>> /\ 1 \in DOMAIN cell.arr_val
  <2>1. Len(arrs[a].arr_val) \in Nat /\ Len(arrs[a].arr_val) # 0
    BY <1>1, EmptySeq, LenProperties DEF CellSound
  <2>2. Len(cell.arr_val) \in Nat /\ DOMAIN cell.arr_val = 1 .. Len(cell.arr_val)
    BY LenProperties
  <2>3. Len(cell.arr_val) >= 1
    BY <2>1, <2>2
  <2> QED
    BY <2>2, <2>3
<1>3. DOMAIN arrs' = DOMAIN arrs /\ arrs'[a] = cell
      /\ \A b \in DOMAIN arrs \ {a} : arrs'[b] = arrs[b]
  OBVIOUS
<1>4. KeepsElements(arrs, arrs')
  BY <1>2, <1>3 DEF KeepsElements
<1>5. \A i \in DOMAIN cell.arr_val : SoundIn(cell.arr_val[i], arrs')
  BY <1>4, SoundAllKept DEF Good
<1>6. CellSound(arrs'[a], arrs')
  BY <1>2, <1>3, <1>5 DEF CellSound
<1>7. \A b \in DOMAIN arrs \ {a} : CellSound(arrs'[b], arrs')
  <2> SUFFICES ASSUME NEW b \in DOMAIN arrs \ {a}
               PROVE  CellSound(arrs[b], arrs')
    BY <1>3
  <2>1. CellSound(arrs[b], arrs) /\ arrs[b].arr_val \in Seq(Good)
    BY DEF Typed, IInv
  <2>2. \A i \in DOMAIN arrs[b].arr_val : SoundIn(arrs[b].arr_val[i], arrs')
    BY <1>4, <2>1, SoundAllKept DEF Good, CellSound
  <2> QED
    BY <2>1, <2>2 DEF CellSound
<1>8. \A i \in DOMAIN locals : SoundIn(locals[i], arrs')
  BY <1>4, SoundAllKept DEF Good, Typed, IInv
<1>9. LocalsHold(slots)'
  BY DEF Typed, LocalsHold
<1> QED
  BY <1>3, <1>4, <1>6, <1>7, <1>8, <1>9

(* The operands of OP_ARRSTOREIDX and OP_ARRAPPEND: an array, and a value  *)
(* of the type of its elements.                                            *)
LEMMA ElementFits ==
  ASSUME IInv, NEW img, NEW slots, NEW at, NEW t, TypedHere(img, slots, at, t),
         Op \in {OP_ARRSTOREIDX, OP_ARRAPPEND}, Op \in Opcodes
  PROVE  /\ SoundIn(Popped(1), arrs) /\ Popped(1) \in Good
         /\ SoundIn(Popped(2), arrs) /\ Popped(2) \in Good
         /\ Popped(2).type = ArrayOf(t)
         /\ Popped(1).type = t /\ arrs[TheArray].arr_val[1].type = t
<1>1. Arity \in {2, 3} /\ ArrayAt = 2
  BY ArityOf DEF ArrayAt, OP_ARRSTOREIDX, OP_ARRAPPEND, OP_ARRLOADIDX
<1>2. Takes(slots, Op, Operand, t)[1] = t /\ Takes(slots, Op, Operand, t)[2] = ArrayOf(t)
  BY TakesOf
<1>3. /\ \A i \in 1 .. 2 : SoundIn(Popped(i), arrs) /\ Popped(i) \in Good
      /\ Popped(1).type = t /\ Popped(2).type = ArrayOf(t)
  BY <1>1, <1>2, OperandsTyped DEF TypedHere
<1>4. IsArray(Popped(2)) /\ ElementOf(Popped(2).type) = t
  BY <1>3, TypesAreTypes DEF TypedHere, FitsHere, IsArray, IsArrayType
<1>5. arrs[TheArray].arr_val[1].type = t
  BY <1>1, <1>3, <1>4 DEF SoundIn, TheArray
<1> QED
  BY <1>3, <1>5

(* OP_ARRSTOREIDX and OP_ARRAPPEND.                                        *)
LEMMA WritesTyped ==
  ASSUME IInv, NEW img, NEW slots, NEW at, NEW t, TypedHere(img, slots, at, t),
         ArrStoreIdx \/ ArrAppend
  PROVE  Typed(slots, at)'
<1> DEFINE old == arrs[TheArray]
<1>1. CASE ArrStoreIdx
  <2> DEFINE vals == [old.arr_val EXCEPT ![Index + 1] = Popped(1)]
             cell == [old EXCEPT !.arr_val = vals]
  <2>1. /\ At({OP_ARRSTOREIDX}) /\ Proceed /\ Replace(<<>>, <<>>) /\ locals' = locals
        /\ arrs' = [arrs EXCEPT ![TheArray] = cell]
    BY <1>1 DEF ArrStoreIdx
  <2>2. Op = OP_ARRSTOREIDX /\ Op \in Opcodes
    BY <2>1, Fetched
  <2>3. TheArray \in DOMAIN arrs /\ Index \in 0 .. Len(old.arr_val) - 1
    BY <2>1, <2>2, ArrayOperand DEF Indexing
  <2>4. SoundIn(Popped(1), arrs) /\ Popped(1) \in Good /\ Popped(1).type = old.arr_val[1].type
    BY <2>2, ElementFits
  <2>5. CellSound(old, arrs) /\ old.arr_val \in Seq(Good) /\ old \in ArrayValue
    BY <2>3, LenProperties, ElementOfSeq DEF TypedHere, Typed, IInv
  <2> HIDE DEF old
  <2>6. /\ vals \in Seq(Good) /\ Len(vals) = Len(old.arr_val) /\ Len(vals) \in Nat
        /\ DOMAIN vals = DOMAIN old.arr_val
        /\ \A i \in DOMAIN vals : vals[i] = Popped(1) \/ vals[i] = old.arr_val[i]
    <3>1. Index + 1 \in 1 .. Len(old.arr_val) /\ Len(old.arr_val) \in Nat
      BY <2>3, <2>5, LenProperties
    <3> QED
      BY <2>4, <2>5, <3>1, ExceptSeq
  <2>7. cell.arr_val = vals
    BY <2>5 DEF ArrayValue
  <2>8. \A i \in DOMAIN vals : SoundIn(vals[i], arrs) /\ vals[i].type = old.arr_val[1].type
    BY <2>4, <2>5, <2>6 DEF CellSound
  <2> HIDE DEF vals, cell
  <2>9. Typed(slots, at) /\ Len(cell.arr_val) >= Len(old.arr_val)
    BY <2>6, <2>7 DEF TypedHere
  <2>10. /\ KeepsElements(arrs, arrs') /\ \A b \in DOMAIN arrs' : CellSound(arrs'[b], arrs')
         /\ \A i \in DOMAIN locals' : SoundIn(locals'[i], arrs')
         /\ LocalsHold(slots)'
    BY <2>1, <2>3, <2>6, <2>7, <2>8, <2>9, CellTyped DEF old
  <2>11. Makes(img, slots, Op, Operand, t) = <<>>
    BY <2>2, MakesOf
  <2>12. pc' = Following /\ Op # OP_JMP
    BY <2>1, <2>2 DEF Proceed, OP_ARRSTOREIDX, OP_JMP
  <2> QED
    BY <2>1, <2>10, <2>11, <2>12, PopTyped
<1>2. CASE ArrAppend
  <2> DEFINE vals == Append(old.arr_val, Popped(1))
             cell == Grown(old, Popped(1))
             pushed == <<Popped(2)>>
  <2>1. /\ At({OP_ARRAPPEND}) /\ Proceed /\ Replace(pushed, <<>>) /\ locals' = locals
        /\ arrs' = [arrs EXCEPT ![TheArray] = cell]
    BY <1>2 DEF ArrAppend, Push
  <2>2. Op = OP_ARRAPPEND /\ Op \in Opcodes
    BY <2>1, Fetched
  <2>3. TheArray \in DOMAIN arrs
    BY <2>1, <2>2, ArrayOperand
  <2>4. /\ SoundIn(Popped(1), arrs) /\ Popped(1) \in Good /\ Popped(1).type = old.arr_val[1].type
        /\ SoundIn(Popped(2), arrs) /\ Popped(2) \in Good /\ Popped(2).type = ArrayOf(t)
    BY <2>2, ElementFits
  <2>5. CellSound(old, arrs) /\ old.arr_val \in Seq(Good) /\ old \in ArrayValue
    BY <2>3, LenProperties, ElementOfSeq DEF TypedHere, Typed, IInv
  <2> HIDE DEF old
  <2>6. /\ vals \in Seq(Good) /\ Len(vals) >= Len(old.arr_val)
        /\ \A i \in DOMAIN vals : vals[i] = Popped(1)
                                    \/ (i \in DOMAIN old.arr_val /\ vals[i] = old.arr_val[i])
    BY <2>4, <2>5, AppendProperties, LenProperties
  <2>7. cell.arr_val = vals
    BY <2>5 DEF ArrayValue, Grown
  <2>8. \A i \in DOMAIN vals : SoundIn(vals[i], arrs) /\ vals[i].type = old.arr_val[1].type
    BY <2>4, <2>5, <2>6 DEF CellSound
  <2> HIDE DEF vals, cell, pushed
  <2>9. Typed(slots, at)
    BY DEF TypedHere
  <2>10. /\ KeepsElements(arrs, arrs') /\ \A b \in DOMAIN arrs' : CellSound(arrs'[b], arrs')
         /\ \A i \in DOMAIN locals' : SoundIn(locals'[i], arrs')
         /\ LocalsHold(slots)'
    BY <2>1, <2>3, <2>6, <2>7, <2>8, <2>9, CellTyped DEF old
  <2>11. SoundIn(Popped(2), arrs') /\ Popped(2) \in StackValue
    <3>1. IsArray(Popped(2)) => Popped(2).val \in DOMAIN arrs
      BY <2>4 DEF Good, Pointing, Located
    <3> QED
      BY <2>4, <2>10, <3>1, SoundKept, GoodIsTyped
  <2>12. Makes(img, slots, Op, Operand, t) = <<Popped(2).type>> /\ Op # OP_JMP
    BY <2>2, <2>4, MakesOf DEF OP_ARRAPPEND, OP_JMP
  <2>13. /\ pushed \in Seq(StackValue) /\ Len(pushed) <= 1
         /\ Makes(img, slots, Op, Operand, t) = [i \in 1 .. Len(pushed) |-> pushed[i].type]
         /\ \A i \in DOMAIN pushed : SoundIn(pushed[i], arrs')
    BY <2>11, <2>12 DEF pushed
  <2>14. stack' = Rest \o pushed /\ pc' = Following
    BY <2>1 DEF Replace, Proceed
  <2> QED
    BY <2>10, <2>12, <2>13, <2>14, StepTyped
<1> QED
  BY <1>1, <1>2

(* OP_PUSH_ARRAY makes a pointer to an array of values of one type.        *)
LEMMA PushArrayTyped ==
  ASSUME IInv, NEW img, NEW slots, NEW at, NEW t, TypedHere(img, slots, at, t), PushArray
  PROVE  Typed(slots, at)'
<1> DEFINE n     == Operand
           elems == SubSeq(stack, Len(stack) - n + 1, Len(stack))
           cell  == NewArray(elems)
           v     == ArrayRef(ArrayOf(t), Len(arrs) + 1)
           pushed == <<v>>
<1>1. At({OP_PUSH_ARRAY}) /\ Proceed /\ locals' = locals /\ arrs' = Append(arrs, cell)
  BY DEF PushArray
<1>2. Op = OP_PUSH_ARRAY /\ Op \in Opcodes /\ pc \in Nat /\ pc + OperandBytes(Op) < Len(code)
  BY <1>1, Fetched
<1>3. n \in Nat /\ n > 0
  BY <1>2, OperandType DEF WithOperand, TypedHere, FitsHere
<1>4. Arity = n /\ Takes(slots, Op, Operand, t) = [i \in 1 .. n |-> t]
  BY <1>2, <1>3, ArityOf, TakesOf
<1> HIDE DEF n
<1>5. n <= Len(stack) /\ \A i \in 1 .. n : Popped(i).type = t /\ SoundIn(Popped(i), arrs)
  BY <1>4, OperandsTyped DEF TypedHere
<1>6. Replace(pushed, <<>>)
  <2>1. Popped(n).type = t
    BY <1>3, <1>5
  <2> QED
    BY <1>3, <2>1 DEF PushArray, Push, n
<1>7. stack \in Seq(Good) /\ Len(stack) \in Nat /\ arrs \in Seq(ArrayValue) /\ Len(arrs) \in Nat
      /\ DOMAIN arrs = 1 .. Len(arrs)
  BY LenProperties DEF IInv
<1>8. elems \in Seq(Good) /\ Len(elems) = n /\ DOMAIN elems = 1 .. n
      /\ \A i \in 1 .. n : elems[i] = Popped(n + 1 - i)
  <2>1. elems \in Seq(Good) /\ Len(elems) = n
    BY <1>3, <1>5, <1>7, SubSeqProperties
  <2>2. \A i \in 1 .. n : elems[i] = stack[Len(stack) - n + i]
    BY <1>3, <1>5, <1>7, SubSeqProperties
  <2>3. \A i \in 1 .. n : Len(stack) + 1 - (n + 1 - i) = Len(stack) - n + i
    BY <1>3, <1>7
  <2> HIDE DEF elems
  <2> QED
    BY <2>1, <2>2, <2>3, LenProperties DEF Popped
<1> HIDE DEF elems
<1>9. \A i \in DOMAIN elems : SoundIn(elems[i], arrs) /\ elems[i].type = t
  <2>1. \A i \in 1 .. n : n + 1 - i \in 1 .. n
    BY <1>3
  <2> QED
    BY <1>5, <1>8, <2>1
<1>10. cell.arr_val = elems
  BY DEF NewArray
<1> HIDE DEF cell
<1>11. /\ DOMAIN arrs' = 1 .. Len(arrs) + 1 /\ arrs'[Len(arrs) + 1] = cell
       /\ \A a \in DOMAIN arrs : a \in DOMAIN arrs' /\ arrs'[a] = arrs[a]
       /\ \A a \in DOMAIN arrs' : a \in DOMAIN arrs \/ a = Len(arrs) + 1
  BY <1>1, <1>7, AppendProperties
<1>12. KeepsElements(arrs, arrs')
  BY <1>11 DEF KeepsElements
<1>13. elems # <<>> /\ elems[1].type = t
  BY <1>3, <1>8, <1>9
<1>14. CellSound(cell, arrs')
  <2>1. \A i \in DOMAIN elems : SoundIn(elems[i], arrs')
    BY <1>8, <1>9, <1>12, SoundAllKept DEF Good
  <2> QED
    BY <1>9, <1>10, <1>13, <2>1 DEF CellSound
<1>15. \A a \in DOMAIN arrs : CellSound(arrs[a], arrs')
  <2> SUFFICES ASSUME NEW a \in DOMAIN arrs
               PROVE  CellSound(arrs[a], arrs')
    OBVIOUS
  <2>1. CellSound(arrs[a], arrs) /\ arrs[a].arr_val \in Seq(Good)
    BY DEF TypedHere, Typed, IInv
  <2>2. \A i \in DOMAIN arrs[a].arr_val : SoundIn(arrs[a].arr_val[i], arrs')
    BY <1>12, <2>1, SoundAllKept DEF Good, CellSound
  <2> QED
    BY <2>1, <2>2 DEF CellSound
<1>16. \A a \in DOMAIN arrs' : CellSound(arrs'[a], arrs')
  BY <1>11, <1>14, <1>15
<1>17. (\A i \in DOMAIN locals' : SoundIn(locals'[i], arrs')) /\ LocalsHold(slots)'
  <2>1. \A i \in DOMAIN locals : SoundIn(locals[i], arrs')
    BY <1>12, SoundAllKept DEF Good, TypedHere, Typed, IInv
  <2> QED
    BY <1>1, <2>1 DEF TypedHere, Typed, LocalsHold
<1>18. v \in StackValue /\ v.type = ArrayOf(t) /\ SoundIn(v, arrs')
  <2>1. t \in VarType /\ t.nested >= -1
    BY DEF TypedHere, FitsHere
  <2>2. ArrayOf(t) \in VarType /\ ElementOf(ArrayOf(t)) = t /\ MemberOf(ArrayOf(t)) = "array_val"
    BY <2>1, TypesAreTypes, MembersOfTypes
  <2>3. v.type = ArrayOf(t) /\ v.member = "array_val" /\ v.val = Len(arrs) + 1
    BY DEF ArrayRef
  <2>4. v \in StackValue
    BY <1>7, <2>2 DEF ArrayRef, StackValue, Member
  <2> HIDE DEF v
  <2> QED
    BY <1>10, <1>11, <1>13, <2>2, <2>3, <2>4 DEF SoundIn
<1>19. Makes(img, slots, Op, Operand, t) = <<ArrayOf(t)>>
  BY <1>2, MakesOf
<1> HIDE DEF v
<1>20. /\ pushed \in Seq(StackValue) /\ Len(pushed) <= 1
       /\ Makes(img, slots, Op, Operand, t) = [i \in 1 .. Len(pushed) |-> pushed[i].type]
       /\ \A i \in DOMAIN pushed : SoundIn(pushed[i], arrs')
  BY <1>18, <1>19
<1>21. stack' = Rest \o pushed /\ pc' = Following /\ Op # OP_JMP
  BY <1>1, <1>2, <1>6 DEF Replace, Proceed, OP_PUSH_ARRAY, OP_JMP
<1> HIDE DEF pushed
<1> QED
  BY <1>12, <1>16, <1>17, <1>20, <1>21, StepTyped

(* Every instruction.                                                      *)
LEMMA InstructionTyped ==
  ASSUME IInv, NEW img \in Images, NEW slots, NEW at,
         Loaded(img), Verified(img, slots, at), Typed(slots, at),
         JumpsLandOnInstructions, Instruction
  PROVE  Typed(slots, at)'
<1>1. Ready /\ InCode
  BY Zenon DEF Instruction, PushConst, PushBool, PushArray, IntOp, Compare, Negate, Not,
               CompoundStore, Load, Store, Jump, Concat, ArrLoadIdx, ArrStoreIdx, ArrAppend, At
<1>2. status = "running" /\ pc \in Starts(code) /\ pc < Len(code) /\ pc \in Nat
  BY <1>1 DEF Ready, InCode, JumpsLandOnInstructions, IInv
<1>3. Len(code) \in Nat /\ code = img.code
  BY LenProperties DEF IInv, Loaded
<1>4. PICK t : FitsHere(img, slots, at, t)
  BY <1>2, <1>3, VerifiedHere
<1>5. TypedHere(img, slots, at, t)
  BY <1>2, <1>4 DEF TypedHere
<1> QED
  BY <1>5, PushesTyped, ComputesTyped, StoresTyped, ReadsTyped, WritesTyped, PushArrayTyped
     DEF Instruction

-----------------------------------------------------------------------------
(* The other steps.                                                        *)

(* Counting changes no cell's elements.                                    *)
LEMMA CountTyped ==
  ASSUME IInv, NEW slots, NEW at, Typed(slots, at), Count
  PROVE  Typed(slots, at)'
<1>1. /\ UNCHANGED <<pc, stack, locals>> /\ Counting
      /\ status' = status \/ status' \in {"dangling string", "dangling array"}
  BY Zenon DEF Count, Skip, increment_ref, decrement_ref, increment_ref_arr,
               decrement_ref_arr, Dangle, Finish
<1>2. /\ DOMAIN arrs' = DOMAIN arrs
      /\ \A a \in DOMAIN arrs : arrs'[a].arr_val = arrs[a].arr_val
  <2>1. CASE increment_ref_arr
    <3>1. arrs' = [arrs EXCEPT ![Subject.val].ref_count = IF @ # 0 THEN @ + 1 ELSE @]
      BY <2>1 DEF increment_ref_arr
    <3>2. \A a \in DOMAIN arrs : arrs[a] \in ArrayValue
      BY LenProperties, ElementOfSeq DEF IInv
    <3> QED
      BY <3>1, <3>2 DEF ArrayValue
  <2>2. CASE decrement_ref_arr
    <3>1. arrs' = [arrs EXCEPT ![Subject.val] = Dropped(@)]
      BY <2>2 DEF decrement_ref_arr
    <3>2. \A a \in DOMAIN arrs : arrs[a] \in ArrayValue
      BY LenProperties, ElementOfSeq DEF IInv
    <3>3. \A c \in ArrayValue : Dropped(c).arr_val = c.arr_val
      BY DEF Dropped, ArrayValue
    <3> QED
      BY <3>1, <3>2, <3>3
  <2>3. CASE Skip \/ increment_ref \/ decrement_ref \/ Dangle
    BY <2>3 DEF Skip, increment_ref, decrement_ref, Dangle, HeapUnchanged
  <2> QED
    BY <2>1, <2>2, <2>3 DEF Count
<1>3. \A v : SoundIn(v, arrs) /\ (IsArray(v) => v.val \in DOMAIN arrs) => SoundIn(v, arrs')
  BY <1>2 DEF SoundIn
<1>4. KeepsElements(arrs, arrs')
  BY <1>2 DEF KeepsElements
<1>5. /\ \A i \in DOMAIN stack : SoundIn(stack[i], arrs')
      /\ \A i \in DOMAIN locals : SoundIn(locals[i], arrs')
  BY <1>4, SoundAllKept DEF Good, Typed, IInv
<1>6. \A a \in DOMAIN arrs' : CellSound(arrs'[a], arrs')
  <2> SUFFICES ASSUME NEW a \in DOMAIN arrs
               PROVE  CellSound(arrs'[a], arrs')
    BY <1>2
  <2>1. CellSound(arrs[a], arrs) /\ arrs[a].arr_val \in Seq(Good)
    BY DEF Typed, IInv
  <2>2. \A i \in DOMAIN arrs[a].arr_val : SoundIn(arrs[a].arr_val[i], arrs')
    BY <1>4, <2>1, SoundAllKept DEF Good, CellSound
  <2> QED
    BY <1>2, <2>1, <2>2 DEF CellSound
<1>7. LocalsHold(slots)' /\ (status' = "running" => TopOf(stack', at[pc']))
  BY <1>1 DEF Typed, LocalsHold
<1> QED
  BY <1>1, <1>5, <1>6, <1>7 DEF Typed

(* A program that stops, or whose machine is freed, holds what it held.    *)
LEMMA StopTyped ==
  ASSUME NEW slots, NEW at, Typed(slots, at), UNCHANGED <<pc, stack, locals, arrs>>,
         status' = "running" => status = "running"
  PROVE  Typed(slots, at)'
BY DEF Typed, LocalsHold

(* What vm_init starts with.                                               *)
LEMMA StartTyped ==
  ASSUME Fresh, DecodingInv, NEW img \in Images, vm_init(img),
         NEW slots, NEW at, Verified(img, slots, at)
  PROVE  Loaded(img)' /\ Typed(slots, at)'
<1>1. /\ status = "idle" /\ stack' = stack /\ arrs' = arrs /\ pc' = pc
      /\ code' = img.code /\ constants' = img.constants
      /\ locals' = [i \in 1 .. img.num_locals |-> Garbage]
  BY DEF vm_init
<1>2. stack' = <<>> /\ arrs' = <<>> /\ pc' = 0 /\ at[0] = <<>>
  BY <1>1 DEF Fresh, DecodingInv, Verified
<1>3. \A i \in DOMAIN locals' : locals'[i] = Garbage
  BY <1>1
<1>4. \A i \in DOMAIN locals' : SoundIn(locals'[i], arrs')
  BY <1>3, PlainSound
<1>5. LocalsHold(slots)'
  BY <1>3 DEF LocalsHold, Garbage
<1>6. TopOf(stack', at[pc'])
  BY <1>2 DEF TopOf
<1>7. Loaded(img)'
  BY <1>1 DEF Loaded
<1> QED
  BY <1>2, <1>4, <1>5, <1>6, <1>7 DEF Typed

(* Verified code stops for other reasons than these.                       *)
LEMMA AbortTyped ==
  ASSUME IInv, NEW img \in Images, NEW slots, NEW at,
         Loaded(img), Verified(img, slots, at), Typed(slots, at),
         JumpsLandOnInstructions, Abort
  PROVE  status' \notin {"wrong member", "stack underflow"} /\ status' # "running"
<1>1. Ready /\ status' \in Obstacles
  BY DEF Abort
<1>2. status = "running" /\ pc \in Starts(code) /\ pc < Len(code)
  BY <1>1 DEF Ready, JumpsLandOnInstructions
<1>3. /\ InCode /\ Op \in Opcodes /\ Fetchable
      /\ Op \in Slotted => ValidSlot
  BY <1>2, DecodedHere DEF Verified
<1>4. pc \in Nat /\ pc # Len(code) /\ code = img.code
  BY <1>2, <1>3, LenProperties DEF InCode, IInv, Loaded
<1>5. PICK t : FitsHere(img, slots, at, t)
  BY <1>2, <1>4, VerifiedHere
<1>6. Arity \in Nat /\ Arity <= Len(stack) /\ MembersMatch
  BY <1>2, <1>5, OperandsTyped
<1>7. ~(Len(stack) < Arity) /\ (Op \in Stores => ValidSlot)
  BY <1>3, <1>6, LenProperties DEF IInv, Slotted
<1>8. Obstacles = {c \in Faults : Fault(c)}
  BY <1>3, <1>7, Zenon DEF Obstacles
<1>9. ~Fault("wrong member")
  BY <1>6 DEF Fault
<1> QED
  BY <1>1, <1>8, <1>9 DEF Faults

LEMMA StepKeepsTypingInv ==
  ASSUME NEW declared, ImagesAreTyped(declared),
         IInv, Fresh, DecodingInv, TypingInv(declared), [Next]_vars
  PROVE  TypingInv(declared)'
<1>1. CASE \E img \in Images : vm_init(img)
  <2>1. PICK img \in Images : vm_init(img)
    BY <1>1
  <2>2. PICK at : Verified(img, declared[img], at)
    BY DEF ImagesAreTyped
  <2>3. Loaded(img)' /\ Typed(declared[img], at)'
    BY <2>1, <2>2, StartTyped
  <2>4. status' = "running"
    BY <2>1 DEF vm_init
  <2> QED
    BY <2>2, <2>3, <2>4 DEF TypingInv
<1>2. ASSUME status # "idle"
      PROVE  \/ TypingInv(declared)'
             \/ \E img \in Images : vm_init(img)
  <2>0. PICK img \in Images :
               \E at : Loaded(img) /\ Verified(img, declared[img], at) /\ Typed(declared[img], at)
    BY <1>2 DEF TypingInv
  <2>1. PICK at : Loaded(img) /\ Verified(img, declared[img], at) /\ Typed(declared[img], at)
    BY <2>0
  <2>2. SUFFICES ASSUME ~ \E i \in Images : vm_init(i)
                 PROVE  TypingInv(declared)'
    OBVIOUS
  <2>3. JumpsLandOnInstructions
    BY DEF DecodingInv
  <2>4. CASE Instruction
    <3>1. Typed(declared[img], at)'
      BY <2>1, <2>3, <2>4, InstructionTyped
    <3>2. Decodes(img) /\ status = "running" /\ pc \in Starts(code)
      <4>1. status = "running"
        BY <2>4, Zenon DEF Instruction, PushConst, PushBool, PushArray, IntOp, Compare, Negate, Not,
              CompoundStore, Load, Store, Jump, Concat, ArrLoadIdx, ArrStoreIdx, ArrAppend, At, Ready
      <4> QED
        BY <2>1, <2>3, <4>1 DEF Verified, JumpsLandOnInstructions
    <3>3. UNCHANGED <<code, constants, status>> /\ DOMAIN locals' = DOMAIN locals
      BY <2>1, <2>4, <3>2, InstructionLands
    <3>4. Loaded(img)'
      BY <2>1, <3>3 DEF Loaded
    <3> QED
      BY <2>1, <3>1, <3>3, <3>4 DEF TypingInv
  <2>5. CASE Count
    <3>1. Typed(declared[img], at)'
      BY <2>1, <2>5, CountTyped
    <3>2. /\ UNCHANGED <<code, constants, locals>>
          /\ status' = status \/ status' \in {"dangling string", "dangling array"}
      BY <2>5, Zenon DEF Count, Skip, increment_ref, decrement_ref, increment_ref_arr,
                         decrement_ref_arr, Dangle, Finish
    <3> QED
      BY <2>1, <3>1, <3>2 DEF TypingInv, Loaded
  <2>6. CASE Abort
    <3>1. status' \notin {"wrong member", "stack underflow"} /\ status' # "running"
      BY <2>1, <2>3, <2>6, AbortTyped
    <3>2. UNCHANGED <<code, constants, pc, stack, locals, arrs>>
      BY <2>6 DEF Abort
    <3>3. Typed(declared[img], at)'
      BY <2>1, <3>1, <3>2, StopTyped
    <3> QED
      BY <2>1, <3>1, <3>2, <3>3 DEF TypingInv, Loaded
  <2>7. CASE Halt \/ vm_free
    <3>1. UNCHANGED <<code, constants, pc, stack, locals, arrs>>
          /\ status' \in {"halted", "freed", "double free"}
      BY <2>7, Zenon DEF Halt, vm_free
    <3>2. Typed(declared[img], at)'
      BY <2>1, <3>1, StopTyped
    <3> QED
      BY <2>1, <3>1, <3>2 DEF TypingInv, Loaded
  <2>8. CASE UNCHANGED vars
    <3>1. UNCHANGED <<code, constants, pc, stack, locals, arrs, status>>
      BY <2>8 DEF vars
    <3>2. Typed(declared[img], at)'
      BY <2>1, <3>1, StopTyped
    <3> QED
      BY <2>1, <3>1, <3>2 DEF TypingInv, Loaded
  <2> QED
    BY <2>2, <2>4, <2>5, <2>6, <2>7, <2>8 DEF Next
<1>3. CASE status = "idle"
  <2>1. (\E img \in Images : vm_init(img)) \/ UNCHANGED vars
    BY <1>3, Zenon DEF Next, Instruction, PushConst, PushBool, PushArray, IntOp, Compare, Negate, Not,
          CompoundStore, Load, Store, Jump, Concat, ArrLoadIdx, ArrStoreIdx, ArrAppend, At, Ready,
          Count, Skip, increment_ref, decrement_ref, increment_ref_arr, decrement_ref_arr, Dangle,
          Counting, Abort, Halt, vm_free
  <2> QED
    BY <1>1, <1>3, <2>1 DEF TypingInv, vars
<1> QED
  BY <1>1, <1>2, <1>3

-----------------------------------------------------------------------------
(* Whatever set of verified images the machine is started with, everything *)
(* it holds keeps the types they were verified with.                       *)
THEOREM TypingInductive ==
  ASSUME NEW CONSTANT declared, ImagesAreTyped(declared)
  PROVE  Spec => []TypingInv(declared)
<1>1. Init => TypingInv(declared)
  BY DEF Init, TypingInv
<1>2. IInv /\ Fresh /\ DecodingInv /\ TypingInv(declared) /\ [Next]_vars => TypingInv(declared)'
  BY StepKeepsTypingInv
<1>3. \A img \in Images : Decodes(img)
  BY DEF ImagesAreTyped, Verified
<1>4. Spec => []DecodingInv
  BY <1>3, DecodingInductive
<1> QED
  BY <1>1, <1>2, <1>4, Inductive, PTL DEF Spec

(* vm_run looks at no tag: that every read of a union finds the member     *)
(* that was written follows from the types the code was verified with.     *)
THEOREM TypesAlwaysSound ==
  ASSUME NEW CONSTANT declared, ImagesAreTyped(declared)
  PROVE  Spec => []TypesAreSound
<1>1. TypingInv(declared) => TypesAreSound
  BY DEF TypingInv, TypesAreSound
<1> QED
  BY <1>1, TypingInductive, PTL

(* An array of verified code keeps elements of one type, whatever is       *)
(* stored in it or appended to it.                                         *)
THEOREM ArraysStayHomogeneous ==
  ASSUME NEW CONSTANT declared, ImagesAreTyped(declared)
  PROVE  Spec => []ArraysAreHomogeneous
<1>1. IInv /\ Fresh /\ TypingInv(declared) => ArraysAreHomogeneous
  <2> SUFFICES ASSUME IInv, Fresh, TypingInv(declared), NEW a \in DOMAIN arrs,
                      NEW v \in Range(arrs[a].arr_val), NEW w \in Range(arrs[a].arr_val)
               PROVE  v.type = w.type
    BY DEF ArraysAreHomogeneous
  <2>1. status # "idle"
    BY DEF Fresh
  <2>2. CellSound(arrs[a], arrs)
    BY <2>1 DEF TypingInv, Typed
  <2> QED
    BY <2>2 DEF CellSound, Range
<1> QED
  BY <1>1, TypingInductive, Inductive, PTL

(* No instruction of verified code pops more than is on the stack: the     *)
(* check in stack_pop never fails.                                         *)
THEOREM NeverUnderflows ==
  ASSUME NEW CONSTANT declared, ImagesAreTyped(declared)
  PROVE  Spec => [](status # "stack underflow")
<1>1. TypingInv(declared) => status # "stack underflow"
  BY DEF TypingInv
<1> QED
  BY <1>1, TypingInductive, PTL

(* A local of verified code holds nothing, or a value of the type its slot *)
(* was declared with.                                                      *)
THEOREM LocalsStayTyped ==
  ASSUME NEW CONSTANT declared, ImagesAreTyped(declared)
  PROVE  Spec => [](status = "running" => \E img \in Images : Loaded(img) /\ LocalsHold(declared[img]))
<1>1. TypingInv(declared) =>
        (status = "running" => \E img \in Images : Loaded(img) /\ LocalsHold(declared[img]))
  BY DEF TypingInv, Typed
<1> QED
  BY <1>1, TypingInductive, PTL
==============================================================================
