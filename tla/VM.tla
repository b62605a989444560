--------------------------------- MODULE VM ---------------------------------
(***************************************************************************)
(* The virtual machine of vm.c over the operand stack and the reference    *)
(* counted heap of stack.c: vm_init, one iteration of the loop of vm_run   *)
(* per step, vm_free.                                                      *)
(*                                                                         *)
(* The recursion of the reference counting functions is unrolled: an       *)
(* instruction leaves the counting its pops and pushes perform in `todo',  *)
(* and no instruction starts before `todo' is empty.                       *)
(*                                                                         *)
(* `status' is "running" inside vm_run, one of RuntimeError after exit(1), *)
(* and one of Undefined where the behaviour of the C code is undefined:    *)
(* the model stops there.                                                  *)
(***************************************************************************)
EXTENDS Instructions

CONSTANTS
  Images,        \* the finished emitters vm_init may be handed
  STACK_INIT,    \* initial capacity of the operand stack: 128
  ARRAY_CHUNK    \* granularity of an array's first capacity: 64

(* Pointers stay inside the heap and the type tag of a value names the     *)
(* union member that was written: what pushing by tag relies on.           *)
Located(v, ss, as) ==
  /\ v.type.nested >= -1
  /\ IsString(v) <=> v.member = "string_val"
  /\ IsArray(v)  => v.member = "array_val"
  /\ v.member = "string_val" => v.val \in DOMAIN ss
  /\ v.member = "array_val"  => v.val \in DOMAIN as

Pointing(ss, as) == {v \in StackValue : Located(v, ss, as)}

Image == [code : Seq(Nat), constants : Seq(StackValue), strs : Seq(StringValue),
          num_locals : Nat]

ASSUME StackInitAssumption  == STACK_INIT \in Nat \ {0}
ASSUME ArrayChunkAssumption == ARRAY_CHUNK \in Nat \ {0}
ASSUME ImagesAssumption ==
  \A img \in Images : img \in Image /\ img.constants \in Seq(Pointing(img.strs, <<>>))

VARIABLES
  constants,         \* VM.constants, borrowed from the emitter like VM.code
  stack,             \* Stack.data[0 .. top]
  stack_capacity,    \* Stack.capacity
  locals,            \* VM.locals
  strs, arrs,        \* every StringValue and ArrayValue allocated so far
  todo,              \* counting the last instruction has yet to perform
  status

vars == <<code, constants, pc, stack, stack_capacity, locals, strs, arrs, todo, status>>

RuntimeError == {"stack underflow", "division by zero", "invalid slot",
                 "index out of bounds", "unknown opcode"}

Undefined == {"bad fetch", "no such constant", "wrong member", "uninitialized local",
              "dangling string", "dangling array", "negative index", "divide trap"}

Status == {"idle", "running", "halted", "freed", "double free"} \cup RuntimeError \cup Undefined

Stopped == Status \ {"idle", "running", "halted"}

-----------------------------------------------------------------------------
(* Reference counting work: the values `vals' are to be counted up (take)  *)
(* or down (drop), in order.                                               *)

Job == [act : {"take", "drop"}, vals : Seq(StackValue) \ {<<>>}]

Work(act, vals) ==
  IF \E i \in DOMAIN vals : IsCounted(vals[i]) THEN <<[act |-> act, vals |-> vals]>> ELSE <<>>

(* What the registers, stack, locals, heap and counting queue can hold.    *)
VMTypeOK ==
  /\ code \in Seq(Nat)
  /\ constants \in Seq(StackValue)
  /\ pc \in Int
  /\ stack \in Seq(StackValue)
  /\ stack_capacity \in Nat \ {0}
  /\ locals \in Seq(StackValue)
  /\ strs \in Seq(StringValue)
  /\ arrs \in Seq(ArrayValue)
  /\ todo \in Seq(Job)
  /\ status \in Status

Init ==
  /\ code = <<>> /\ constants = <<>> /\ pc = 0
  /\ stack = <<>> /\ stack_capacity = STACK_INIT
  /\ locals = <<>> /\ strs = <<>> /\ arrs = <<>> /\ todo = <<>>
  /\ status = "idle"

vm_init(img) ==
  /\ status = "idle"
  /\ code' = img.code /\ constants' = img.constants /\ strs' = img.strs
  /\ locals' = [i \in 1 .. img.num_locals |-> Garbage]
  /\ status' = "running"
  /\ UNCHANGED <<pc, stack, stack_capacity, arrs, todo>>

-----------------------------------------------------------------------------
(* What an instruction pops, and where it finds what it works on.          *)

Popped(i) == stack[Len(stack) + 1 - i]           \* the i-th value popped
AllPopped == [i \in 1 .. Arity |-> Popped(i)]
Rest      == SubSeq(stack, 1, Len(stack) - Arity)

Slot      == Operand + 1
ValidSlot == Operand < Len(locals)

(* The cell is still there after n pops that count it down.                *)
Survives(cell, n) == ~cell.freed /\ cell.ref_count \notin 1 .. n

(* Operands of the indexing instructions and of SCONCAT (lhs \o rhs).      *)
TheArray == Popped(ArrayAt).val
Index    == Popped(ArrayAt + 1).val
Lhs      == Popped(2).val
Rhs      == Popped(1).val

MembersMatch ==
  /\ \A i \in 1 .. Arity : Needs(Op)[i] \in {"any", Popped(i).member}
  /\ Op \in Compound => locals[Slot].member \in {"int_val", "none"}

Divisor  == Popped(1).val
Dividend == IF Op = OP_IDIVSTORE THEN locals[Slot].val ELSE Popped(2).val

(* The errors vm_run reports and the undefined behaviours it runs into     *)
(* once the values are popped.                                             *)
Fault(c) ==
  CASE c = "wrong member"        -> ~MembersMatch
    [] c = "no such constant"    -> Op \in {OP_PUSH, OP_PUSH_STRING} /\ Operand >= Len(constants)
    [] c = "uninitialized local" -> Op \in Loads \cup Compound /\ locals[Slot].member = "none"
    [] c = "division by zero"    -> Op \in {OP_IDIV, OP_IMOD} /\ MembersMatch /\ Divisor = 0
    [] c = "divide trap" ->
         /\ Op \in {OP_IDIV, OP_IMOD, OP_IDIVSTORE} /\ MembersMatch
         /\ \/ Op = OP_IDIVSTORE /\ Divisor = 0
            \/ Divisor = -1 /\ Dividend = INT_MIN
    [] c = "dangling string" ->
         /\ Op = OP_SCONCAT /\ MembersMatch
         /\ \/ ~Survives(strs[Lhs], IF Lhs = Rhs THEN 2 ELSE 1)
            \/ ~Survives(strs[Rhs], IF Lhs = Rhs THEN 2 ELSE 1)
    [] c = "dangling array" ->
         /\ Op \in Indexing \cup {OP_ARRAPPEND} /\ MembersMatch
         /\ ~Survives(arrs[TheArray], 2)
    [] c = "index out of bounds" ->
         Op \in Indexing /\ MembersMatch /\ Index >= Len(arrs[TheArray].arr_val)
    [] c = "negative index"      -> Op \in Indexing /\ MembersMatch /\ Index < 0

Faults == {"wrong member", "no such constant", "uninitialized local", "division by zero",
           "divide trap", "dangling string", "dangling array", "index out of bounds",
           "negative index"}

(* Everything that keeps the instruction at pc from completing, the checks *)
(* that come first first: a store looks at its slot before it pops.        *)
Obstacles ==
  IF ~InCode THEN {"bad fetch"}
  ELSE IF Op \notin Opcodes THEN {"unknown opcode"}
  ELSE IF ~Fetchable THEN {"bad fetch"}
  ELSE IF Op \in Stores /\ ~ValidSlot THEN {"invalid slot"}
  ELSE IF Len(stack) < Arity THEN {"stack underflow"}
  ELSE IF Op \in Slotted /\ ~ValidSlot THEN {"invalid slot"}
  ELSE {c \in Faults : Fault(c)}

-----------------------------------------------------------------------------
(* What the instructions have in common.  An instruction pops Arity values *)
(* and pushes `pushed'; `extra' is counting it does by itself in between.  *)

Ready == status = "running" /\ todo = <<>> /\ pc < Len(code)

At(ops) == Ready /\ InCode /\ Op \in ops /\ Obstacles = {}

(* Mutant: the stack grows one push too late. *)
RoomFor_late(n) == IF n > stack_capacity + 1 THEN 2 * stack_capacity ELSE stack_capacity

RoomFor(n) == IF n > stack_capacity THEN 2 * stack_capacity ELSE stack_capacity

Replace(pushed, extra) ==
  /\ stack' = Rest \o pushed
  /\ stack_capacity' = RoomFor(Len(Rest) + Len(pushed))
  /\ todo' = Work("drop", AllPopped) \o extra \o Work("take", pushed)

Push(v) == Replace(<<v>>, <<>>)

Proceed == pc' = Following /\ UNCHANGED <<code, constants, status>>

HeapUnchanged == UNCHANGED <<strs, arrs>>

-----------------------------------------------------------------------------
(* Pushing constants and building arrays.                                  *)

PushConst ==
  /\ At({OP_PUSH, OP_PUSH_STRING})
  /\ Push(constants[Operand + 1])
  /\ Proceed /\ HeapUnchanged /\ UNCHANGED locals

PushBool ==
  /\ At({OP_PUSH_TRUE, OP_PUSH_FALSE})
  /\ Push(BoolValue(Op = OP_PUSH_TRUE))
  /\ Proceed /\ HeapUnchanged /\ UNCHANGED locals

(* Mutant: the length rounded up to chunks, which gives [] no storage. *)
NewArray_rounded(elems) ==
  [arr_val |-> elems,
   capacity |-> ((Len(elems) + ARRAY_CHUNK - 1) \div ARRAY_CHUNK) * ARRAY_CHUNK,
   ref_count |-> 0, freed |-> FALSE]

(* Mutant: counted from 1 like a string. *)
NewArray_counted(elems) ==
  [arr_val |-> elems, capacity |-> ((Len(elems) \div ARRAY_CHUNK) + 1) * ARRAY_CHUNK,
   ref_count |-> 1, freed |-> FALSE]

NewArray(elems) ==
  [arr_val |-> elems, capacity |-> ((Len(elems) \div ARRAY_CHUNK) + 1) * ARRAY_CHUNK,
   ref_count |-> 0, freed |-> FALSE]

PushArray ==
  /\ At({OP_PUSH_ARRAY})
  /\ LET elems == SubSeq(stack, Len(stack) - Operand + 1, Len(stack))
         type  == IF Operand > 0 THEN ArrayOf(Popped(Operand).type) ELSE unknown_type
     IN  /\ arrs' = Append(arrs, NewArray(elems))
         /\ Push(ArrayRef(type, Len(arrs) + 1))
  /\ Proceed /\ UNCHANGED <<strs, locals>>

-----------------------------------------------------------------------------
(* Arithmetic and tests.                                                   *)

IntOp ==
  /\ At(IntArith)
  /\ Push(IntValue(Arith(Op, Popped(2).val, Popped(1).val)))
  /\ Proceed /\ HeapUnchanged /\ UNCHANGED locals

Compare ==
  /\ At(IntTest \cup BoolTest)
  /\ Push(BoolValue(Test(Op, Popped(2).val, Popped(1).val)))
  /\ Proceed /\ HeapUnchanged /\ UNCHANGED locals

Negate ==
  /\ At({OP_INEG})
  /\ Push(IntValue(Wrap(-Popped(1).val)))
  /\ Proceed /\ HeapUnchanged /\ UNCHANGED locals

Not ==
  /\ At({OP_NOT})
  /\ Push(BoolValue(Popped(1).val = 0))
  /\ Proceed /\ HeapUnchanged /\ UNCHANGED locals

-----------------------------------------------------------------------------
(* Locals and jumps.                                                       *)

CompoundStore ==
  /\ At(Compound)
  /\ Replace(<<>>, <<>>)
  /\ locals' = [locals EXCEPT ![Slot].val = Arith(Op, @, Popped(1).val)]
  /\ Proceed /\ HeapUnchanged

Load ==
  /\ At(Loads)
  /\ Push(locals[Slot])
  /\ Proceed /\ HeapUnchanged /\ UNCHANGED locals

Store ==
  /\ At(Stores)
  /\ Replace(<<>>, <<>>)
  /\ locals' = [locals EXCEPT ![Slot] = Popped(1)]
  /\ Proceed /\ HeapUnchanged

Jumps(o) ==
  CASE o = OP_JMP  -> TRUE
    [] o = OP_JMPN -> Popped(1).val = 0
    [] o = OP_JMPT -> Popped(1).val # 0

Jump ==
  /\ At({OP_JMP} \cup CondJumps)
  /\ Replace(<<>>, <<>>)
  /\ pc' = IF Jumps(Op) THEN Following + Steps ELSE Following
  /\ HeapUnchanged /\ UNCHANGED <<code, constants, locals, status>>

-----------------------------------------------------------------------------
(* Strings and arrays.                                                     *)

(* Mutant: the operands joined in the order they are popped. *)
Concat_popped ==
  /\ At({OP_SCONCAT})
  /\ strs' = Append(strs, [text |-> strs[Rhs].text \o strs[Lhs].text,
                           ref_count |-> 1, freed |-> FALSE])
  /\ Replace(<<StringRef(Len(strs) + 1)>>, Work("drop", <<Popped(2), Popped(1)>>))
  /\ Proceed /\ UNCHANGED <<arrs, locals>>

Concat ==
  /\ At({OP_SCONCAT})
  /\ strs' = Append(strs, [text |-> strs[Lhs].text \o strs[Rhs].text,
                           ref_count |-> 1, freed |-> FALSE])
  /\ Replace(<<StringRef(Len(strs) + 1)>>, Work("drop", <<Popped(2), Popped(1)>>))
  /\ Proceed /\ UNCHANGED <<arrs, locals>>

ArrLoadIdx ==
  /\ At({OP_ARRLOADIDX})
  /\ Push(arrs[TheArray].arr_val[Index + 1])
  /\ Proceed /\ HeapUnchanged /\ UNCHANGED locals

ArrStoreIdx ==
  /\ At({OP_ARRSTOREIDX})
  /\ Replace(<<>>, <<>>)
  /\ arrs' = [arrs EXCEPT ![TheArray].arr_val[Index + 1] = Popped(1)]
  /\ Proceed /\ UNCHANGED <<strs, locals>>

(* Mutant: the storage grows one append too late. *)
Grown_late(arr, v) ==
  [arr EXCEPT !.arr_val  = Append(@, v),
              !.capacity = IF Len(arr.arr_val) + 1 > @ THEN 2 * @ ELSE @]

Grown(arr, v) ==
  [arr EXCEPT !.arr_val  = Append(@, v),
              !.capacity = IF Len(arr.arr_val) + 1 >= @ THEN 2 * @ ELSE @]

ArrAppend ==
  /\ At({OP_ARRAPPEND})
  /\ Push(Popped(2))
  /\ arrs' = [arrs EXCEPT ![TheArray] = Grown(@, Popped(1))]
  /\ Proceed /\ UNCHANGED <<strs, locals>>

-----------------------------------------------------------------------------
(* The reference counting jobs, one value at a time.                       *)

Subject == Head(Head(todo).vals)
Act     == Head(todo).act

(* The rest of the queue, behind the elements of an array just visited.    *)
Finish(act, elems) ==
  /\ todo' = Work(act, elems) \o Work(Act, Tail(Head(todo).vals)) \o Tail(todo)
  /\ UNCHANGED <<code, constants, pc, stack, stack_capacity, locals, status>>

Counting   == status = "running" /\ todo # <<>>
FreedString == IsString(Subject) /\ strs[Subject.val].freed
FreedArray  == IsArray(Subject) /\ arrs[Subject.val].freed

Skip ==
  /\ Counting /\ ~IsCounted(Subject)
  /\ Finish(Act, <<>>) /\ HeapUnchanged

increment_ref ==
  /\ Counting /\ Act = "take" /\ IsString(Subject) /\ ~FreedString
  /\ strs' = [strs EXCEPT ![Subject.val].ref_count = @ + 1]
  /\ Finish(Act, <<>>) /\ UNCHANGED arrs

(* Mutant: freed when one reference is left. *)
Dropped_early(cell) == [cell EXCEPT !.ref_count = @ - 1, !.freed = (cell.ref_count <= 2)]

Dropped(cell) == [cell EXCEPT !.ref_count = @ - 1, !.freed = (cell.ref_count = 1)]

decrement_ref ==
  /\ Counting /\ Act = "drop" /\ IsString(Subject) /\ ~FreedString
  /\ strs' = [strs EXCEPT ![Subject.val] = Dropped(@)]
  /\ Finish(Act, <<>>) /\ UNCHANGED arrs

increment_ref_arr ==
  /\ Counting /\ Act = "take" /\ IsArray(Subject) /\ ~FreedArray
  /\ arrs' = [arrs EXCEPT ![Subject.val].ref_count = IF @ # 0 THEN @ + 1 ELSE @]
  /\ Finish("take", arrs[Subject.val].arr_val) /\ UNCHANGED strs

(* Only an array whose count reaches zero is freed, and its elements       *)
(* counted down.                                                           *)
decrement_ref_arr ==
  /\ Counting /\ Act = "drop" /\ IsArray(Subject) /\ ~FreedArray
  /\ arrs' = [arrs EXCEPT ![Subject.val] = Dropped(@)]
  /\ Finish("drop", IF arrs[Subject.val].ref_count = 1 THEN arrs[Subject.val].arr_val ELSE <<>>)
  /\ UNCHANGED strs

Dangle ==
  /\ Counting /\ (FreedString \/ FreedArray)
  /\ status' = IF IsString(Subject) THEN "dangling string" ELSE "dangling array"
  /\ UNCHANGED <<code, constants, pc, stack, stack_capacity, locals, strs, arrs, todo>>

-----------------------------------------------------------------------------
(* Leaving vm_run, and vm_free, which frees every string on the stack      *)
(* whatever its count.                                                     *)

Abort ==
  /\ Ready
  /\ \E c \in Obstacles : status' = c
  /\ UNCHANGED <<code, constants, pc, stack, stack_capacity, locals, strs, arrs, todo>>

Halt ==
  /\ status = "running" /\ todo = <<>> /\ pc >= Len(code)
  /\ status' = "halted"
  /\ UNCHANGED <<code, constants, pc, stack, stack_capacity, locals, strs, arrs, todo>>

StackStrings == {i \in DOMAIN stack : IsString(stack[i])}

OnStack(s) == \E i \in StackStrings : stack[i].val = s

vm_free ==
  /\ status = "halted"
  /\ strs' = [s \in DOMAIN strs |->
                IF OnStack(s) THEN [strs[s] EXCEPT !.freed = TRUE] ELSE strs[s]]
  /\ status' = IF \/ \E i \in StackStrings : strs[stack[i].val].freed
                  \/ \E i, j \in StackStrings : i # j /\ stack[i].val = stack[j].val
               THEN "double free" ELSE "freed"
  /\ UNCHANGED <<code, constants, pc, stack, stack_capacity, locals, arrs, todo>>

-----------------------------------------------------------------------------
Instruction ==
  \/ PushConst \/ PushBool \/ PushArray
  \/ IntOp \/ Compare \/ Negate \/ Not
  \/ CompoundStore \/ Load \/ Store \/ Jump
  \/ Concat \/ ArrLoadIdx \/ ArrStoreIdx \/ ArrAppend

Count == Skip \/ increment_ref \/ decrement_ref \/ increment_ref_arr \/ decrement_ref_arr \/ Dangle

Next ==
  \/ \E img \in Images : vm_init(img)
  \/ Instruction \/ Count \/ Abort \/ Halt \/ vm_free

Spec == Init /\ [][Next]_vars

-----------------------------------------------------------------------------
(* Properties.                                                             *)

(* Every value the machine holds can be followed: its tag names the member *)
(* that was written, and a pointer leads to a cell.  stack_push and        *)
(* stack_pop dereference by the tag alone.                                 *)
PointersLocated ==
  LET Good == Pointing(strs, arrs)
  IN  /\ stack \in Seq(Good) /\ locals \in Seq(Good) /\ constants \in Seq(Good)
      /\ \A a \in DOMAIN arrs : arrs[a].arr_val \in Seq(Good)
      /\ \A j \in DOMAIN todo : todo[j].vals \in Seq(Good)

(* No array is freed while the machine runs, whatever the bytecode: an     *)
(* array starts at count 0, increment_ref_arr leaves 0 alone, so the count *)
(* never gets above 0 and decrement_ref_arr never brings it down to 0.     *)
ArraysStayAllocated ==
  \A a \in DOMAIN arrs : arrs[a].ref_count <= 0 /\ ~arrs[a].freed

(* The append of vm_run writes behind the last element: there is room.     *)
RoomToAppend == \A a \in DOMAIN arrs : Len(arrs[a].arr_val) < arrs[a].capacity

(* stack_push writes within Stack.data.                                    *)
StackFits == Len(stack) <= stack_capacity
=============================================================================
