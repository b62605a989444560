------------------------------ MODULE RefCounts ------------------------------
(***************************************************************************)
(* What the reference counts of strings are there for: a string something  *)
(* still holds is not freed.  Pushes count up and pops count down; a local *)
(* or an array element is not counted, the string itself is, once.         *)
(***************************************************************************)
EXTENDS VM, FiniteSets, Functions

StringsAmong(vals) == {v.val : v \in {w \in vals : IsString(w)}}

HeldValues ==
  Range(stack) \cup Range(locals) \cup UNION {Range(arrs[a].arr_val) : a \in DOMAIN arrs}

HeldStrings == StringsAmong(HeldValues)

(* How often string s is among some values.                                *)
Times(s, vals) == Cardinality({i \in DOMAIN vals : IsString(vals[i]) /\ vals[i].val = s})

(* The two steps of vm_run that count wrongly unless the program takes     *)
(* care: a constant is pushed again after it was freed, and SCONCAT counts *)
(* its operands down once more than it popped them, also those something   *)
(* else holds, and four times where they are one string.                   *)
PushesOnlyLive ==
  PushConst => LET v == constants[Operand + 1] IN IsString(v) => ~strs[v.val].freed

ConcatsOnlyLoose == Concat => {Lhs, Rhs} \cap HeldStrings' = {}

ConcatsTwoStrings == Concat => Lhs # Rhs

KeepsHeld == PushesOnlyLive /\ ConcatsOnlyLoose

TakesCare == KeepsHeld /\ ConcatsTwoStrings

(* A string starts counted once, as emit_push_string allocates it.         *)
ImagesCounted == \A img \in Images : \A s \in DOMAIN img.strs : img.strs[s].ref_count >= 1

-----------------------------------------------------------------------------
(* Between two instructions, a string that a variable, an array or the     *)
(* stack still holds is allocated, and counted once for itself and once    *)
(* for every place on the stack: the next pop cannot free it.              *)
StringsAreCounted ==
  status \in {"running", "halted"} /\ todo = <<>> =>
    \A s \in HeldStrings : ~strs[s].freed /\ strs[s].ref_count >= 1 + Times(s, stack)

(* No step of the machine pushes a constant that was freed, concatenates a *)
(* string that stays held, or one with itself: what the compiler has to    *)
(* see to, since vm_run does not.                                          *)
CareIsTaken == [][TakesCare]_vars

(* vm_run, its pushes, pops and SCONCAT, never touches a cell after it was *)
(* freed, neither to use it nor to count it.                               *)
NothingDangles == status \notin {"dangling string", "dangling array"}
=============================================================================
