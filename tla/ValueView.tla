------------------------------- MODULE ValueView -------------------------------
(***************************************************************************)
(* The machine of vm.c seen without its memory management, as a            *)
(* ValueMachine: a pointer to a string is the text it leads to, an array   *)
(* its elements, and counting is no step at all.                           *)
(***************************************************************************)
EXTENDS RefCounts

(* A value, and a sequence of values, with the strings of ss read out.     *)
Seen(v, ss) ==
  [type |-> v.type, member |-> v.member,
   val  |-> IF v.member = "string_val" THEN 0 ELSE v.val,
   text |-> IF v.member = "string_val" THEN ss[v.val].text ELSE <<>>]

View(vals, ss) == [i \in DOMAIN vals |-> Seen(vals[i], ss)]

ImagesSeen ==
  {[code |-> img.code, constants |-> View(img.constants, img.strs),
    num_locals |-> img.num_locals] : img \in Images}

(* What the ideal machine has in place of this machine's variables.  What  *)
(* vm_free does it does not do, and where this machine is stopped short,   *)
(* because it touches what was freed, the ideal one could go on.           *)
SeenConstants == View(constants, strs)
SeenStack     == View(stack, strs)
SeenLocals    == View(locals, strs)
SeenArrays    == [a \in DOMAIN arrs |-> View(arrs[a].arr_val, strs)]
SeenStatus    ==
  IF status \in {"freed", "double free"} THEN "halted"
  ELSE IF NothingDangles THEN status ELSE "running"

Ideal ==
  INSTANCE ValueMachine WITH
    Images    <- ImagesSeen,
    constants <- SeenConstants,
    stack     <- SeenStack,
    locals    <- SeenLocals,
    arrs      <- SeenArrays,
    status    <- SeenStatus

(* Counting a reference, growing an array or the stack, freeing what is no *)
(* longer held: none of it shows.  Whatever the bytecode, as long as the   *)
(* machine touches nothing it freed (NothingDangles) it computes with      *)
(* strings as if they were values, and stops only where the ideal one may. *)
CountingIsInvisible == Ideal!Spec
=============================================================================
