---------------------------- MODULE Correctness ----------------------------
(***************************************************************************)
(* The pipeline beside what its program means.  The history variable       *)
(* meaning holds what the reference makes of the source; the pipeline runs *)
(* as it does without it.                                                  *)
(***************************************************************************)
EXTENDS Pipeline

VARIABLE meaning

CorrectInit == PipelineInit /\ meaning = Meaning(source)

CorrectNext == PipelineNext /\ UNCHANGED meaning

(* One thread, and the loop of vm_run waits for nothing: while it can take *)
(* a step it takes one.                                                    *)
CorrectSpec ==
  /\ CorrectInit /\ [][CorrectNext]_<<allvars, meaning>>
  /\ WF_<<allvars, meaning>>(RunVM /\ UNCHANGED meaning)

-----------------------------------------------------------------------------
Over == stage = "running" /\ status \notin {"idle", "running"}

(* The compiled program ends as the source says it should: the same error, *)
(* or normally with the values of the expression statements on the stack,  *)
(* in the order they ran, every variable with its last value and every     *)
(* array with its last elements.                                           *)
MatchesReference ==
  Over => IF status # "halted" THEN meaning.end = status
          ELSE /\ meaning.end = ""
               /\ meaning.out = [i \in DOMAIN stack |-> Seen(stack[i])]
               /\ meaning.heap = [a \in DOMAIN arrs |->
                                    [i \in DOMAIN arrs[a].arr_val |-> Seen(arrs[a].arr_val[i])]]
               /\ \A n \in DOMAIN meaning.env :
                    Seen(locals[resolver_lookup(resolver, n) + 1]) = meaning.env[n]

(* What main prints is the value of the last expression statement that     *)
(* ran; it prints from outside the stack only if there was none.           *)
PrintsLastExpression ==
  stage \in {"printed", "undefined"} =>
    IF meaning.out = <<>> THEN stage = "undefined" ELSE printed = <<Last(meaning.out)>>

(* vm_run comes to an end, for programs that end by their source.          *)
Terminates == (stage = "running" /\ meaning.end # "diverges") ~> Over
=============================================================================
