------------------------------- MODULE Pipeline -------------------------------
(***************************************************************************)
(* A program on its way through main.c: parsed, resolved, type checked,    *)
(* compiled, run, its last value printed, the machine freed.               *)
(*                                                                         *)
(* main.c holds these calls in this order; from type_check on they are     *)
(* commented out at the modelled commit.                                   *)
(***************************************************************************)
EXTENDS Parser, Spelling, BytecodeEmit, StackTyping, RefCounts, Reference, Typing

CONSTANT Programs       \* the programs to be run, each as its syntax tree

VARIABLES
  source,    \* the program as it was meant; never changes
  stage,     \* how far main has come
  node,      \* main's `node': the tree, annotated by the resolver
  resolver,  \* main's `r'; not read any more once the machine is started
  emitter,   \* main's `b'
  printed    \* what was written to stdout

front == <<source, stage, node, resolver, emitter, printed>>
allvars == <<front, vars>>

Stage == {"written", "parsed", "resolved", "checked", "generated", "running", "printed",
          "rejected", "undefined"}

PipelineInit ==
  /\ source \in Programs /\ node = Blank
  /\ resolver = resolver_init /\ emitter = bytecode_init
  /\ stage = "written" /\ printed = <<>>
  /\ Init

-----------------------------------------------------------------------------
(* The passes.  A pass that refuses the program exits.                     *)

(* parser_init and parse_program, on the tokens the program is written as. *)
RunParser ==
  /\ stage = "written"
  /\ \E empty_ok \in BOOLEAN :
       LET done == parse_program(parser_init(SpellProgram(source), empty_ok))
       IN  node' = done.result /\ stage' = IF done.ok THEN "parsed" ELSE "rejected"
  /\ UNCHANGED <<source, resolver, emitter, printed, vars>>

RunResolver ==
  /\ stage = "parsed"
  /\ LET done == resolve(node, resolver)
     IN  /\ node' = done.node /\ resolver' = done.table
         /\ stage' = IF done.ok THEN "resolved" ELSE "rejected"
  /\ UNCHANGED <<source, emitter, printed, vars>>

RunTypeChecker ==
  /\ stage = "resolved"
  /\ stage' = IF type_check(node, resolver) THEN "checked" ELSE "rejected"
  /\ UNCHANGED <<source, node, resolver, emitter, printed, vars>>

(* bytecode_gen and free_ast.                                              *)
RunEmitter ==
  /\ stage = "checked"
  /\ LET b == bytecode_gen(node, emitter, resolver)
     IN  /\ emitter' = b
         /\ stage' = IF b.wild THEN "undefined" ELSE "generated"
  /\ node' = Blank
  /\ UNCHANGED <<source, resolver, printed, vars>>

ImageOf(b, locals_count) ==
  [code |-> b.code, constants |-> b.constants, strs |-> b.strs, num_locals |-> locals_count]

StartVM ==
  /\ stage = "generated" /\ stage' = "running"
  /\ vm_init(ImageOf(emitter, Len(resolver.names)))
  /\ UNCHANGED <<source, node, resolver, emitter, printed>>

RunVM ==
  /\ stage = "running"
  /\ Instruction \/ Count \/ Abort \/ Halt
  /\ UNCHANGED front

-----------------------------------------------------------------------------
(* Printing the top of the stack, whether or not there is one.             *)

RECURSIVE Readable(_)
Readable(v) ==
  /\ IsString(v) => ~strs[v.val].freed
  /\ IsArray(v)  => \A i \in DOMAIN arrs[v.val].arr_val : Readable(arrs[v.val].arr_val[i])

(* A value as the reference sees it.                                       *)
Seen(v) == IF IsString(v) THEN RefString(strs[v.val].text) ELSE RefValue(v.type, v.val)

(* Mutant: the value below the top. *)
PrintTop_below ==
  /\ stage = "running" /\ status = "halted"
  /\ IF Len(stack) > 1 /\ Readable(stack[Len(stack) - 1])
     THEN stage' = "printed" /\ printed' = <<Seen(stack[Len(stack) - 1])>>
     ELSE stage' = "undefined" /\ UNCHANGED printed
  /\ UNCHANGED <<source, node, resolver, emitter, vars>>

PrintTop ==
  /\ stage = "running" /\ status = "halted"
  /\ IF stack # <<>> /\ Readable(Last(stack))
     THEN stage' = "printed" /\ printed' = <<Seen(Last(stack))>>
     ELSE stage' = "undefined" /\ UNCHANGED printed
  /\ UNCHANGED <<source, node, resolver, emitter, vars>>

FreeVM == stage = "printed" /\ vm_free /\ UNCHANGED front

PipelineNext ==
  \/ RunParser \/ RunResolver \/ RunTypeChecker \/ RunEmitter \/ StartVM \/ RunVM \/ PrintTop \/ FreeVM

PipelineSpec == PipelineInit /\ [][PipelineNext]_allvars

-----------------------------------------------------------------------------
(* The images the passes make of the programs they accept: what vm_init is *)
(* handed, for the constant Images of the machine.                         *)

Compile(p) ==
  LET read == parse_program(parser_init(SpellProgram(p), TRUE))
      done == resolve(read.result, resolver_init)
      good == read.ok /\ done.ok /\ type_check(done.node, done.table)
      b    == IF good THEN bytecode_gen(done.node, bytecode_init, done.table) ELSE bytecode_init
  IN  [accepted |-> good /\ ~b.wild, image |-> ImageOf(b, Len(done.table.names))]

CompiledImages == {f.image : f \in {g \in {Compile(p) : p \in Programs} : g.accepted}}

-----------------------------------------------------------------------------
(* The types on the stack where the instructions of an image start: what   *)
(* each one leaves, and nothing where a jump leads, between statements.    *)
Certificate(img, slots) ==
  LET c == img.code
      Uns(p) == Unsigned16(c[p + 2], c[p + 3])
      targets == {p + 3 + Signed16(c[p + 2], c[p + 3]) :
                    p \in {q \in Starts(c) \ {Len(c)} : c[q + 1] \in JumpCodes}}
      Left(o, n, ts) ==
        LET fits == {t \in ElementTypes(ts) : IsPrefix(Takes(slots, o, n, t), ts)}
            t    == CHOOSE u \in fits : TRUE
        IN  IF fits = {} THEN <<>>
            ELSE Makes(img, slots, o, n, t) \o SubSeq(ts, Len(Takes(slots, o, n, t)) + 1, Len(ts))
      Extend(at, p) ==
        LET next == p + 1 + OperandBytes(c[p + 1])
        IN  IF p \notin DOMAIN at THEN at
            ELSE at @@ (next :> IF next \in targets THEN <<>> ELSE Left(c[p + 1], Uns(p), at[p]))
  IN  FoldLeft(Extend, 0 :> <<>>, [i \in 1 .. Len(c) |-> i - 1])

RECURSIVE Connects(_)
Connects(tree) ==
  tree.op \in Connectives \/ \E i \in DOMAIN tree.kids : Connects(tree.kids[i])

-----------------------------------------------------------------------------
(* Properties.                                                             *)

(* The machine's types, and in front of it: every name of the table has a  *)
(* type, and no array of a pass holds more than it has room for.           *)
PipelineTypeOK ==
  /\ VMTypeOK
  /\ stage \in Stage
  /\ resolver.types \in Seq(VarType) /\ Len(resolver.types) = Len(resolver.names)
  /\ Len(resolver.names) <= resolver.capacity
  /\ Len(emitter.code) <= emitter.code_capacity
  /\ Len(emitter.constants) <= emitter.const_capacity

(* The parser gives back every program as it was meant; if one is refused, *)
(* it is by a later pass.  (No list that realloc may fail to cut down is   *)
(* empty in the programs of the run that asks this.)                       *)
ProgramsAreRead ==
  (stage = "parsed" => node = source) /\ (stage = "rejected" => node # Blank)

(* Whatever bytecode_gen makes of a tree that type_check let through can   *)
(* be decoded from front to back, and every jump in it, taken or not, goes *)
(* to the start of an instruction.                                         *)
GeneratedCodeDecodes ==
  stage = "generated" => Decodes(ImageOf(emitter, Len(resolver.names)))

(* What bytecode_gen makes of an accepted tree is typed, instruction by    *)
(* instruction, with the types the resolver gave the slots.  (Of a tree    *)
(* with && or || it is not: the jump takes the value that is missed.)      *)
GeneratedCodeIsTyped ==
  stage = "generated" /\ ~Connects(source) =>
    LET img == ImageOf(emitter, Len(resolver.names))
    IN  Verified(img, resolver.types, Certificate(img, resolver.types))

(* A local holds nothing yet, or a value of the type its variable was      *)
(* declared with: type_check is what the untagged reads of vm_run rely on. *)
LocalsKeepDeclaredTypes == stage = "running" => LocalsHold(resolver.types)

(* type_check refuses the ill typed programs and no others.                *)
RefusesTheIllTyped ==
  /\ stage = "checked"  => WellTyped(source)
  /\ stage = "rejected" => ~WellTyped(source)
=============================================================================
