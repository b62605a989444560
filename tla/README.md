# grblang in TLA+

grblang compiles a small imperative language (int, bool, string, arrays of
them, if, while, unfinished functions) to a byte code and runs it on a stack
machine with reference counted strings and arrays. This directory holds TLA+
modules for that program, the TLC runs that check them and, for the lexer, the
symbol table, the machine, what the machine expects of the code it is handed and
what it promises in return, proofs TLAPS checks.

## Inventory

The program is one C thread; everything is a call from `main.c`. Its parts,
in the order a program goes through them:

| component | state | operations | talks to |
|---|---|---|---|
| lexer (`lexer.c`) | `src`, `pos`, `current` | `lex_next` and one function per literal | parser calls it |
| parser (`parser.c`) | two tokens (`curr`, `peek`), the tree under construction | one function per grammar rule, `make_*` | hands the tree to the passes |
| resolver (`resolver.c`) | one flat table of names and types, grown by doubling | `resolver_declare`, `resolver_lookup`, `resolve` | writes slot and type into the tree; its table is read by the next two |
| type checker (`type_checker.c`) | none | `get_expr_type`, `type_check` | refuses a program with `exit(1)` |
| code generator (`bytecode_emit.c`) | code bytes, constants, both grown by doubling | `emit_*`, `patch_int`, `add_const`, `bytecode_gen` | calls `get_expr_type` again to pick opcodes; allocates the string constants |
| machine (`vm.c`, `stack.c`) | `pc`, operand stack, locals, strings and arrays with their counts | one case per opcode, `stack_push`, `stack_pop`, four counting functions, `vm_free` | borrows code and constants from the emitter |
| main (`main.c`) | all of the above | the passes in order, printing the top of the stack | |

At this commit main stops after `resolve` and the calls from `type_check` on
are commented out; the programs in `tests/` and their expected outputs still
need them. The model keeps them in the order they are written.

What makes each part correct:

- lexer: it cuts the source into its longest lexemes, copies no more than its
  arrays hold, moves on with every token and comes to an end.
- parser: it gives back the program that was written, and accepts no token
  it does not use.
- resolver: a name has one slot, found again by every later use; the table
  has room for what is written into it.
- type checker: it refuses the ill typed programs and no others, and what it
  accepts never reads a union member nobody wrote, because the machine checks
  no tag.
- code generator: the bytes decode from front to back, jumps land between
  instructions, and the code does what the tree says.
- machine: pointers announced by a tag exist, counts keep what is held alive,
  the stack and the arrays have room for what is written.
- all together: a program ends with the values, the variables and the error
  its source means, and ends at all if its source does.

Hard parts: there is no concurrency and nothing is persisted. The hard
behaviour is in long sequences: reference counts that pushes, pops, stores
and concatenations each change, and that go wrong many instructions later;
jump offsets patched after the code in between was emitted; aliased arrays
that grow in place; a type checker whose mistakes only the machine feels;
limits of growth, 16 bit operands and `int`; in front of it all a lexer with
one cached character and a parser with one token of lookahead, where precedence
is nothing but which function calls which. `PROJECT.json` lists them as
hazards, at their lines.

## Modules

| module | models | notes |
|---|---|---|
| `Values` | `VarType`, `StackValue`, heap cells, int arithmetic | a value remembers which union member was written (`member`); the C union does not |
| `Tokens` | `Token`, characters, spellings of operators and keywords | |
| `LexicalGrammar` | what the lexemes are and which token each stands for | sets of texts; nothing says how to find them |
| `Lexer` | `lexer.c` | a state machine, one iteration of a loop per step |
| `TokenStream` | what the lexer promises | abstract specification: the source cut into its longest lexemes, no positions, no buffers |
| `LexicalGrammarProofs` | lemmas about lexemes, escapes and numbers | |
| `LexerProofs` | theorems about `Lexer` | |
| `ReadingProofs` | the theorem that `Lexer` implements `TokenStream` | |
| `AST` | the node constructors | a node is a record: kind, name, slot, declared type, children in source order |
| `Parser` | `parser.c` | recursive operators from a place in the tokens to a node and the next place |
| `Spelling` | how a tree is written down | reference for the parser: strengths of operators, parentheses where they are needed |
| `FrontEnd` | `parse_program` on arbitrary tokens | composes `Parser` and `Spelling` |
| `Bytecode` | the opcodes and their operands | the two operand bytes are kept, in base `BYTE` |
| `SymbolTable` | the `Resolver` struct and its operations | |
| `Scopes` | the table from `resolver_init` to `free_resolver` | a state machine over declarations and uses, in any order |
| `NameTable` | what later passes rely on | abstract specification: names with a type and a number of their own |
| `ScopesProofs` | theorems about `Scopes` | |
| `Resolver`, `TypeChecker`, `BytecodeEmit` | the three passes | pure recursive operators; `exit(1)` is a result (`ok`, `FALSE`), reading a node through the wrong union variant is `wild` |
| `Typing` | which programs are well typed | reference for `type_check`: a judgement over trees |
| `Instructions` | how `vm_run` fetches an instruction, what it reads of what it pops, its arithmetic | shared by `VM` and `ValueMachine` |
| `VM` | `vm_init`, `vm_run`, `vm_free`, the stack and the counting | a state machine, one action per group of opcodes, one counting step per value |
| `VMProofs` | theorems about `VM` | |
| `Decoding` | what `vm_run` takes for granted of the bytes | `Decodes`: an image read from the front, jump by jump; the properties of fetching |
| `StackTyping` | what `vm_run` takes for granted of types | what each opcode takes off the stack and puts on it; `Verified`: an image with the types of its slots and of the stack where each instruction starts; the properties of types |
| `CodeProofs` | theorems about `VM` on code that decodes and on verified code, and about step counts | |
| `RefCounts` | what the counts of strings are for | what is held, and the two steps of `vm_run` that miscount unless the code takes care |
| `RefCountProofs` | theorems about the counting of strings | |
| `ValueMachine` | what the machine promises | abstract specification: strings are values, arrays sequences of them, no counts, capacities or frees |
| `ValueView` | how `VM` is seen as a `ValueMachine` | the refinement mapping |
| `CarefulProofs` | theorems about what the counts mean to a program: `VM` implements `ValueMachine`, nothing dangles where care is taken | |
| `Reference` | what a program means, from the tree alone | knows no slots, jumps, bytes or counts; the abstract specification of passes and machine together |
| `Pipeline` | main: parser, passes, machine, printing, freeing | extends all of the above but the lexer |
| `Correctness` | | the pipeline with what its program means as a history variable; the properties that compare the two |
| `Control`, `Heap`, `Surface`, `MC*` | programs and constants for TLC | programs are listed as trees; main gets the tokens `Spelling` makes of them |

How `Lexer` corresponds to the code. `src`, `pos` and `current` are the fields
of `struct Lexer`; `buf` is the array a literal or a name is copied into,
`capacity` that of a string's. `mode` says which loop is running, `start` where
the running call of `lex_next` began, and `tokens` what the calls returned. A
text is a sequence of characters; `NUL` is what stands behind it. `Exits` are
the three ways to `exit(1)`.

How `Parser` corresponds to the code. A parser is the token sequence with the
place of `curr`; `peek` is the token after it. The lexer is called one token
ahead in the code; as nothing but tokens, or an exit, comes back, the parser is
modelled on the whole sequence. `After` goes on unless the code exited. The
five functions for binary operators differ in the tokens they look for and are
one operator over `Levels`. Where a list is cut down to no bytes, `realloc` may
return `NULL` (glibc does) or storage, and both are tried (`empty_ok`).

How `VM` corresponds to the code. `stack` is `Stack.data[0..top]`,
`stack_capacity`, `locals`, `pc`, `code` and `constants` are the fields of
`struct VM`. `strs` and `arrs` are every cell ever allocated; a pointer is an
index into them and `free` sets `freed`, so a use after free is visible.
`status` says where `vm_run` is: running, halted, one of the errors it reports
before `exit(1)` (`RuntimeError`), or one of the undefined behaviours the C
code would run into (`Undefined`), where the model stops. `Obstacles` lists
all that can keep the instruction at `pc` from completing, in the order the
code finds out. Counting is recursive in `stack.c`; here an instruction leaves
its pops and pushes as jobs in `todo`, and one step counts one value
(`increment_ref`, `decrement_ref`, `increment_ref_arr`, `decrement_ref_arr`).
No instruction starts before `todo` is empty, which is the order the recursion
has. The one freedom this takes is that an instruction computes its result
before the counting it caused is done; `Survives` is the guard that says the
operands outlive their pops.

## Runs

| run | programs | checks |
|---|---|---|
| `programs` | `Control`: int, bool, branches, loops, declarations in branches, bodies at the limit of a jump. `Heap`: two names for one array, nested arrays, appends past two growths, indices past the end; strings through variables, arrays, branches, loops, concatenations of fresh operands | the tokens are parsed as meant; types of every variable; the compiled program agrees with `Reference`, heap included; every held string is counted, no step miscounts one and none touches a freed cell; the last expression is printed; `vm_run` ends when the source does (liveness) |
| `types` | every operator, assignment, index, condition over every type | refused exactly if ill typed; what is accepted compiles to code that can be verified (run or not); no wrong union member, locals keep their types, arrays are homogeneous |
| `mixed` | pairs of statements, those that go wrong too | generated code decodes, run or not; jumps land on instructions, no fetch, constant or slot is out of range |
| `lexer` | every text of up to four of eleven characters, six longer ones | longest-match reading (refinement of `TokenStream`), copies fit, every token advances, no step is in vain, the lexer ends (liveness) |
| `parser` | every expression of two levels of operators and every statement around some of them; every sequence of up to five of twelve tokens; programs with one token lost, added, exchanged, swapped | written programs are read back; what is accepted is written as the tokens were |
| `scopes` | four names, two types, any order | room, slots and types stay true, refinement of `NameTable` |
| `machine` | every sequence of up to three of 14 instructions behind three beginnings, of 10 that compute, of 8 that move two strings behind four beginnings | type invariant, pointers, counts, room; refinement of `ValueMachine` |
| `finding_*` | a program or two each | one statement of the repository the code does not keep |

Findings, each a `violation` run: array literals check their first element
only (`literal`); a negative index passes the bounds check (`index`); a
concatenation counts its operands down twice (`concat`); `&&` and `||` lose
their value (`connective`); the value of an index assignment is not type
checked inside (`sides`).

Met while modelling and not runs of their own: `/=` has no test for zero
(`vm.c:155`), `bool[]` append is refused and int + int[] accepted
(`type_checker.c:104-111`, `136-148`), `s += s` of strings and `x[0];` of an int
are accepted (`type_checker.c:242`, `297`), `!=` on bools computes `==`
(`bytecode_emit.c:117-118`), `vm_free` frees a string once for every stack slot
that holds it (`vm.c:382`), the comma of a second argument or parameter is not
skipped (`parser.c:886`, `949`), the bracket of `[]` and `[1,]` is not either, so
that `[]` is refused and `[[]` accepted (`parser.c:1050`), a call without
arguments, a function without parameters or statements and an empty program
are refused where `realloc` to no bytes returns `NULL` (`parser.c:472`, `493`,
`500`, `398`), an unterminated string is never reported but copied until
`realloc` fails (`lexer.c:151`, `183`), its terminator may be written one past
the buffer (`lexer.c:181`), and a body longer than a step count can hold is
compiled to a jump elsewhere (`bytecode_emit.c:354`).

The programs of `Heap`, `Control` and `types` leave out the forms that run
into these, so that everything else is still checked; the comments at the
head of the modules say which. `mixed` leaves nothing out and asks less.

Bounds. `INT_MAX` is 7: wrap-around, division and its overflow happen with
the literals the programs use. `BYTE` is 256 as in the code except in
`programs`, where it is 40: step counts reach from -800 to 799, and
`LongestBodies` has loops and branches exactly that long (one byte more and
`MatchesReference` fails, as it does in the code beyond 32767 bytes).
`EMIT_INIT` is 8 and `RESOLVER_INIT` 1 instead of 128 and 16: every program
makes the arrays grow several times. `ARRAY_CHUNK` is 2 in `programs`, `mixed`
and `machine`, `STACK_INIT` 2 and 1 there, where growth is asked about; they
are 64 and 128 elsewhere. `Images` is empty in `programs`: the machine takes its
image from the emitter there. `MaxIterations` (20) is how long the reference
follows a loop before it calls it endless; loops that end do so after at most 3
rounds. In `lexer`, integers take 2 digits instead of 10, names 3 letters
instead of 255, a string buffer starts with 1 character instead of 256 and
`realloc` gives 8 at most: every limit is met and passed by four characters, and
the longer texts go on behind it. In `scopes` four names make a table for
one grow twice. In `machine` two strings, a variable for one and one for an array are enough to
hold a string twice, join it, push it again, load it out of an array it was
stored in, free it and touch it afterwards.
Programs are a fixed opening that declares variables, followed by one to three
statements from a set: two statements suffice to write through one name and
read through another, or to use a value after what should keep it alive.

Deadlock is not checked: the machine stops when it halts or fails, and main
when a pass refuses a program.

Fairness. `Terminates` assumes weak fairness of `RunVM`, and `LexerEnds` of the
lexer's next step: one thread runs each loop and never waits for anything, so a
step that can be taken is taken.

## Proofs

`LexerProofs` proves, for every set of sources made of the characters the
program knows (`SourcesAssumption`) and all positive sizes of the lexer's arrays
(`LexerBoundsAssumption`):

- `CopiesAlwaysFit`: `current` repeats `src[pos]`, and no digit, letter or
  character is copied past its array;
- `TokensAdvance`: every token but `TOK_EOF` moves on in the source;
- `StepsAlwaysCount`: every step moves on in the source or, where it stays,
  lowers `Work`, a number that is never negative;
- `TypesAlwaysHold`: every token returned is well formed, and no integer token
  holds more than `INT_MAX`.

The second needs to know that no literal or name is returned empty: `LexInv`
says, besides the first, that the loop over a number or a name is either past
`start` or still stands, with nothing copied, at a character it will copy. For
the third, `WorkInv` says the same of an empty buffer wherever the call began;
it is the part of `LexerEnds` that can be proved, since it leaves no room for an
endless behaviour, at the end of an unterminated string either. For the last,
`TokenInv` adds that a number's buffer holds digits and a name's letters.

`ReadingProofs` proves `LexerReads`: the lexer implements `TokenStream`, step by
step, for the same sources and sizes. Each call of `lex_next` cuts the longest
lexeme off what is left of the source, or exits where there is none or one that
no array holds; the loops in between are stutters. `ReadInv` says how far a
call has got: behind `start` there are blanks up to some place `b`, and from
there to `pos` stands the beginning of a lexeme of which `buf` is the copy. For
a number or a name that is the characters themselves. For a text it is what
`Spelled` gives for the part that has been read, no quote in it closes, and the
character at `pos` is not escaped; of a text that ends with the source nothing
is said, since it has no lexeme and is never returned. Where a call returns,
what is copied is a lexeme, and the next character shows that no longer one
follows. Where it exits with a full buffer, `KeptGrows` says that any text that
closes later is longer still.

`LexicalGrammarProofs` holds what this needs to know of the abstract reading,
which has no loop over a text and counts backslashes instead: `EscapesAlternate`
(a character is escaped if the one before is a backslash that is not),
`PlainStep` and `EscapeStep` (what one turn of the loop adds to the text), and
`LexemesOfOperator` and `LexemesOfLiteral` (the first character tells which
lexemes there can be). `NumberOf` and `Capacity` are recursive functions on an
interval. That their recursion has a solution (`RecursionHasSolution`), and what
holds of its values, is shown by a least counterexample (`LeastNumber`), since
the induction theorems of the library take an operator the provers cannot
instantiate. `AllocAssumption` says that the largest
capacity `realloc` grants is one of those `lex_parse_string` asks for; of any
other limit only the last capacity below it would matter.

`ScopesProofs` proves, for every set of names and types and every first
capacity:

- `ScopesTypeCorrect`, `TableNeverOverflows` (the table has room),
  `SlotsAlwaysTrue` (slot, name and type a node was told belong together for
  ever);
- `TableImplementsNames`: the arrays implement `NameTable`.

`ScopeInv` adds that no name is in the table twice. Only then is what
`resolver_lookup` finds, the last slot with the name, unmoved by a declaration;
the refinement rests on that lemma, with one step for each action.

`VMProofs` proves, for every set of images the emitter may hand over and every
value of `INT_MAX`, `BYTE`, `STACK_INIT` and `ARRAY_CHUNK`:

- `VMTypeCorrect`: the type invariant, in which every array has storage for at
  least one element, since `OP_ARRAPPEND` makes room by doubling;
- `PointersAlwaysLocated`: a value's tag names the member that was written and
  its pointer leads to a cell, wherever the machine holds it;
- `ArraysNeverFreed`: no array is freed by counting (so arrays never dangle,
  and their memory is never returned);
- `AppendInBounds`: an append has room;
- `PushInBounds`: a push has room.

They assume only the named assumptions of the constants: positive sizes, and
images whose constants point to strings the image has (`ImagesAssumption`,
which TLC evaluates in every run; the images are the ones the passes make of
the programs). Nothing is assumed of the bytecode: it may jump anywhere and
pop anything.

None of the machine's properties is inductive by itself, so they are proved together
(`IInv`). Pointers stay located only if what sits inside arrays is located
too, since a load pushes it; a cell stays where it is only because no
count ever rises above 0, which has to be known of every array that a counting
job still names; the capacity bound needs the type of the capacity; and the
jobs in `todo` must hold good values because counting follows them.
`StepKeepsIInv` has one case per group of actions and a lemma for each;
`ReplaceGood` is what they share, the pops and the push.

`CodeProofs` first takes one thing for granted, that every image decodes
(`Decodes`): read from the front it consists of instructions, the last one ends
where the code does, each jump in it leads to the start of one, each constant
and slot exists. Then

- `JumpsAlwaysLand`: `pc` is always at the start of an instruction or behind
  the last one;
- `CodeStaysWellFormed`: no fetch, constant or slot is ever out of range.

`DecodingInv` adds which image is loaded and that `locals` has a slot for every
name of its table; why an instruction may stop the machine all the same
(`AbortReasons`) is a lemma of its own. That bytecode_gen makes only such code
is `GeneratedCodeDecodes`, which run `mixed` checks of all it makes, also of
branches never taken; bytecode_gen is a recursion over trees, which the prover
cannot do induction on. `StepsReadBack` says of every step count whether the
two bytes written for it are read back as the same number: exactly from
`-BYTE*BYTE/2` up to `BYTE*BYTE/2 - 1`, the limit that `programs` meets and the
emitter does not test.

The rest of `CodeProofs` is the case of byte code verification. `vm_run` looks at no
tag before it reads a union; type_check and the opcodes bytecode_gen picks by
type have to be right. `StackTyping` says what right is for one
instruction: for each opcode what it takes and makes (`Takes`, `Makes`), with
slots of the declared types and, for the instructions on arrays, one type of
element chosen per instruction. An image is `Verified` if some types can
be written at the start of every instruction such that each finds what it
takes and leaves at least what is written at its successors, the targets of
jumps included. If every image can be verified (`ImagesAreTyped`) then

- `TypesAlwaysSound`: the member that is read is the member that was written;
- `ArraysStayHomogeneous`: elements of an array have one type, through any
  number of names for it;
- `NeverUnderflows`: the check in `stack_pop` never fails;
- `LocalsStayTyped`: a local holds nothing or a value of its slot's type.

None of these is inductive alone. `TypingInv` holds the types on the stack at
`pc` together with a fact about the heap: a pointer to an array is typed by
the type of the array's first element, every array has one, and the others are
of the same type. Writing to an array leaves the type of the first element
as it was (`KeepsElements`), so every other pointer to it, in a local, on the
stack or in another array, stays true; that is the lemma each instruction's
case comes back to (`SoundAllKept`). That the operands are there and in the
right member is `OperandsTyped`. The premise is checked by
`GeneratedCodeIsTyped` in run `types`: `Certificate` finds the types on the
stack by going through the code once, and all that is made of an accepted
program is verified with them, branches never taken included. It leaves out trees with `&&`
or `||`: their jump pops the value that the code behind it takes
(`finding_connective`), so they cannot be verified.

`RefCountProofs` is about `StringsAreCounted`: what is held is allocated and
counted once for itself and once for each place on the stack. `vm_run` alone
does not keep it, and `RefCounts` names the two instructions that break it
(`KeepsHeld`): pushing a constant that was freed (`PushesOnlyLive`), and
`OP_SCONCAT`, which counts its operands down once more than it popped them
(`vm.c:317`), of a string that is still held (`ConcatsOnlyLoose`). The theorem
is that these are the only two:

- `HeldStringsAreCounted`: if strings start with a count of at least 1
  (`ImagesCounted`, what `emit_push_string` gives them) then a machine in which
  these two do no harm keeps every held string counted, whatever else the bytecode
  does: loads, stores, aliases, arrays in arrays, appends, jumps.

Between two instructions the property is not inductive: `CountInv` balances it with the jobs
in `todo`. A count may be short of what is still owed to the value just pushed
(`Owed`) and ahead by what is still to be dropped (`Dropping`); drops come
before takes, a take still waiting is the top of the stack, and only a
concatenation queues a second drop, of strings nobody holds. As no count goes
below 1 without the string being freed (`LiveCounted`), a held string never
is. One lemma counts places in a sequence (`Times` of a pop, a push, a tail),
one step per action does the rest.

`CarefulProofs` asks what the counting means to a program. For every bytecode,
well typed or not, every set of images and all values of the constants,

- `CountingNeverShows`: the machine implements `ValueMachine`
  (`CountingIsInvisible`).

`ValueMachine` is what a programmer thinks the machine is. A string on its stack
is a text, an array a sequence of values behind a name that every alias shares
(growing in place is kept: it can be seen), and `Obstacles` has nothing left but
what the program itself gets wrong: members, indices, divisors, slots, jumps out
of the code, pops of an empty stack. `ValueView` gives the mapping, one
operator for each abstract variable: `Seen` reads the text out of a string's
cell, counts and capacities are dropped, every counting step and `vm_free` are
stutters. So a text never changes or vanishes under a value that refers to it,
no element moves when storage grows, and the machine stops at the instructions,
with the errors, that the ideal one stops with. There is one exception: where it
is about to touch a freed cell the code has no behaviour left, the model stops,
and the ideal machine is seen still running. That this is the only way in which
memory management can show is the theorem; the other one says when it does not:

- `CarefulCodeNeverDangles`: if strings start counted (`ImagesCounted`) and the
  code takes care, no push, pop or concatenation touches a cell after it was
  freed (`NothingDangles`).

Care is a little more here than for `HeldStringsAreCounted`. What nothing holds
is still counted down, and a string joined with itself four times, so
`TakesCare` is `KeepsHeld` and that `OP_SCONCAT` gets two different strings
(`ConcatsTwoStrings`). That the generated code takes care is `CareIsTaken`, an
action property run `programs` checks (`finding_concat` shows a program that
does not).

The refinement needs no more than `IInv` and one lemma for each action. No step
rewrites a text (`Rewritten` is false of each), so what is seen of every value
that stays is as it was (`ViewPrimes` and the lemmas behind it), and the
`Obstacles` of the two machines differ by `Dangling` at most (`ObstaclesSeen`).

`NothingDangles` is not inductive, and neither is it with `CountInv`, which
speaks of held strings only: what is popped and held no more is still counted
down. `DangleInv` adds three facts. Only a concatenation queues two rounds of
drops (`TwoRounds`). While drops are under way every string among them, held or
not, has a count left for each time it is still to be dropped, in this round and
the next (`DropsCovered`). And what is still to be counted up is held
(`TakesHeld`), so `CountInv` keeps it allocated.

Only model-checked: the parser, agreement of compiled code with the reference,
that type_check refuses just the ill typed programs, that generated code
decodes, is typed and takes care, that a program's last expression is what is
printed (the invariants and action properties of `Pipeline`, `Correctness` and
`FrontEnd`), and the two liveness properties. The first
rest on recursive operators over trees, with which the prover does without its
SMT solver; `Pipeline` reaches them, so its invariants are proved of `VM`, whose
images are a constant, and checked of `Pipeline`.

## Not modelled

Allocation failure (but for `realloc` to no bytes, and the string that never
ends), `int` width of reference counts and lengths, the layout of
printed values and the 500 byte buffer they go to, messages, debug printing,
reading the file. `start_literal` and `length` of tokens, which only debug
printing reads, and the doubling of the parser's statement and argument arrays.
What `free_ast` releases: everything read after it was copied before (names by
`resolver_declare`, texts by `emit_push_string`), the nodes it does not know it
leaves, and nothing depends on that. The order in which undefined
behaviours that could happen in the same instruction are met is left open.

## What could come next

1. On verified code counting comes to an end (types are finite, so no array is
   inside itself): the part of `Terminates` that can be proved, as `Work` is that
   of `LexerEnds`.
2. The lexer and the parser in one run, from characters to the tree.
3. `Reference` on top of `ValueMachine`: the compiler's correctness would then be
   stated without the heap.
