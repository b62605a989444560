------------------------------- MODULE Scopes -------------------------------
(***************************************************************************)
(* The symbol table at work: the calls resolve makes for the nodes of a    *)
(* program, in whatever order the program has them, and the end of the     *)
(* table, when main keeps its count for the machine and frees it.          *)
(***************************************************************************)
EXTENDS SymbolTable

CONSTANTS Names, Types    \* identifiers, and the types they are declared with

VARIABLES
  table,       \* main's `r'
  nodes,       \* the name, slot and var_type of every node resolved so far
  num_locals,  \* main's num_locals
  stage        \* "resolving", "refused" (exit(1)), "freed"

scopevars == <<table, nodes, num_locals, stage>>

ScopeInit ==
  /\ table = resolver_init /\ nodes = {} /\ num_locals = 0
  /\ stage = "resolving"

Resolved(name, slot, type) == [name |-> name, slot |-> slot, var_type |-> type]

(* AST_VAR_DECL and AST_FUNCTION_DECL.                                     *)
Declare(name, type) ==
  /\ stage = "resolving" /\ ~Declared(table, name)
  /\ table' = resolver_declare(table, name, type)
  /\ nodes' = nodes \cup {Resolved(name, NewSlot(table), type)}
  /\ UNCHANGED <<num_locals, stage>>

DeclareAgain(name) ==
  /\ stage = "resolving" /\ Declared(table, name)
  /\ stage' = "refused"
  /\ UNCHANGED <<table, nodes, num_locals>>

(* AST_VAR_ASSIGN, AST_VAR_REF, AST_COMPOUND_ASSIGNMENT, AST_FUNCTION_CALL.*)
Use(name) ==
  /\ stage = "resolving"
  /\ LET slot == resolver_lookup(table, name)
     IN  IF slot = -1 THEN stage' = "refused" /\ UNCHANGED nodes
         ELSE /\ nodes' = nodes \cup {Resolved(name, slot, TypeAt(table, slot))}
              /\ UNCHANGED stage
  /\ UNCHANGED <<table, num_locals>>

(* int num_locals = r.count; free_resolver(&r);                            *)
free_resolver ==
  /\ stage = "resolving" /\ stage' = "freed"
  /\ num_locals' = Len(table.names)
  /\ UNCHANGED <<table, nodes>>

ScopeNext ==
  \/ \E name \in Names :
       DeclareAgain(name) \/ Use(name) \/ \E type \in Types : Declare(name, type)
  \/ free_resolver

ScopeSpec == ScopeInit /\ [][ScopeNext]_scopevars

-----------------------------------------------------------------------------
(* Properties.                                                             *)

(* What the table, the nodes and main's count can hold.                    *)
ScopeTypeOK ==
  /\ table \in [names : Seq(Names), types : Seq(Types), capacity : Nat]
  /\ nodes \in SUBSET [name : Names, slot : Nat, var_type : Types]
  /\ num_locals \in Nat /\ stage \in {"resolving", "refused", "freed"}

(* names[] and types[] are never written behind their common capacity, and *)
(* have an entry each for every declaration.                               *)
RoomInTable ==
  Len(table.names) = Len(table.types) /\ Len(table.names) <= table.capacity

(* What a node was told still holds: the slot it was given, perhaps many   *)
(* declarations and two reallocations ago, is that of its name, no other   *)
(* name has it, and type_check, which asks the table again, finds the same *)
(* type there.                                                             *)
SlotsStayTrue ==
  \A n \in nodes :
    /\ n.slot < Len(table.names)
    /\ table.names[n.slot + 1] = n.name /\ TypeAt(table, n.slot) = n.var_type
    /\ \A m \in nodes : m.slot = n.slot <=> m.name = n.name

(* The table, arrays searched from the front, is a function from the       *)
(* declared names to numbers and types; and the slots the nodes were given *)
(* are the locals the machine gets.                                        *)
DeclaredNames == {table.names[i] : i \in DOMAIN table.names}

Abstract == INSTANCE NameTable WITH
  number <- [name \in DeclaredNames |-> resolver_lookup(table, name)],
  known  <- [name \in DeclaredNames |-> TypeAt(table, resolver_lookup(table, name))],
  told   <- nodes,
  locals <- 0 .. num_locals - 1,
  state  <- IF stage = "resolving" THEN "open" ELSE IF stage = "freed" THEN "closed" ELSE "refused"

ImplementsNameTable == Abstract!NameSpec
=============================================================================
