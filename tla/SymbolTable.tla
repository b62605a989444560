---------------------------- MODULE SymbolTable ----------------------------
(***************************************************************************)
(* The Resolver struct of resolver.h and its operations: one flat table of *)
(* declared names.  A name's slot is its place in the table, from 0.       *)
(***************************************************************************)
EXTENDS Values

CONSTANT RESOLVER_INIT        \* initial capacity of the table: 16

ASSUME ResolverInitAssumption == RESOLVER_INIT \in Nat \ {0}

resolver_init == [names |-> <<>>, types |-> <<>>, capacity |-> RESOLVER_INIT]

Declared_butlast(r, name) ==                       \* mutant: the last name is not compared
  \E i \in DOMAIN r.names : i < Len(r.names) /\ r.names[i] = name

Declared(r, name) == \E i \in DOMAIN r.names : r.names[i] = name

resolver_keep(r) == r                            \* mutant: no room is made
resolver_resize(r) == [r EXCEPT !.capacity = 2 * r.capacity]

NewSlot_after(r) == Len(r.names) + 1               \* mutant: ++r->count
NewSlot(r) == Len(r.names)

(* Mutant: the type is not stored.                                         *)
resolver_declare_untyped(r, name, type) ==
  LET room == IF Len(r.names) >= r.capacity THEN resolver_resize(r) ELSE r
  IN  [room EXCEPT !.names = Append(@, name), !.types = Append(@, unknown_type)]

(* Only for a name not yet declared: a second declaration exits.           *)
resolver_declare(r, name, type) ==
  LET room == IF Len(r.names) >= r.capacity THEN resolver_resize(r) ELSE r
  IN  [room EXCEPT !.names = Append(@, name), !.types = Append(@, type)]

(* The last slot with that name, -1 if there is none.                      *)
resolver_lookup(r, name) ==
  IF Declared(r, name)
  THEN (CHOOSE i \in DOMAIN r.names :
          r.names[i] = name /\ \A j \in DOMAIN r.names : r.names[j] = name => j <= i) - 1
  ELSE -1

TypeAt(r, slot) == r.types[slot + 1]
=============================================================================
