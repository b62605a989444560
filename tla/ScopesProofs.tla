---------------------------- MODULE ScopesProofs ----------------------------
(***************************************************************************)
(* Theorems about Scopes, for every set of names and types and every       *)
(* initial capacity: the table never overflows, what a node was told stays *)
(* true, and the table implements NameTable.                               *)
(***************************************************************************)
EXTENDS Scopes, SequenceTheorems, TLAPS

(* No name stands in a table twice.                                        *)
Distinct(r) == \A i, j \in DOMAIN r.names : r.names[i] = r.names[j] => i = j

NamesDiffer == Distinct(table)

(* The inductive invariant.  The second conjunct of RoomInTable needs a    *)
(* positive capacity to survive doubling, and SlotsStayTrue needs names to *)
(* stand in one place only.                                                *)
ScopeInv == ScopeTypeOK /\ table.capacity > 0 /\ RoomInTable /\ NamesDiffer /\ SlotsStayTrue
             /\ (stage # "freed" => num_locals = 0)
             /\ (stage = "freed" => num_locals = Len(table.names))

-----------------------------------------------------------------------------
(* Lookup finds the one place a name has.                                  *)
LEMMA LookupFinds ==
  ASSUME NEW r, NEW S, r.names \in Seq(S), Distinct(r), NEW i \in DOMAIN r.names
  PROVE  resolver_lookup(r, r.names[i]) = i - 1
<1> DEFINE P(k) == /\ r.names[k] = r.names[i]
                   /\ \A j \in DOMAIN r.names : r.names[j] = r.names[i] => j <= k
<1>1. DOMAIN r.names = 1 .. Len(r.names) /\ Len(r.names) \in Nat
  BY LenProperties
<1>2. P(i)
  BY <1>1 DEF Distinct
<1>3. \A k \in DOMAIN r.names : P(k) => k = i
  BY DEF Distinct
<1>4. (CHOOSE k \in DOMAIN r.names : P(k)) = i
  BY <1>2, <1>3, Zenon
<1>5. Declared(r, r.names[i])
  BY DEF Declared
<1> QED
  BY <1>4, <1>5 DEF resolver_lookup

(* It says -1 only when there is none.                                     *)
LEMMA LookupSaysNo ==
  ASSUME NEW r, NEW S, r.names \in Seq(S), Distinct(r), NEW name
  PROVE  resolver_lookup(r, name) = -1 <=> ~Declared(r, name)
<1>1. CASE Declared(r, name)
  <2>1. PICK i \in DOMAIN r.names : r.names[i] = name
    BY <1>1 DEF Declared
  <2>2. resolver_lookup(r, name) = i - 1
    BY <2>1, LookupFinds
  <2>3. i \in Nat /\ i >= 1
    BY LenProperties
  <2> QED
    BY <1>1, <2>2, <2>3
<1>2. CASE ~Declared(r, name)
  BY <1>2 DEF resolver_lookup
<1> QED
  BY <1>1, <1>2

(* What a declaration leaves in the table: what was there, and one entry   *)
(* more behind it, with room for it.                                       *)
LEMMA DeclareAppends ==
  ASSUME ScopeInv, NEW name \in Names, NEW type \in Types,
         table' = resolver_declare(table, name, type)
  PROVE  /\ table' \in [names : Seq(Names), types : Seq(Types), capacity : Nat]
         /\ Len(table'.names) = Len(table.names) + 1
         /\ Len(table'.types) = Len(table.types) + 1
         /\ Len(table'.names) <= table'.capacity /\ table'.capacity > 0
         /\ \A i \in 1 .. Len(table.names) :
              table'.names[i] = table.names[i] /\ table'.types[i] = table.types[i]
         /\ table'.names[Len(table.names) + 1] = name
         /\ table'.types[Len(table.names) + 1] = type
<1> DEFINE room == IF Len(table.names) >= table.capacity THEN resolver_resize(table) ELSE table
<1>1. /\ table \in [names : Seq(Names), types : Seq(Types), capacity : Nat]
      /\ table.names \in Seq(Names) /\ table.types \in Seq(Types) /\ table.capacity \in Nat \ {0}
      /\ Len(table.names) = Len(table.types) /\ Len(table.names) <= table.capacity
      /\ Len(table.names) \in Nat
  BY LenProperties DEF ScopeInv, ScopeTypeOK, RoomInTable
<1>2. /\ room = [names |-> table.names, types |-> table.types, capacity |-> room.capacity]
      /\ room.capacity \in Nat \ {0} /\ Len(table.names) + 1 <= room.capacity
  BY <1>1 DEF resolver_resize
<1>3. table' = [names |-> Append(table.names, name), types |-> Append(table.types, type),
                capacity |-> room.capacity]
  <2>1. table' = [room EXCEPT !.names = Append(room.names, name), !.types = Append(room.types, type)]
    BY DEF resolver_declare
  <2> HIDE DEF room
  <2>2. room.names = table.names /\ room.types = table.types
    BY <1>2
  <2> QED
    BY <1>2, <2>1, <2>2
<1>4. /\ Append(table.names, name) \in Seq(Names) /\ Len(Append(table.names, name)) = Len(table.names) + 1
      /\ Append(table.names, name)[Len(table.names) + 1] = name
      /\ \A i \in 1 .. Len(table.names) : Append(table.names, name)[i] = table.names[i]
  BY <1>1, AppendProperties
<1>5. /\ Append(table.types, type) \in Seq(Types) /\ Len(Append(table.types, type)) = Len(table.types) + 1
      /\ Append(table.types, type)[Len(table.types) + 1] = type
      /\ \A i \in 1 .. Len(table.types) : Append(table.types, type)[i] = table.types[i]
  BY <1>1, AppendProperties
<1> HIDE DEF room
<1> QED
  BY <1>1, <1>2, <1>3, <1>4, <1>5

-----------------------------------------------------------------------------
LEMMA InitInv == ScopeInit => ScopeInv
<1> SUFFICES ASSUME ScopeInit PROVE ScopeInv
  OBVIOUS
<1>1. /\ table = [names |-> <<>>, types |-> <<>>, capacity |-> RESOLVER_INIT]
      /\ nodes = {} /\ num_locals = 0 /\ stage = "resolving"
  BY DEF ScopeInit, resolver_init
<1>2. /\ <<>> \in Seq(Names) /\ <<>> \in Seq(Types) /\ Len(<<>>) = 0 /\ DOMAIN <<>> = {}
  BY EmptySeq, LenProperties
<1>3. RESOLVER_INIT \in Nat \ {0}
  BY ResolverInitAssumption
<1>4. ScopeTypeOK
  BY <1>1, <1>2, <1>3 DEF ScopeTypeOK
<1>5. RoomInTable /\ NamesDiffer /\ SlotsStayTrue
  BY <1>1, <1>2, <1>3 DEF RoomInTable, NamesDiffer, Distinct, SlotsStayTrue
<1> QED
  BY <1>1, <1>3, <1>4, <1>5 DEF ScopeInv

(* A declaration.                                                          *)
LEMMA DeclareKeepsInv ==
  ASSUME ScopeInv, NEW name \in Names, NEW type \in Types, Declare(name, type)
  PROVE  ScopeInv'
<1> DEFINE n == Len(table.names)
<1>1. /\ table' = resolver_declare(table, name, type) /\ ~Declared(table, name)
      /\ nodes' = nodes \cup {Resolved(name, n, type)}
      /\ num_locals' = num_locals /\ stage' = stage /\ stage = "resolving"
  BY DEF Declare, NewSlot
<1>2. /\ table' \in [names : Seq(Names), types : Seq(Types), capacity : Nat]
      /\ Len(table'.names) = n + 1 /\ Len(table'.types) = Len(table.types) + 1
      /\ Len(table'.names) <= table'.capacity /\ table'.capacity > 0
      /\ \A i \in 1 .. n :
           table'.names[i] = table.names[i] /\ table'.types[i] = table.types[i]
      /\ table'.names[n + 1] = name /\ table'.types[n + 1] = type
  BY <1>1, DeclareAppends
<1>3. /\ table.names \in Seq(Names) /\ DOMAIN table.names = 1 .. n /\ n \in Nat
      /\ n = Len(table.types) /\ num_locals = 0
      /\ nodes \in SUBSET [name : Names, slot : Nat, var_type : Types]
  BY <1>1, LenProperties DEF ScopeInv, ScopeTypeOK, RoomInTable
<1>4. table'.names \in Seq(Names) /\ DOMAIN table'.names = 1 .. n + 1
  BY <1>2, LenProperties
<1>5. \A i \in 1 .. n : table.names[i] # name
  BY <1>1, <1>3 DEF Declared
<1>6. Resolved(name, n, type) \in [name : Names, slot : Nat, var_type : Types]
  BY <1>3 DEF Resolved
<1>7. ScopeTypeOK'
  BY <1>1, <1>2, <1>3, <1>6 DEF ScopeInv, ScopeTypeOK
<1>8. RoomInTable'
  BY <1>2, <1>3 DEF RoomInTable
<1>9. NamesDiffer'
  <2> SUFFICES ASSUME NEW i \in 1 .. n + 1, NEW j \in 1 .. n + 1, table'.names[i] = table'.names[j]
               PROVE  i = j
    BY <1>4 DEF NamesDiffer, Distinct
  <2>1. CASE i \in 1 .. n /\ j \in 1 .. n
    BY <1>2, <1>3, <2>1 DEF ScopeInv, NamesDiffer, Distinct
  <2>2. CASE i \in 1 .. n /\ j = n + 1
    BY <1>2, <1>5, <2>2
  <2>3. CASE i = n + 1 /\ j \in 1 .. n
    BY <1>2, <1>5, <2>3
  <2>4. CASE i = n + 1 /\ j = n + 1
    BY <2>4
  <2> QED
    BY <1>3, <2>1, <2>2, <2>3, <2>4
<1>10. SlotsStayTrue'
  <2> DEFINE Holds(m) == /\ m.slot < Len(table'.names)
                         /\ table'.names[m.slot + 1] = m.name
                         /\ TypeAt(table', m.slot) = m.var_type
  <2>1. ASSUME NEW m \in nodes
        PROVE  Holds(m) /\ m.slot < n /\ m.slot \in Nat /\ m.name # name
    <3>1. m.slot \in Nat /\ m.slot < n /\ table.names[m.slot + 1] = m.name
          /\ TypeAt(table, m.slot) = m.var_type
      BY <1>3 DEF ScopeInv, SlotsStayTrue
    <3>2. m.slot + 1 \in 1 .. n
      BY <1>3, <3>1
    <3> QED
      BY <1>2, <1>3, <1>5, <3>1, <3>2 DEF TypeAt
  <2>2. Holds(Resolved(name, n, type))
    BY <1>2, <1>3 DEF Resolved, TypeAt
  <2>3. Resolved(name, n, type).slot = n /\ Resolved(name, n, type).name = name
    BY DEF Resolved
  <2>4. \A m \in nodes' : Holds(m)
    BY <1>1, <2>1, <2>2
  <2>5. \A l, m \in nodes' : m.slot = l.slot <=> m.name = l.name
    <3> SUFFICES ASSUME NEW l \in nodes', NEW m \in nodes'
                 PROVE  m.slot = l.slot <=> m.name = l.name
      OBVIOUS
    <3>1. CASE l \in nodes /\ m \in nodes
      BY <3>1 DEF ScopeInv, SlotsStayTrue
    <3>2. CASE l \in nodes /\ m = Resolved(name, n, type)
      BY <1>3, <2>1, <2>3, <3>2
    <3>3. CASE l = Resolved(name, n, type) /\ m \in nodes
      BY <1>3, <2>1, <2>3, <3>3
    <3>4. CASE l = Resolved(name, n, type) /\ m = Resolved(name, n, type)
      BY <3>4
    <3> QED
      BY <1>1, <3>1, <3>2, <3>3, <3>4
  <2> QED
    BY <2>4, <2>5 DEF SlotsStayTrue
<1> QED
  BY <1>1, <1>2, <1>3, <1>7, <1>8, <1>9, <1>10 DEF ScopeInv

(* A mention.                                                              *)
LEMMA UseKeepsInv ==
  ASSUME ScopeInv, NEW name \in Names, Use(name)
  PROVE  ScopeInv'
<1> DEFINE slot == resolver_lookup(table, name)
<1>1. table' = table /\ num_locals' = num_locals /\ stage = "resolving" /\ num_locals = 0
  BY DEF Use, ScopeInv
<1>2. table.names \in Seq(Names) /\ DOMAIN table.names = 1 .. Len(table.names)
      /\ Len(table.names) \in Nat /\ DOMAIN table.types = 1 .. Len(table.names)
      /\ table.types \in Seq(Types)
  BY LenProperties DEF ScopeInv, ScopeTypeOK, RoomInTable
<1>3. CASE slot = -1
  <2>1. stage' = "refused" /\ nodes' = nodes
    BY <1>3 DEF Use
  <2>2. ScopeTypeOK' /\ RoomInTable' /\ NamesDiffer' /\ SlotsStayTrue'
    BY <1>1, <2>1 DEF ScopeInv, ScopeTypeOK, RoomInTable, NamesDiffer, SlotsStayTrue
  <2> QED
    BY <1>1, <2>1, <2>2 DEF ScopeInv
<1>4. CASE slot # -1
  <2>1. PICK i \in 1 .. Len(table.names) : table.names[i] = name
    BY <1>2, <1>4, LookupSaysNo DEF Declared, ScopeInv, NamesDiffer
  <2>2. slot = i - 1
    BY <1>2, <2>1, LookupFinds DEF ScopeInv, NamesDiffer
  <2> DEFINE node == Resolved(name, slot, TypeAt(table, slot))
  <2>3. nodes' = nodes \cup {node} /\ stage' = stage
    BY <1>4 DEF Use
  <2>4. /\ slot \in Nat /\ slot < Len(table.names) /\ table.names[slot + 1] = name
        /\ TypeAt(table, slot) \in Types
    BY <1>2, <2>1, <2>2 DEF TypeAt
  <2> HIDE DEF slot
  <2>5. node.name = name /\ node.slot = slot /\ node.var_type = TypeAt(table, slot)
        /\ node \in [name : Names, slot : Nat, var_type : Types]
    BY <2>4 DEF Resolved
  <2> HIDE DEF node
  <2>6. ScopeTypeOK'
    BY <1>1, <2>3, <2>5 DEF ScopeInv, ScopeTypeOK
  <2>7. \A m \in nodes : m.slot \in Nat /\ m.slot < Len(table.names)
                          /\ table.names[m.slot + 1] = m.name /\ TypeAt(table, m.slot) = m.var_type
    BY DEF ScopeInv, ScopeTypeOK, SlotsStayTrue
  <2>8. \A m \in nodes' : m.slot \in Nat /\ m.slot < Len(table.names)
                          /\ table.names[m.slot + 1] = m.name /\ TypeAt(table, m.slot) = m.var_type
    BY <2>3, <2>4, <2>5, <2>7
  <2>9. \A l, m \in nodes' : m.slot = l.slot <=> m.name = l.name
    <3> SUFFICES ASSUME NEW l \in nodes', NEW m \in nodes'
                 PROVE  m.slot = l.slot <=> m.name = l.name
      OBVIOUS
    <3>1. l.slot + 1 \in DOMAIN table.names /\ m.slot + 1 \in DOMAIN table.names
      BY <1>2, <2>8
    <3>2. m.name = l.name => m.slot + 1 = l.slot + 1
      BY <2>8, <3>1 DEF ScopeInv, NamesDiffer, Distinct
    <3> QED
      BY <2>8, <3>2
  <2>10. SlotsStayTrue'
    BY <1>1, <2>8, <2>9 DEF SlotsStayTrue
  <2> QED
    BY <1>1, <2>3, <2>6, <2>10 DEF ScopeInv, RoomInTable, NamesDiffer
<1> QED
  BY <1>3, <1>4

LEMMA StepKeepsInv == ScopeInv /\ [ScopeNext]_scopevars => ScopeInv'
<1> SUFFICES ASSUME ScopeInv, [ScopeNext]_scopevars PROVE ScopeInv'
  OBVIOUS
<1>1. ASSUME NEW name \in Names, NEW type \in Types, Declare(name, type)
      PROVE  ScopeInv'
  BY <1>1, DeclareKeepsInv
<1>2. ASSUME NEW name \in Names, Use(name)
      PROVE  ScopeInv'
  BY <1>2, UseKeepsInv
<1>3. ASSUME NEW name \in Names, DeclareAgain(name)
      PROVE  ScopeInv'
  BY <1>3 DEF DeclareAgain, ScopeInv, ScopeTypeOK, RoomInTable, NamesDiffer, SlotsStayTrue
<1>4. CASE free_resolver
  <2>1. Len(table.names) \in Nat
    BY LenProperties DEF ScopeInv, ScopeTypeOK
  <2> QED
    BY <1>4, <2>1
    DEF free_resolver, ScopeInv, ScopeTypeOK, RoomInTable, NamesDiffer, SlotsStayTrue
<1>5. CASE UNCHANGED scopevars
  BY <1>5 DEF scopevars, ScopeInv, ScopeTypeOK, RoomInTable, NamesDiffer, SlotsStayTrue
<1> QED
  BY <1>1, <1>2, <1>3, <1>4, <1>5 DEF ScopeNext

(* The invariant from which the theorems below follow.                     *)
THEOREM ScopesInductive == ScopeSpec => []ScopeInv
<1> QED
  BY InitInv, StepKeepsInv, PTL DEF ScopeSpec

(* The symbol table and the annotations of the nodes keep their types:     *)
(* resolver.c:8-47 and the annotations of resolve.                         *)
THEOREM ScopesTypeCorrect == ScopeSpec => []ScopeTypeOK
<1>1. ScopeInv => ScopeTypeOK
  BY DEF ScopeInv
<1> QED
  BY ScopesInductive, <1>1, PTL

(* names[] and types[] are enlarged in time, whatever their first capacity *)
(* (resolver.c:40-46).                                                     *)
THEOREM TableNeverOverflows == ScopeSpec => []RoomInTable
<1>1. ScopeInv => RoomInTable
  BY DEF ScopeInv
<1> QED
  BY ScopesInductive, <1>1, PTL

(* A slot handed out once (resolver.c:70, 74, 82) means the same variable  *)
(* and type for as long as anybody asks.                                   *)
THEOREM SlotsAlwaysTrue == ScopeSpec => []SlotsStayTrue
<1>1. ScopeInv => SlotsStayTrue
  BY DEF ScopeInv
<1> QED
  BY ScopesInductive, <1>1, PTL

-----------------------------------------------------------------------------
(* The table seen as NameTable sees it.                                    *)

Number(r) == [name \in {r.names[i] : i \in DOMAIN r.names} |-> resolver_lookup(r, name)]
Known(r)  == [name \in {r.names[i] : i \in DOMAIN r.names} |-> TypeAt(r, resolver_lookup(r, name))]

LEMMA EntrySeen ==
  ASSUME NEW r, NEW S, r.names \in Seq(S), Distinct(r), NEW i \in DOMAIN r.names
  PROVE  Number(r)[r.names[i]] = i - 1 /\ Known(r)[r.names[i]] = r.types[i]
<1>1. resolver_lookup(r, r.names[i]) = i - 1
  BY LookupFinds
<1>2. i \in Nat
  BY LenProperties
<1> QED
  BY <1>1, <1>2 DEF Number, Known, TypeAt

LEMMA InitRefines == ScopeInit => Abstract!NameInit
<1> SUFFICES ASSUME ScopeInit PROVE Abstract!NameInit
  OBVIOUS
<1>1. /\ table.names = <<>> /\ nodes = {} /\ num_locals = 0 /\ stage = "resolving"
  BY DEF ScopeInit, resolver_init
<1>2. DeclaredNames = {}
  BY <1>1 DEF DeclaredNames
<1>3. 0 .. num_locals - 1 = {}
  BY <1>1
<1> QED
  BY <1>1, <1>2, <1>3 DEF Abstract!NameInit

LEMMA DeclareRefines ==
  ASSUME ScopeInv, ScopeInv', NEW name \in Names, NEW type \in Types, Declare(name, type)
  PROVE  Abstract!Introduce(name, type)
<1> DEFINE n == Len(table.names)
<1>1. /\ table' = resolver_declare(table, name, type) /\ ~Declared(table, name)
      /\ nodes' = nodes \cup {Resolved(name, n, type)}
      /\ num_locals' = num_locals /\ stage' = stage /\ stage = "resolving"
  BY DEF Declare, NewSlot
<1>2. /\ Len(table'.names) = n + 1
      /\ \A i \in 1 .. n :
           table'.names[i] = table.names[i] /\ table'.types[i] = table.types[i]
      /\ table'.names[n + 1] = name /\ table'.types[n + 1] = type
  BY <1>1, DeclareAppends
<1>3. /\ table.names \in Seq(Names) /\ DOMAIN table.names = 1 .. n /\ n \in Nat
      /\ table'.names \in Seq(Names) /\ DOMAIN table'.names = 1 .. n + 1
      /\ Distinct(table) /\ Distinct(table')
  BY <1>2, LenProperties DEF ScopeInv, ScopeTypeOK, NamesDiffer
<1>4. DeclaredNames' = DeclaredNames \cup {name} /\ name \notin DeclaredNames
  <2>1. name \notin DeclaredNames
    BY <1>1 DEF DeclaredNames, Declared
  <2>2. DeclaredNames = {table.names[i] : i \in 1 .. n}
    BY <1>3 DEF DeclaredNames
  <2>3. DeclaredNames' = {table'.names[i] : i \in 1 .. n + 1}
    BY <1>3 DEF DeclaredNames
  <2>4. 1 .. n + 1 = (1 .. n) \cup {n + 1}
    BY <1>3
  <2>5. DeclaredNames' = {table'.names[i] : i \in 1 .. n} \cup {table'.names[n + 1]}
    BY <2>3, <2>4
  <2>6. {table'.names[i] : i \in 1 .. n} = {table.names[i] : i \in 1 .. n}
    BY <1>2
  <2> QED
    BY <1>2, <2>1, <2>2, <2>5, <2>6
<1>5. \A m \in DeclaredNames :
        /\ Number(table')[m] = Number(table)[m] /\ Known(table')[m] = Known(table)[m]
        /\ Number(table)[m] \in 0 .. n - 1
  <2> SUFFICES ASSUME NEW i \in 1 .. n
               PROVE  LET m == table.names[i]
                      IN  /\ Number(table')[m] = Number(table)[m] /\ Known(table')[m] = Known(table)[m]
                          /\ Number(table)[m] \in 0 .. n - 1
    BY <1>3 DEF DeclaredNames
  <2>1. Number(table)[table.names[i]] = i - 1 /\ Known(table)[table.names[i]] = table.types[i]
    BY <1>3, EntrySeen
  <2>2. Number(table')[table'.names[i]] = i - 1 /\ Known(table')[table'.names[i]] = table'.types[i]
    BY <1>3, EntrySeen
  <2> QED
    BY <1>2, <1>3, <2>1, <2>2
<1>6. Number(table')[name] = n /\ Known(table')[name] = type
  <2>1. PICK k \in DOMAIN table'.names : k = n + 1
    BY <1>3
  <2>2. Number(table')[table'.names[k]] = k - 1 /\ Known(table')[table'.names[k]] = table'.types[k]
    BY <1>3, EntrySeen
  <2> QED
    BY <1>2, <1>3, <2>1, <2>2
<1>7. /\ DOMAIN Number(table) = DeclaredNames /\ DOMAIN Known(table) = DeclaredNames
      /\ Number(table') = [m \in DeclaredNames \cup {name} |-> Number(table')[m]]
      /\ Known(table') = [m \in DeclaredNames \cup {name} |-> Known(table')[m]]
  BY <1>4 DEF Number, Known, DeclaredNames
<1>8. Number(table') \in [DeclaredNames \cup {name} -> Nat]
  BY <1>3, <1>5, <1>6, <1>7
<1>9. \A m \in DeclaredNames : Number(table')[m] = Number(table)[m] /\ Number(table')[name] # Number(table)[m]
  BY <1>3, <1>5, <1>6
<1>10. Known(table') = [m \in DeclaredNames \cup {name} |-> IF m = name THEN type ELSE Known(table)[m]]
  BY <1>4, <1>5, <1>6, <1>7
<1>11. nodes' = nodes \cup {Abstract!Answer(name, Number(table')[name], type)}
  BY <1>1, <1>6 DEF Resolved, Abstract!Answer
<1> QED
  BY <1>1, <1>4, <1>7, <1>8, <1>9, <1>10, <1>11
  DEF Abstract!Introduce, DeclaredNames, Number, Known

LEMMA UseRefines ==
  ASSUME ScopeInv, NEW name \in Names, Use(name)
  PROVE  Abstract!Mention(name) \/ Abstract!Refuse
<1> DEFINE slot == resolver_lookup(table, name)
<1>1. table' = table /\ num_locals' = num_locals /\ stage = "resolving"
  BY DEF Use
<1>2. table.names \in Seq(Names) /\ Distinct(table)
  BY DEF ScopeInv, ScopeTypeOK, NamesDiffer
<1>3. CASE slot = -1
  BY <1>1, <1>3 DEF Use, Abstract!Refuse, DeclaredNames
<1>4. CASE slot # -1
  <2>1. Declared(table, name)
    BY <1>2, <1>4, LookupSaysNo
  <2>2. name \in DeclaredNames
    BY <2>1 DEF DeclaredNames, Declared
  <2>3. nodes' = nodes \cup {Abstract!Answer(name, slot, TypeAt(table, slot))} /\ stage' = stage
    BY <1>4 DEF Use, Resolved, Abstract!Answer
  <2> QED
    BY <1>1, <2>2, <2>3 DEF Abstract!Mention, DeclaredNames
<1> QED
  BY <1>3, <1>4

LEMMA FreeRefines ==
  ASSUME ScopeInv, free_resolver
  PROVE  Abstract!Close
<1> DEFINE n == Len(table.names)
<1>1. /\ table' = table /\ nodes' = nodes /\ num_locals' = n
      /\ stage = "resolving" /\ stage' = "freed"
  BY DEF free_resolver
<1>2. /\ table.names \in Seq(Names) /\ DOMAIN table.names = 1 .. n /\ n \in Nat /\ Distinct(table)
  BY LenProperties DEF ScopeInv, ScopeTypeOK, NamesDiffer
<1>3. DOMAIN Number(table) = DeclaredNames
  BY DEF Number, DeclaredNames
<1>4. \A i \in 1 .. n : Number(table)[table.names[i]] = i - 1
  BY <1>2, EntrySeen
<1>5. {Number(table)[m] : m \in DeclaredNames} = 0 .. n - 1
  <2>1. ASSUME NEW m \in DeclaredNames
        PROVE  Number(table)[m] \in 0 .. n - 1
    BY <1>2, <1>4 DEF DeclaredNames
  <2>2. ASSUME NEW k \in 0 .. n - 1
        PROVE  \E m \in DeclaredNames : Number(table)[m] = k
    <3>1. k + 1 \in 1 .. n /\ k + 1 - 1 = k
      BY <1>2
    <3>2. table.names[k + 1] \in DeclaredNames
      BY <1>2, <3>1 DEF DeclaredNames
    <3> QED
      BY <1>4, <3>1, <3>2
  <2> QED
    BY <2>1, <2>2
<1> QED
  BY <1>1, <1>3, <1>5 DEF Abstract!Close, Number, DeclaredNames

LEMMA StepRefines ==
  ScopeInv /\ ScopeInv' /\ [ScopeNext]_scopevars => [Abstract!NameNext]_(Abstract!namevars)
<1> SUFFICES ASSUME ScopeInv, ScopeInv', [ScopeNext]_scopevars
             PROVE  Abstract!NameNext \/ UNCHANGED Abstract!namevars
  OBVIOUS
<1>1. ASSUME NEW name \in Names, NEW type \in Types, Declare(name, type)
      PROVE  Abstract!NameNext
  BY <1>1, DeclareRefines DEF Abstract!NameNext
<1>2. ASSUME NEW name \in Names, Use(name)
      PROVE  Abstract!NameNext
  BY <1>2, UseRefines DEF Abstract!NameNext
<1>3. ASSUME NEW name \in Names, DeclareAgain(name)
      PROVE  Abstract!NameNext
  <2>1. Abstract!Refuse
    BY <1>3 DEF DeclareAgain, Abstract!Refuse, DeclaredNames
  <2> QED
    BY <2>1 DEF Abstract!NameNext
<1>4. CASE free_resolver
  BY <1>4, FreeRefines DEF Abstract!NameNext
<1>5. CASE UNCHANGED scopevars
  BY <1>5 DEF scopevars, Abstract!namevars, DeclaredNames
<1> QED
  BY <1>1, <1>2, <1>3, <1>4, <1>5 DEF ScopeNext

(* The arrays of the symbol table, appended to, reallocated and searched   *)
(* from the front, are what the later passes take them for: one number and *)
(* one type for each name, told to every node, and a local for every       *)
(* number.                                                                 *)
THEOREM TableImplementsNames == ScopeSpec => ImplementsNameTable
<1> QED
  BY ScopesInductive, InitRefines, StepRefines, PTL
  DEF ScopeSpec, ImplementsNameTable, Abstract!NameSpec
=============================================================================
