------------------------------ MODULE NameTable ------------------------------
(***************************************************************************)
(* What the passes behind the resolver rely on: a name is declared once,   *)
(* with a type and a number of its own; every node that mentions the name  *)
(* is told that number and that type; and when the names are all known     *)
(* their numbers are the numbers of the locals the machine is started      *)
(* with.                                                                   *)
(***************************************************************************)
EXTENDS Integers, FiniteSets

CONSTANTS Names, Types

VARIABLES
  known,     \* the type of every declared name
  number,    \* the number of every declared name
  told,      \* what the nodes met so far were told
  locals,    \* the numbers the machine has a local for; {} before it is asked
  state      \* "open", "closed" or "refused"

namevars == <<known, number, told, locals, state>>

NameInit ==
  known = <<>> /\ number = <<>> /\ told = {} /\ locals = {} /\ state = "open"

Answer(name, n, type) == [name |-> name, slot |-> n, var_type |-> type]

(* A new name gets a number no other name has.                             *)
Introduce(name, type) ==
  /\ state = "open" /\ name \notin DOMAIN known
  /\ number' \in [DOMAIN number \cup {name} -> Nat]
  /\ \A m \in DOMAIN number : number'[m] = number[m] /\ number'[name] # number[m]
  /\ told' = told \cup {Answer(name, number'[name], type)}
  /\ known' = [m \in DOMAIN known \cup {name} |-> IF m = name THEN type ELSE known[m]]
  /\ UNCHANGED <<locals, state>>

Mention(name) ==
  /\ state = "open" /\ name \in DOMAIN known
  /\ told' = told \cup {Answer(name, number[name], known[name])}
  /\ UNCHANGED <<known, number, locals, state>>

(* A name declared again, or mentioned before it is declared.              *)
Refuse ==
  /\ state = "open" /\ state' = "refused"
  /\ UNCHANGED <<known, number, told, locals>>

Close ==
  /\ state = "open" /\ state' = "closed"
  /\ locals' = {number[m] : m \in DOMAIN number}
  /\ UNCHANGED <<known, number, told>>

NameNext ==
  \/ \E name \in Names, type \in Types : Introduce(name, type)
  \/ \E name \in Names : Mention(name)
  \/ Refuse \/ Close

NameSpec == NameInit /\ [][NameNext]_namevars
=============================================================================
