------------------------------- MODULE Values -------------------------------
(***************************************************************************)
(* The types of the language and the tagged values the virtual machine     *)
(* moves: VarType (parser.h), StackValue, StringValue and ArrayValue       *)
(* (stack.h), and the machine's integer arithmetic.                        *)
(***************************************************************************)
EXTENDS Integers, Sequences

CONSTANT INT_MAX      \* the largest C int; 2^31 - 1 in the build

ASSUME IntMaxAssumption == INT_MAX \in Nat \ {0}

-----------------------------------------------------------------------------
(* Types.  `nested' counts array brackets from -1: int is -1, int[] is 0.  *)

BaseType == {"int", "bool", "string", "unknown"}

VarType == [base_type : BaseType, nested : Int]

Scalar(b) == [base_type |-> b, nested |-> -1]

int_type     == Scalar("int")
bool_type    == Scalar("bool")
string_type  == Scalar("string")
unknown_type == Scalar("unknown")

ArrayOf_flat(t)   == t                  \* mutants: the depth is left as it is
ElementOf_flat(t) == t

ArrayOf(t)   == [t EXCEPT !.nested = t.nested + 1]
ElementOf(t) == [t EXCEPT !.nested = t.nested - 1]
IsArrayType(t) == t.nested # -1

-----------------------------------------------------------------------------
(* A StackValue is a type tag and a union.  `member' records which member  *)
(* of the union was written last ("none" for a local nothing was stored    *)
(* to); the C code has no such field and trusts the compiler.  `val' is    *)
(* the integer, 0 or 1 for a bool, and for the two pointers the index of   *)
(* the StringValue or ArrayValue in the heap.                              *)

Member == {"int_val", "bool_val", "string_val", "array_val", "none"}

StackValue == [type : VarType, member : Member, val : Int]

IntValue(n)      == [type |-> int_type,    member |-> "int_val",    val |-> n]
BoolValue(p)     == [type |-> bool_type,   member |-> "bool_val",   val |-> IF p THEN 1 ELSE 0]
StringRef(s)     == [type |-> string_type, member |-> "string_val", val |-> s]
ArrayRef(t, a)   == [type |-> t,           member |-> "array_val",  val |-> a]
Garbage          == [type |-> unknown_type, member |-> "none",      val |-> 0]

(* stack_push and stack_pop decide by the type tag what is counted.        *)
IsString(v)  == v.type.base_type = "string" /\ v.type.nested = -1
IsArray(v)   == v.type.nested # -1
IsCounted(v) == IsString(v) \/ IsArray(v)

(* A heap cell is never reused: `freed' remembers that free() was called.  *)
(* An array owns storage from the start: doubling a capacity of 0 would    *)
(* never make room.                                                        *)
StringValue == [text : Seq(STRING), ref_count : Int, freed : BOOLEAN]
ArrayValue  == [arr_val : Seq(StackValue), capacity : Nat \ {0}, ref_count : Int, freed : BOOLEAN]

-----------------------------------------------------------------------------
(* int arithmetic: two's complement wrap-around of the unoptimised build,  *)
(* division truncating towards zero.                                       *)

INT_MIN == -INT_MAX - 1

Wrap(n) == ((n - INT_MIN) % (2 * (INT_MAX + 1))) + INT_MIN

AbsInt(n) == IF n < 0 THEN -n ELSE n

Quotient(a, b) ==
  LET q == AbsInt(a) \div AbsInt(b) IN IF (a < 0) = (b < 0) THEN q ELSE -q

Remainder(a, b) == a - b * Quotient(a, b)
=============================================================================
