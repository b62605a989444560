------------------------------ MODULE MCPrograms ------------------------------
(***************************************************************************)
(* The whole way of a program, from its tokens to the value main prints,   *)
(* for the programs of Control and of Heap.                                *)
(***************************************************************************)
EXTENDS Control, Heap, Correctness

AllPrograms == ControlPrograms \cup HeapPrograms
=============================================================================
