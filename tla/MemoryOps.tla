------------------------------ MODULE MemoryOps ------------------------------
(***************************************************************************)
(* What an instruction of process p asks of the memory system: the part of *)
(* a step that the program knows of, shared by AddressSpaces and by the    *)
(* modules that implement it.                                              *)
(***************************************************************************)
LoadOf(p, a) == [op |-> "load", proc |-> p, page |-> a]
StoreOf(p, a, w) == [op |-> "store", proc |-> p, page |-> a, word |-> w]
ForkOf(p) == [op |-> "fork", proc |-> p]

\* The instruction has no memory operand, or is going to be restarted.
NoOp == [op |-> "none"]
=============================================================================
