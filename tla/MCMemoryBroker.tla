---------------------------- MODULE MCMemoryBroker ----------------------------
(* A small instance of MemoryBroker for TLC. *)
EXTENDS MemoryBroker, TLC

Symmetry ==
  Permutations(Publishers) \cup Permutations(Consumers) \cup Permutations(Closers)
===============================================================================
