---------------------------- MODULE MCLogMemory ----------------------------
(* Instances of LogMemory for TLC. *)
EXTENDS LogMemory, TLC

Symmetry == Permutations(Requests) \cup Permutations(Ids) \cup Permutations(Ctxs)

=============================================================================
