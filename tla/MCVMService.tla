----------------------------- MODULE MCVMService -----------------------------
(* Instances of VMService for TLC. *)
EXTENDS VMService, TLC

Symmetry == Permutations(Requests)

=============================================================================
