------------------------ MODULE MCFunctionRegistry ------------------------
(* Instances of FunctionRegistry for TLC. *)
EXTENDS FunctionRegistry, TLC

Symmetry == Permutations(Requests) \cup Permutations(Ids)

=============================================================================
