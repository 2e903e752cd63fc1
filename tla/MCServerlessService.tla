------------------------ MODULE MCServerlessService ------------------------
(* Instances of ServerlessService for TLC. *)
EXTENDS ServerlessService, TLC

Symmetry == Permutations(Requests)

=============================================================================
