-------------------------- MODULE MCKubeDeployments --------------------------
(* Instances of KubeDeployments for TLC. *)
EXTENDS KubeDeployments, TLC

Symmetry == Permutations(Requests)

Counts == {-1, 2}

=============================================================================
