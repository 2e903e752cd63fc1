-------------------------- MODULE MCComputeService --------------------------
(* Instances of ComputeService for TLC. *)
EXTENDS ComputeService

\* No network, one, and the same one twice.
Lists == {<< >>} \cup {<<n>> : n \in Networks} \cup {<<n, n>> : n \in Networks}

=============================================================================
