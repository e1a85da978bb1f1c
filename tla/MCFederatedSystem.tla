-------------------------- MODULE MCFederatedSystem --------------------------
(***************************************************************************)
(* Instances of FederatedSystem for TLC.                                   *)
(***************************************************************************)
EXTENDS FederatedSystem, TLC

CONSTANTS n1, n2, n3

\* Boards are interchangeable.
BoardSymmetry == Permutations(Node)

=============================================================================
