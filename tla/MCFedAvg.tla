------------------------------ MODULE MCFedAvg ------------------------------
(***************************************************************************)
(* Instances of FedAvg for TLC: one hidden layer of two neurons, local     *)
(* models that differ in every parameter.                                  *)
(***************************************************************************)
EXTENDS FedAvg

Rank(p) == p[2] + (IF p[3] = "bias" THEN 2 ELSE 0)
TwoModels == {[p \in Parameter |-> Rank(p)], [p \in Parameter |-> 1 - 2 * Rank(p)]}

=============================================================================
