------------------------------ MODULE MCIngress ------------------------------
(* Ingress on small instances. *)
EXTENDS Ingress, TLC

Symmetry == Permutations(Worker)
=============================================================================
