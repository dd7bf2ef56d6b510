----------------------------- MODULE MCReconcile -----------------------------
(* Reconcile on small instances. *)
EXTENDS Reconcile, TLC

Symmetry == Permutations(Worker)
=============================================================================
