------------------------------ MODULE MCOutbox ------------------------------
(* Outbox on small instances. *)
EXTENDS Outbox, TLC

Symmetry == Permutations(Worker)
=============================================================================
