-------------------------- MODULE MCEmailDelivery --------------------------
(* Instances of EmailDelivery for TLC.                                     *)
EXTENDS EmailDelivery, TLC

\* Slots and reconcile() calls are interchangeable.
Symmetry == Permutations(Slots) \cup Permutations(Reconcilers)
=============================================================================
