----------------------------- MODULE MCSprints -----------------------------
(* Instances of Sprints for TLC. *)
EXTENDS Sprints, TLC

Symmetry == Permutations(Requests)
=============================================================================
