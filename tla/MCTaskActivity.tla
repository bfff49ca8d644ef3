--------------------------- MODULE MCTaskActivity ---------------------------
(* Instances of TaskActivity for TLC. *)
EXTENDS TaskActivity, TLC

Symmetry == Permutations(Requests) \cup Permutations(Users)
=============================================================================
