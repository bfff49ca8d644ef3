---------------------------- MODULE MCWorkItems ----------------------------
(* Instances of WorkItems for TLC. *)
EXTENDS WorkItems, TLC

(* Slots and sprints are interchangeable; not used with liveness. *)
Symmetry == Permutations(Requests) \cup Permutations(Sprints)

(* No guard reads the audit log; used where no property reads it either. *)
AllButActivity == <<items, nextId, req>>
=============================================================================
