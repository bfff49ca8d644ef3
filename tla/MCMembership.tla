---------------------------- MODULE MCMembership ----------------------------
(* Instances of Membership for TLC. *)
EXTENDS Membership, TLC

(* Users who are not administrators are interchangeable, and so are slots. *)
Symmetry == Permutations(Users \ Admins) \cup Permutations(Requests)
=============================================================================
