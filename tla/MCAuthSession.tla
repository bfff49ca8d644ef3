--------------------------- MODULE MCAuthSession ---------------------------
(* Instances of AuthSession for TLC. *)
EXTENDS AuthSession, TLC

(* Users are interchangeable, and so are slots; not used with liveness. *)
Symmetry == Permutations(Users) \cup Permutations(Slots)
=============================================================================
