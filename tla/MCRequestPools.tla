--------------------------- MODULE MCRequestPools ---------------------------
(* Instances of RequestPools for TLC. *)
EXTENDS RequestPools
=============================================================================
