------------------------------ MODULE Frontend ------------------------------
(* What the models of the frontend share.  They name everything else apart, *)
(* so that FrontendProofs can speak of all of them.                         *)
EXTENDS Naturals

CONSTANTS
    Slots,      \* bound: requests under way at the same time
    NULL        \* nothing

OrNull(S) == S \cup {NULL}

(* Where slots are numbered, the numbers mean nothing: the least that is    *)
(* free is taken.                                                           *)
Least(s, S) == s \in S /\ \A r \in S : s <= r
=============================================================================
