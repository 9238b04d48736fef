------------------------------- MODULE MCRing -------------------------------
(* Model checking of Ring. *)
EXTENDS Ring

CONSTANTS w1, w2, s1
=============================================================================
