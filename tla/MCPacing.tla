------------------------------ MODULE MCPacing ------------------------------
(* Model checking of Pacing. *)
EXTENDS Pacing
=============================================================================
