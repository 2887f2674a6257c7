------------------------------ MODULE MCHandoff ------------------------------
(* Model of Handoff for TLC.                                               *)
EXTENDS Handoff

CONSTANTS c1, c2, c3, c4
=============================================================================
