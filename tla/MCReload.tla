------------------------------ MODULE MCReload ------------------------------
(* Model values and bounds for the reload protocol.                        *)
EXTENDS ReloadRollout

CONSTANTS c, w1, w2, f1, f2
=============================================================================
