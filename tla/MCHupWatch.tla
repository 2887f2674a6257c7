----------------------------- MODULE MCHupWatch -----------------------------
(* Model of HupWatch for TLC: three connections on two fd numbers.         *)
EXTENDS HupWatch

CONSTANTS c1, c2, c3, f1, f2
=============================================================================
