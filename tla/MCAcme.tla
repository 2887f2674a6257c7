------------------------------- MODULE MCAcme -------------------------------
(* Model values for the ACME provisioning model.                           *)
EXTENDS Acme

CONSTANTS p1, p2, d1, d2
=============================================================================
