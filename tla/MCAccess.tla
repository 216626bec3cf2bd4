------------------------------ MODULE MCAccess ------------------------------
(* Values for the constants of Access, for TLC. *)
EXTENDS Access

CONSTANTS k1, r1, r2, m1, m2, q1, q2
=============================================================================
