------------------------------ MODULE MCTabPool ------------------------------
(* A small instance of the tab pool for TLC. *)
EXTENDS TabPool

CONSTANTS a1, a2, t1, t2
=============================================================================
