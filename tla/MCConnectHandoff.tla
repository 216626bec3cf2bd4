--------------------------- MODULE MCConnectHandoff ---------------------------
(* Small instances of the connect handoff for TLC. *)
EXTENDS ConnectHandoff

CONSTANTS k1, r1, r2
=============================================================================
