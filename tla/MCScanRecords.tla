---------------------------- MODULE MCScanRecords ----------------------------
(* Values for the constants of ScanRecords, for TLC. *)
EXTENDS ScanRecords

CONSTANTS c1, c2, u1, u2, id1, id2, q1, r1
=============================================================================
