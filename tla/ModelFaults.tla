----------------------------- MODULE ModelFaults -----------------------------
(* The bound on failures of the environment, and the absent value, that    *)
(* every component model shares.  Neither models code.                     *)
EXTENDS Naturals

CONSTANTS
  MaxFaults,   \* bound on failed calls and crashes
  None         \* no row, no key, no request

ASSUME FaultsAssumption == MaxFaults \in Nat

VARIABLE faults  \* failures so far
=============================================================================
