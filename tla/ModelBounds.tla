----------------------------- MODULE ModelBounds -----------------------------
(***************************************************************************)
(* Bounds and counters shared by the component models that are checked     *)
(* together in one run.  None of them models code: every bound limits how  *)
(* often the environment acts.                                             *)
(***************************************************************************)
EXTENDS ModelFaults, FiniteSets

CONSTANTS
  MaxCalls,    \* bound on requests and user edits
  MaxFinals,   \* bound on runs of the snapshot finalizer
  MaxAttempts, \* attempts of a queued job
  MaxTracks    \* the longest catalogue or release, in tracks

ASSUME BoundsAssumption ==
  /\ {MaxCalls, MaxFinals, MaxTracks} \subseteq Nat
  /\ MaxAttempts \in Nat \ {0}

VARIABLES
  calls,   \* requests and edits so far
  finals   \* runs of the finalizer so far

boundVars == <<calls, finals, faults>>

BoundsInit == calls = 0 /\ finals = 0 /\ faults = 0
=============================================================================
