----------------------------- MODULE ScanRecords -----------------------------
(***************************************************************************)
(* The components that write a user's scans.  They meet only through the   *)
(* promises each one keeps (PresenceScan relies on the atomic updates that *)
(* SearchRecords shows), so a behaviour follows one of them, chosen in the *)
(* initial state.                                                          *)
(***************************************************************************)
EXTENDS SearchRecords, SearchHistory, PresenceScan, CatalogueOutcomes

VARIABLE part

\* A part that is not followed keeps one of its initial states.
ScansInit ==
  /\ part \in {"records", "history", "presence", "outcomes"}
  /\ IF part = "history" THEN TRUE ELSE rows = {} /\ walk = NewWalk(CHOOSE u \in Users : TRUE)
  /\ RecordsInit /\ HistoryInit /\ PresenceInit /\ OutcomesInit

ScansNext ==
  /\ UNCHANGED part
  /\ IF part = "records" THEN RecordsNext ELSE UNCHANGED recordState
  /\ IF part = "history" THEN HistoryNext /\ UNCHANGED boundVars ELSE UNCHANGED historyVars
  /\ IF part = "presence" THEN PresenceNext ELSE UNCHANGED presenceState
  /\ IF part = "outcomes" THEN OutcomesNext ELSE UNCHANGED outcomeState

ScansSpec ==
  ScansInit /\ [][ScansNext]_<<part, recordState, historyVars, presenceState, outcomeState, boundVars>>

(* The component a behaviour follows keeps its types. *)
TypesOK ==
  /\ part = "records" => RecordsTypeOK
  /\ part = "history" => HistoryTypeOK
  /\ part = "presence" => PresenceTypeOK
  /\ part = "outcomes" => OutcomesTypeOK
=============================================================================
