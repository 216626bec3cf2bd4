-------------------------- MODULE SnapshotLifecycle --------------------------
(***************************************************************************)
(* What the extraction pipeline promises about one snapshot, whatever      *)
(* workers, sweeps and faults do: one verdict is decided and never         *)
(* replaced; only that verdict is published; the user's remote browser     *)
(* session is released only once the verdict is published (or the snapshot *)
(* was cancelled); and the authority to reach that session again is given  *)
(* up only after the session is released, and never granted again.         *)
(***************************************************************************)
CONSTANTS
    Verdicts,     \* the possible terminal verdicts
    Open,         \* no verdict yet
    Cancelled     \* the verdict of a cancelled snapshot

VARIABLES verdict, published, session, authority

vars == <<verdict, published, session, authority>>

Init ==
    /\ verdict = Open
    /\ published = Open
    /\ session = "live"
    /\ authority = FALSE

Grant ==
    /\ verdict = Open
    /\ authority' = TRUE
    /\ UNCHANGED <<verdict, published, session>>

Decide ==
    /\ verdict = Open
    /\ verdict' \in Verdicts \cup {Cancelled}
    /\ UNCHANGED <<published, session, authority>>

Publish ==
    /\ verdict \in Verdicts
    /\ published' = verdict
    /\ UNCHANGED <<verdict, session, authority>>

Release ==
    /\ verdict # Open
    /\ published = verdict \/ verdict = Cancelled
    /\ session' = "released"
    /\ UNCHANGED <<verdict, published, authority>>

Forget ==
    /\ session = "released"
    /\ authority' = FALSE
    /\ UNCHANGED <<verdict, published, session>>

Next == Grant \/ Decide \/ Publish \/ Release \/ Forget

Spec == Init /\ [][Next]_vars
=============================================================================
