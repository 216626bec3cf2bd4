--------------------------- MODULE RetryConvergence ---------------------------
(***************************************************************************)
(* The checkpointed outcomes of one snapshot under any sequence of release *)
(* readings: what repeated, replayed and partly failed retry passes make   *)
(* of the data.  Only the convergence of readings is modelled here; queues,*)
(* locks and verdict claims are in SnapshotPipeline.                       *)
(***************************************************************************)
EXTENDS Completeness

CONSTANTS
    Catalogues,   \* the index readings: functions from release ids to announced track counts
    Readings      \* for each release, the outcomes a browser reading of it may produce

ASSUME ConvergenceAssumption ==
    /\ IsFiniteSet(Releases)
    /\ \A c \in Catalogues : DOMAIN c \subseteq Releases
    /\ Readings \in [Releases -> SUBSET Outcome]

VARIABLES
    index,        \* the snapshot's catalogue index
    outs          \* the checkpointed outcome of every release

vars == <<index, outs>>

TypeOK ==
    /\ index \in Catalogues
    /\ outs \in [Releases -> Outcome \cup {NoOutcome}]

Init ==
    /\ index \in Catalogues
    /\ outs = [r \in Releases |-> NoOutcome]

\* One release of a chunk is read and checkpointed.  A fully complete release is skipped.
Checkpoint(r, reading) ==
    /\ r \in DOMAIN index
    /\ ~FullyComplete(outs[r])
    /\ outs' = [outs EXCEPT ![r] = Converge(outs[r], reading)]
    /\ UNCHANGED index

Next == \E r \in Releases : \E reading \in Readings[r] : Checkpoint(r, reading)

Spec == Init /\ [][Next]_vars

-----------------------------------------------------------------------------
(* Properties. *)

\* Of the rows of `listing`, the one at j is the only one the track can be taken for.
OnlyMatch(track, listing, j) == Candidates(track, listing) = {j}

\* A retry never turns a completed release into a failed one, never weakens what is known of a
\* field, and never weakens what is known of a track that can be taken for one row of the
\* checkpoint only (convergeReleaseRetryOutcome, mergeCanonicalRelease, strongerEvidence): also
\* when rows are renumbered, reordered, renamed or left out between the readings.
EvidenceNeverWeakens ==
    [][\A r \in Releases :
          outs[r].kind = "COMPLETED" =>
             /\ outs'[r].kind = "COMPLETED"
             /\ \A f \in DOMAIN outs[r].release.fields :
                   /\ f \in DOMAIN outs'[r].release.fields
                   /\ EvidenceRank(outs'[r].release.fields[f])
                        >= EvidenceRank(outs[r].release.fields[f])
             /\ \A i \in DOMAIN outs'[r].release.tracks, j \in DOMAIN outs[r].release.tracks :
                   OnlyMatch(outs'[r].release.tracks[i], outs[r].release.tracks, j) =>
                      EvidenceRank(outs'[r].release.tracks[i].isrc)
                        >= EvidenceRank(outs[r].release.tracks[j].isrc)]_vars

\* The chunk stage converges a reading when it checkpoints the batch and once more when the chunk
\* ends, and a stalled job replays both: applying the same reading again changes nothing, provided
\* that no row of the merged listing can be taken for another one.
ReplayIsNoop ==
    \A r \in Releases : \A reading \in Readings[r] :
        LET once == Converge(outs[r], reading)
        IN  (reading.kind = "COMPLETED" => ToldApart(once.release.tracks)) =>
                Converge(once, reading) = once

\* What a COMPLETE verdict promises, stated without the order of deriveStatus' tests.
FullyRead ==
    /\ \A r \in DOMAIN index : FullyComplete(outs[r])
    /\ ExpectedTracksKnown(index) =>
          TracksListed(outs, DOMAIN index) = TracksAnnounced(index)

\* A snapshot is COMPLETE (with or without source gaps) exactly when every indexed release was read
\* with no extractor-owned gap and the announced number of tracks was found (deriveStatus).
CompleteIffFullyRead ==
    StatusOf(index, outs) \in {"COMPLETE", "COMPLETE_WITH_SOURCE_GAPS"} <=> FullyRead

\* A PARTIAL_RETRYABLE verdict leaves something to retry, unless what is missing can only be a
\* refused release or a track count that does not add up (deriveStatus against retryableReleaseIds).
RetryableVerdictHasWork ==
    (StatusOf(index, outs) = "PARTIAL_RETRYABLE" /\ RetryableReleaseIds(index, outs) = {}) =>
        \/ \E r \in Releases : outs[r] = Failed("NOT_AUTHORIZED")
        \/ Reconcile(index, outs).tracksOff

\* The three definitions that follow are what the comments of the code say of a retry; the code
\* keeps none of them (README, section 3.2).

\* Every song a completed checkpoint lists is still listed after any retry of its release.
VerifiedSongsRetained ==
    [][\A r \in Releases :
          (outs[r].kind = "COMPLETED" /\ outs'[r].kind = "COMPLETED") =>
              \A j \in DOMAIN outs[r].release.tracks :
                  \E i \in DOMAIN outs'[r].release.tracks :
                      Correlated(outs'[r].release.tracks[i], outs[r].release.tracks[j])]_vars

\* A track that keeps its number and its title keeps its verified ISRC.
VerifiedFieldsRetained ==
    [][\A r \in Releases :
          (outs[r].kind = "COMPLETED" /\ outs'[r].kind = "COMPLETED") =>
              \A j \in DOMAIN outs[r].release.tracks, i \in DOMAIN outs'[r].release.tracks :
                  LET old == outs[r].release.tracks[j]
                      new == outs'[r].release.tracks[i]
                  IN  (new.number = old.number /\ new.title = old.title) =>
                          EvidenceRank(new.isrc) >= EvidenceRank(old.isrc)]_vars

\* A replay never captures an ISRC the reading did not have ("never appended by guesswork").
NothingGuessed ==
    \A r \in Releases : \A reading \in Readings[r] :
        LET once == Converge(outs[r], reading)
        IN  Converge(once, reading) = once
=============================================================================
