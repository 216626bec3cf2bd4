----------------------------- MODULE Completeness -----------------------------
(***************************************************************************)
(* Completeness reconciliation of a DistroKid snapshot and the convergence *)
(* of a retried release with its previous checkpoint: the pure functions   *)
(* of browser-assist/src/distrokid/completeness.ts and endpoint-bundle.ts, *)
(* and convergeReleaseRetryOutcome of the worker's pipeline.ts.            *)
(*                                                                         *)
(* Data kept: for every provenance-bearing field whether it is PRESENT,    *)
(* ABSENT_AT_SOURCE or NOT_CAPTURED (every other status of the code), the  *)
(* failure reason, and the listing of a release: its rows in the order of  *)
(* the page, each with what tracks are correlated by and the evidence of   *)
(* its ISRC.  Values, sources and timings are abstracted away.             *)
(***************************************************************************)
EXTENDS Integers, Sequences, FiniteSets, FiniteSetsExt

CONSTANTS
    Releases,    \* distributor release ids
    TrackIds,    \* the ids the distributor's JSON may give its tracks
    Titles,      \* track titles
    Fields       \* release-level provenance-bearing fields (upc, label, ...)

Evidence == {"PRESENT", "ABSENT_AT_SOURCE", "NOT_CAPTURED"}

\* REQUEST_FAILED stands for every reason the verdict and isRetryable do not single out (TIMEOUT,
\* PARSE_FAILED, RATE_LIMITED, BUDGET_EXHAUSTED, UNKNOWN).
Reasons == {"REQUEST_FAILED", "NOT_AUTHORIZED", "SCHEMA_CHANGED", "REAUTH_REQUIRED"}

SnapshotStatuses == {"COMPLETE", "COMPLETE_WITH_SOURCE_GAPS", "PARTIAL_RETRYABLE",
                     "PARTIAL_REAUTH_REQUIRED", "FAILED_SCHEMA_CHANGED", "FAILED"}

\* A row read from the page has no distributor id.
NoTrackId == "none"

\* Every parser numbers its rows, and a completed reading gives an untitled row the release's title.
Track == [id : TrackIds \cup {NoTrackId}, number : Nat, title : Titles, isrc : Evidence]

\* A canonical release: an optional field (label, uploadDate) may be missing altogether.
CanonicalRelease == [fields : UNION {[F -> Evidence] : F \in SUBSET Fields},
                     tracks : Seq(Track)]

Completed(rel) == [kind |-> "COMPLETED", release |-> rel]
Failed(reason) == [kind |-> "FAILED", reason |-> reason]

\* No outcome is checkpointed for the release.
NoOutcome == [kind |-> "NONE"]

Outcome == [kind : {"COMPLETED"}, release : CanonicalRelease] \cup [kind : {"FAILED"}, reason : Reasons]

-----------------------------------------------------------------------------
(* Metadata audit. *)

EvidenceRank(status) ==
    CASE status = "PRESENT" -> 3
      [] status = "ABSENT_AT_SOURCE" -> 2
      [] OTHER -> 1

StrongerEvidence(current, alternative) ==
    IF EvidenceRank(alternative) > EvidenceRank(current) THEN alternative ELSE current

\* auditReleaseMetadata looks at every field object the release carries and at every track's ISRC.
AuditedStatuses(rel) ==
    {rel.fields[f] : f \in DOMAIN rel.fields} \cup {rel.tracks[i].isrc : i \in DOMAIN rel.tracks}

ReleaseNeedsMetadataRetry(rel) == "NOT_CAPTURED" \in AuditedStatuses(rel)

-----------------------------------------------------------------------------
(* Convergence of a retry with the previous checkpoint. *)

\* A row of another reading is taken for a track if its id, its number or its title is the same.
Correlated(track, candidate) ==
    \/ track.id # NoTrackId /\ candidate.id = track.id
    \/ candidate.number = track.number
    \/ candidate.title = track.title

\* No row of a listing can be taken for another row of it.
ToldApart(listing) ==
    \A i, j \in DOMAIN listing : i # j => ~Correlated(listing[i], listing[j])

Candidates(track, listing) == {i \in DOMAIN listing : Correlated(track, listing[i])}

\* What a track is backfilled from is the first row it correlates with, whether or not that row is
\* another track with the same title.
MergeTrack(track, listing) ==
    LET alternative == listing[Min(Candidates(track, listing))]
    IN  IF Candidates(track, listing) = {}
        THEN track
        ELSE [track EXCEPT !.id = IF @ = NoTrackId THEN alternative.id ELSE @,
                           !.isrc = StrongerEvidence(@, alternative.isrc)]

\* Broken variant of the merge: the rows that can be correlated are taken for duplicates.
MergeDroppingKnownTracks(base, extra) ==
    [fields |-> base.fields,
     tracks |-> SelectSeq(base.tracks, LAMBDA track : Candidates(track, extra.tracks) = {})]

\* `base` is the newer reading; `extra` backfills what base could not capture.
MergeCanonicalRelease(base, extra) ==
    [fields |-> [f \in DOMAIN base.fields \cup DOMAIN extra.fields |->
                    IF f \notin DOMAIN extra.fields THEN base.fields[f]
                    ELSE IF f \notin DOMAIN base.fields THEN extra.fields[f]
                    ELSE StrongerEvidence(base.fields[f], extra.fields[f])],
     tracks |-> IF base.tracks = <<>>
                THEN extra.tracks
                ELSE [i \in DOMAIN base.tracks |-> MergeTrack(base.tracks[i], extra.tracks)]]

\* Broken variants of the convergence: the newest reading wins; the merged release is not wrapped.
ConvergeNewest(previous, incoming) == incoming

ConvergeUnwrapped(previous, incoming) ==
    IF previous.kind = "COMPLETED" /\ incoming.kind = "COMPLETED"
    THEN MergeCanonicalRelease(incoming.release, previous.release)
    ELSE incoming

\* convergeReleaseRetryOutcome
Converge(previous, incoming) ==
    IF previous.kind = "COMPLETED"
    THEN IF incoming.kind = "COMPLETED"
         THEN Completed(MergeCanonicalRelease(incoming.release, previous.release))
         ELSE previous
    ELSE incoming

\* A fully complete release: later passes skip it.
FullyComplete(o) == o.kind = "COMPLETED" /\ ~ReleaseNeedsMetadataRetry(o.release)

-----------------------------------------------------------------------------
(* Reconciliation.  An index is a function from the expected release ids to *)
(* the track count the index announces, 0 when it announces none.           *)

ExpectedTracksKnown(index) ==
    DOMAIN index # {} /\ \A r \in DOMAIN index : index[r] # 0

CompletedIds(outs) == {r \in Releases : outs[r].kind = "COMPLETED"}

\* Broken variant: a release the account may not read is not counted as failed.
UnrefusedFailedIds(outs) ==
    {r \in Releases : outs[r].kind = "FAILED" /\ outs[r].reason # "NOT_AUTHORIZED"}

FailedIds(outs) == {r \in Releases : outs[r].kind = "FAILED"}

\* How many tracks the releases of S listed, and how many the index announced.
TracksListed(outs, S) ==
    LET Listed(r) == Len(outs[r].release.tracks)
    IN  MapThenSumSet(Listed, S)

TracksAnnounced(index) ==
    LET Announced(r) == index[r]
    IN  MapThenSumSet(Announced, DOMAIN index)

\* reconcile + reconcileCheckpoint: what the verdict and the retry decision depend on.
Reconcile(index, outs) ==
    LET done == CompletedIds(outs)
    IN  [expected   |-> Cardinality(DOMAIN index),
         completed  |-> Cardinality(done),
         failed     |-> Cardinality(FailedIds(outs)),
         unresolved |-> {r \in DOMAIN index : outs[r].kind = "NONE"},
         reasons    |-> {outs[r].reason : r \in FailedIds(outs)},
         tracksOff  |-> ExpectedTracksKnown(index)
                          /\ TracksListed(outs, done) # TracksAnnounced(index),
         notCaptured |-> {r \in done : ReleaseNeedsMetadataRetry(outs[r].release)},
         sourceGaps  |-> \E r \in done :
                            "ABSENT_AT_SOURCE" \in AuditedStatuses(outs[r].release)]

\* Broken variants of the verdict: failed releases, or releases without an outcome, do not count.
DeriveStatusIgnoringFailed(c) ==
    IF c.unresolved # {}                               THEN "PARTIAL_RETRYABLE"
    ELSE IF "SCHEMA_CHANGED" \in c.reasons             THEN "FAILED_SCHEMA_CHANGED"
    ELSE IF "REAUTH_REQUIRED" \in c.reasons            THEN "PARTIAL_REAUTH_REQUIRED"
    ELSE IF c.expected > 0 /\ c.completed = 0          THEN "FAILED"
    ELSE IF c.tracksOff \/ c.notCaptured # {}          THEN "PARTIAL_RETRYABLE"
    ELSE IF c.sourceGaps                               THEN "COMPLETE_WITH_SOURCE_GAPS"
    ELSE "COMPLETE"

DeriveStatusIgnoringUnresolved(c) ==
    IF "SCHEMA_CHANGED" \in c.reasons                  THEN "FAILED_SCHEMA_CHANGED"
    ELSE IF "REAUTH_REQUIRED" \in c.reasons            THEN "PARTIAL_REAUTH_REQUIRED"
    ELSE IF c.expected > 0 /\ c.completed = 0          THEN "FAILED"
    ELSE IF c.failed > 0 \/ c.tracksOff \/ c.notCaptured # {}
                                                       THEN "PARTIAL_RETRYABLE"
    ELSE IF c.sourceGaps                               THEN "COMPLETE_WITH_SOURCE_GAPS"
    ELSE "COMPLETE"

\* The order of the tests is the order of the early returns in deriveStatus.
DeriveStatus(c) ==
    IF c.unresolved # {}                       THEN "PARTIAL_RETRYABLE"
    ELSE IF "SCHEMA_CHANGED" \in c.reasons     THEN "FAILED_SCHEMA_CHANGED"
    ELSE IF "REAUTH_REQUIRED" \in c.reasons    THEN "PARTIAL_REAUTH_REQUIRED"
    ELSE IF c.expected > 0 /\ c.completed = 0  THEN "FAILED"
    ELSE IF c.failed > 0 \/ c.tracksOff \/ c.notCaptured # {}
                                               THEN "PARTIAL_RETRYABLE"
    ELSE IF c.sourceGaps                       THEN "COMPLETE_WITH_SOURCE_GAPS"
    ELSE "COMPLETE"

StatusOf(index, outs) == DeriveStatus(Reconcile(index, outs))

\* Broken variant: a transient failure is taken for permanent.
IsRetryableUnlessRequestFailed(reason) ==
    reason \notin {"NOT_AUTHORIZED", "SCHEMA_CHANGED", "REQUEST_FAILED"}

IsRetryable(reason) == reason \notin {"NOT_AUTHORIZED", "SCHEMA_CHANGED"}

RetryableReleaseIds(index, outs) ==
    {r \in FailedIds(outs) : IsRetryable(outs[r].reason)}
      \cup {r \in CompletedIds(outs) : ReleaseNeedsMetadataRetry(outs[r].release)}
      \cup {r \in DOMAIN index : outs[r].kind = "NONE"}
=============================================================================
