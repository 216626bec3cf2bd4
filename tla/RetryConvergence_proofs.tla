----------------------- MODULE RetryConvergence_proofs -----------------------
(***************************************************************************)
(* Proofs about the checkpoints of a snapshot under any sequence of        *)
(* readings, for every catalogue, every set of readings and any number of  *)
(* retries.  TypeOK is inductive; the other two theorems follow from it    *)
(* and from the lemmas of Completeness_proofs.                             *)
(***************************************************************************)
EXTENDS RetryConvergence, Completeness_proofs

\* Checkpoints stay well-formed under any sequence of readings.
THEOREM TypeCorrect == Spec => []TypeOK
<1>1. Init => TypeOK
  BY DEF Init, TypeOK
<1>2. ASSUME TypeOK, [Next]_vars PROVE TypeOK'
  <2>1. ASSUME NEW r \in Releases, NEW reading \in Readings[r], Checkpoint(r, reading)
        PROVE  TypeOK'
    <3>1. Converge(outs[r], reading) \in Outcome
      BY <1>2, ConvergeType, ConvergenceAssumption DEF TypeOK
    <3> QED BY <1>2, <2>1, <3>1 DEF TypeOK, Checkpoint
  <2>2. CASE UNCHANGED vars
    BY <1>2, <2>2 DEF TypeOK, vars
  <2> QED BY <1>2, <2>1, <2>2 DEF Next
<1> QED BY <1>1, <1>2, PTL DEF Spec

\* Replaying a reading that was already converged into a reachable checkpoint is a no-op, provided
\* that no row of the converged listing can be taken for another one: with two such rows the code
\* copies what is known of one into the other (README, section 3.2).
THEOREM ReplaySafe == Spec => []ReplayIsNoop
<1>1. TypeOK => ReplayIsNoop
  <2> SUFFICES ASSUME TypeOK, NEW r \in Releases, NEW reading \in Readings[r],
                      reading.kind = "COMPLETED" =>
                          ToldApart(Converge(outs[r], reading).release.tracks)
               PROVE  Converge(Converge(outs[r], reading), reading) = Converge(outs[r], reading)
    BY DEF ReplayIsNoop
  <2>1. outs[r] \in Outcome \cup {NoOutcome} /\ reading \in Outcome
    BY ConvergenceAssumption DEF TypeOK
  <2> QED BY <2>1, ConvergeReplay
<1> QED BY <1>1, TypeCorrect, PTL

\* No step loses a completed release or weakens what is known of its fields and of the tracks that
\* can be taken for one row of the checkpoint only.
THEOREM EvidenceMonotone == Spec => EvidenceNeverWeakens
<1> DEFINE Keeps(r) ==
      outs[r].kind = "COMPLETED" =>
             /\ outs'[r].kind = "COMPLETED"
             /\ \A f \in DOMAIN outs[r].release.fields :
                   /\ f \in DOMAIN outs'[r].release.fields
                   /\ EvidenceRank(outs'[r].release.fields[f])
                        >= EvidenceRank(outs[r].release.fields[f])
             /\ \A i \in DOMAIN outs'[r].release.tracks, j \in DOMAIN outs[r].release.tracks :
                   OnlyMatch(outs'[r].release.tracks[i], outs[r].release.tracks, j) =>
                      EvidenceRank(outs'[r].release.tracks[i].isrc)
                        >= EvidenceRank(outs[r].release.tracks[j].isrc)
<1>1. ASSUME TypeOK, NEW r \in Releases, outs'[r] = outs[r] PROVE Keeps(r)
  <2>1. \A e \in Evidence : EvidenceRank(e) >= EvidenceRank(e)
    BY DEF Evidence, EvidenceRank
  <2> SUFFICES ASSUME outs[r].kind = "COMPLETED" PROVE Keeps(r)
    OBVIOUS
  <2> DEFINE rel == outs[r].release
  <2>2. rel \in CanonicalRelease
    BY <1>1, OutcomeShape DEF TypeOK
  <2> HIDE DEF rel
  <2>3. \A f \in DOMAIN rel.fields : rel.fields[f] \in Evidence
    BY <2>2 DEF CanonicalRelease
  <2>4. \A i \in DOMAIN rel.tracks : rel.tracks[i].isrc \in Evidence
    <3>1. rel.tracks \in Seq(Track)
      BY <2>2 DEF CanonicalRelease
    <3>2. \A i \in DOMAIN rel.tracks : rel.tracks[i] \in Track
      BY <3>1
    <3> QED BY <3>2 DEF Track
  <2>5. ASSUME NEW i \in DOMAIN rel.tracks, NEW j \in DOMAIN rel.tracks,
               OnlyMatch(rel.tracks[i], rel.tracks, j)
        PROVE  i = j
    BY <2>5 DEF OnlyMatch, Candidates, Correlated
  <2> QED BY <1>1, <2>1, <2>3, <2>4, <2>5 DEF rel
<1>2. ASSUME TypeOK, NEW r \in Releases, NEW reading \in Readings[r], Checkpoint(r, reading)
      PROVE  Keeps(r)
  <2> SUFFICES ASSUME outs[r].kind = "COMPLETED" PROVE Keeps(r)
    OBVIOUS
  <2>1. outs'[r] = Converge(outs[r], reading)
    BY <1>2 DEF TypeOK, Checkpoint
  <2>2. CASE reading.kind = "COMPLETED"
    <3>1. outs[r] \in Outcome \cup {NoOutcome} /\ reading \in Outcome
      BY <1>2, ConvergenceAssumption DEF TypeOK
    <3>2. outs[r].release \in CanonicalRelease /\ reading.release \in CanonicalRelease
      BY <2>2, <3>1, OutcomeShape
    <3>3. /\ outs'[r].kind = "COMPLETED"
          /\ outs'[r].release = MergeCanonicalRelease(reading.release, outs[r].release)
      BY <2>1, <2>2 DEF Converge, Completed
    <3> QED BY <3>2, <3>3, MergeKeepsEvidence DEF OnlyMatch
  <2>3. CASE reading.kind # "COMPLETED"
    <3>1. outs'[r] = outs[r]
      BY <2>1, <2>3 DEF Converge
    <3> QED BY <1>1, <1>2, <3>1
  <2> QED BY <2>2, <2>3
<1>3. ASSUME TypeOK, [Next]_vars, NEW r \in Releases PROVE Keeps(r)
  <2>1. ASSUME NEW q \in Releases, NEW reading \in Readings[q], Checkpoint(q, reading)
        PROVE  Keeps(r)
    <3>1. CASE q = r  BY <1>2, <1>3, <2>1, <3>1
    <3>2. CASE q # r
      <4>1. outs'[r] = outs[r]
        BY <1>3, <2>1, <3>2 DEF TypeOK, Checkpoint
      <4> QED BY <1>1, <1>3, <4>1
    <3> QED BY <3>1, <3>2
  <2>2. CASE UNCHANGED vars
    <3>1. outs'[r] = outs[r]
      BY <2>2 DEF vars
    <3> QED BY <1>1, <1>3, <3>1
  <2> QED BY <1>3, <2>1, <2>2 DEF Next
<1>4. TypeOK /\ [Next]_vars => [\A r \in Releases : Keeps(r)]_vars
  BY <1>3
<1> QED BY <1>4, TypeCorrect, PTL DEF Spec, EvidenceNeverWeakens

-----------------------------------------------------------------------------
(* The verdict.  Reconciliation counts every checkpointed outcome, so what  *)
(* it says of the index needs that no other release has an outcome.         *)

OnlyIndexed == \A r \in Releases \ DOMAIN index : outs[r] = NoOutcome

LEMMA OnlyIndexedInvariant == Spec => [](TypeOK /\ OnlyIndexed)
<1>1. Init => OnlyIndexed
  BY DEF Init, OnlyIndexed
<1>2. ASSUME TypeOK, OnlyIndexed, [Next]_vars PROVE OnlyIndexed'
  <2>1. ASSUME NEW r \in Releases, NEW reading \in Readings[r], Checkpoint(r, reading)
        PROVE  OnlyIndexed'
    BY <1>2, <2>1 DEF TypeOK, OnlyIndexed, Checkpoint
  <2>2. CASE UNCHANGED vars
    BY <1>2, <2>2 DEF OnlyIndexed, vars
  <2> QED BY <1>2, <2>1, <2>2 DEF Next
<1> QED BY <1>1, <1>2, TypeCorrect, PTL DEF Spec

LEMMA IndexInReleases == ASSUME TypeOK PROVE DOMAIN index \in SUBSET Releases
BY ConvergenceAssumption DEF TypeOK

\* What has an outcome after a full reading.
LEMMA FullyReadIds ==
    ASSUME TypeOK, OnlyIndexed, \A r \in DOMAIN index : FullyComplete(outs[r])
    PROVE  CompletedIds(outs) = DOMAIN index /\ FailedIds(outs) = {}
<1>1. \A r \in DOMAIN index : outs[r].kind = "COMPLETED"
  BY DEF FullyComplete
<1>2. \A r \in Releases \ DOMAIN index : outs[r].kind = "NONE"
  BY DEF OnlyIndexed, NoOutcome
<1> QED BY <1>1, <1>2, IndexInReleases DEF CompletedIds, FailedIds

\* deriveStatus says COMPLETE exactly when every indexed release was read without an
\* extractor-owned gap and the announced number of tracks was found: for every catalogue, every
\* kind of reading and any number of retries.
THEOREM VerdictExact == Spec => []CompleteIffFullyRead
<1>1. ASSUME TypeOK, OnlyIndexed PROVE CompleteIffFullyRead
  <2> DEFINE c == Reconcile(index, outs)
  <2>1. /\ IsFiniteSet(Releases) /\ DOMAIN index \in SUBSET Releases
        /\ outs \in [Releases -> Outcome \cup {NoOutcome}]
    BY <1>1, IndexInReleases, ConvergenceAssumption DEF TypeOK
  <2>2. (\A r \in DOMAIN index : FullyComplete(outs[r])) =>
            CompletedIds(outs) = DOMAIN index /\ FailedIds(outs) = {}
    BY <1>1, FullyReadIds
  <2>3. ASSUME StatusOf(index, outs) \in CompleteStatuses PROVE FullyRead
    <3>1. (\A r \in DOMAIN index : FullyComplete(outs[r])) /\ ~c.tracksOff
      BY <2>1, <2>3, CompleteVerdict
    <3>2. ExpectedTracksKnown(index) =>
              TracksListed(outs, CompletedIds(outs)) = TracksAnnounced(index)
      BY <2>1, <3>1, ReconcileFacts
    <3> QED BY <2>2, <3>1, <3>2 DEF FullyRead
  <2>4. ASSUME FullyRead PROVE StatusOf(index, outs) \in CompleteStatuses
    <3>1. \A r \in DOMAIN index : outs[r].kind = "COMPLETED" /\ ~ReleaseNeedsMetadataRetry(outs[r].release)
      BY <2>4 DEF FullyRead, FullyComplete
    <3>2. CompletedIds(outs) = DOMAIN index /\ FailedIds(outs) = {}
      BY <2>2, <2>4 DEF FullyRead
    <3>3. ~c.tracksOff
      BY <2>1, <2>4, <3>2, ReconcileFacts DEF FullyRead
    <3>4. c.unresolved = {} /\ c.reasons = {} /\ ~(c.failed > 0) /\ c.notCaptured = {}
      BY <2>1, <3>1, <3>2, ReconcileFacts
    <3>5. ~(c.expected > 0 /\ c.completed = 0)
      BY <2>1, <3>2, ReconcileFacts
    <3> HIDE DEF c
    <3> QED BY <3>3, <3>4, <3>5 DEF StatusOf, DeriveStatus, CompleteStatuses, c
  <2> QED BY <2>3, <2>4 DEF CompleteIffFullyRead, CompleteStatuses
<1> QED BY <1>1, OnlyIndexedInvariant, PTL

\* A PARTIAL_RETRYABLE verdict never ends in an empty retry pass, except for a release the account
\* may not read or a track count that does not add up (retryableReleaseIds against deriveStatus).
THEOREM RetryHasWork == Spec => []RetryableVerdictHasWork
<1>1. ASSUME TypeOK PROVE RetryableVerdictHasWork
  <2> DEFINE c == Reconcile(index, outs)
  <2> SUFFICES ASSUME StatusOf(index, outs) = "PARTIAL_RETRYABLE",
                      RetryableReleaseIds(index, outs) = {}, ~c.tracksOff
               PROVE  \E r \in Releases : outs[r] = Failed("NOT_AUTHORIZED")
    BY DEF RetryableVerdictHasWork
  <2>1. IsFiniteSet(Releases) /\ DOMAIN index \in SUBSET Releases
    BY <1>1, IndexInReleases, ConvergenceAssumption
  <2>2. c.unresolved = {} /\ c.notCaptured = {}
    BY <2>1, ReconcileFacts DEF RetryableReleaseIds
  <2>3. c.failed > 0 /\ "SCHEMA_CHANGED" \notin c.reasons
    <3> HIDE DEF c
    <3> QED BY <2>2 DEF StatusOf, DeriveStatus, c
  <2>4. PICK r \in FailedIds(outs) : ~IsRetryable(outs[r].reason) /\ outs[r].reason # "SCHEMA_CHANGED"
    BY <2>1, <2>3, ReconcileFacts DEF RetryableReleaseIds
  <2>5. r \in Releases /\ outs[r].kind = "FAILED" /\ outs[r] \in Outcome \cup {NoOutcome}
    BY <1>1 DEF FailedIds, TypeOK
  <2>6. outs[r] = Failed(outs[r].reason)
    BY <2>5, OutcomeShape
  <2>7. outs[r].reason = "NOT_AUTHORIZED"
    BY <2>4 DEF IsRetryable
  <2> QED BY <2>5, <2>6, <2>7
<1> QED BY <1>1, TypeCorrect, PTL

=============================================================================
