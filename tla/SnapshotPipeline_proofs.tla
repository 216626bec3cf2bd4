------------------------ MODULE SnapshotPipeline_proofs ------------------------
(***************************************************************************)
(* Proofs about the extraction pipeline, for every catalogue, every chunk  *)
(* size, any number of passes, attempts, workers, sweeps and faults.       *)
(***************************************************************************)
EXTENDS SnapshotPipeline, Completeness_proofs, FiniteSetTheorems, WellFoundedInduction

-----------------------------------------------------------------------------
(* Constants and queue identities. *)

\* Every subset of the releases has a natural number of elements.
LEMMA ReleaseCount ==
    ASSUME NEW S \in SUBSET Releases
    PROVE  IsFiniteSet(S) /\ Cardinality(S) \in Nat
BY FS_Subset, FS_CardinalityType, PipelineAssumption

\* What a job id of each stage carries.
LEMMA JobIdShape ==
    ASSUME NEW j \in JobIds \cup {NoJob}
    PROVE  /\ j.chunk \in Nat /\ j.pass \in Nat /\ j.defer \in Nat
           /\ j.stage \in {"chunk", "reconcile", "finalize", "retry"} => j.pass \in Passes
           /\ j.stage # "none" => j \in JobIds
<1>1. MaxPass \in Nat /\ MaxDefers \in Nat
  BY PipelineAssumption
<1>2. MaxChunks \in Nat
  BY ReleaseCount DEF MaxChunks
<1>3. CASE j \in {IndexJob, PlanJob, NoJob}
  BY <1>3 DEF IndexJob, PlanJob, NoJob, JobId, JobIds
<1>4. CASE \E p \in Passes, i \in 1 .. MaxChunks, d \in 0 .. MaxDefers : j = ChunkJob(p, i, d)
  BY <1>1, <1>2, <1>4 DEF ChunkJob, JobId, JobIds, Passes
<1>5. CASE \E p \in 2 .. MaxPass : j = RetryJob(p)
  BY <1>1, <1>5 DEF RetryJob, JobId, JobIds, Passes
<1>6. CASE \E p \in Passes : j = ReconcileJob(p)
  BY <1>1, <1>6 DEF ReconcileJob, JobId, JobIds, Passes
<1>7. CASE \E p \in Passes : j = FinalizeJob(p)
  BY <1>1, <1>7 DEF FinalizeJob, JobId, JobIds, Passes
<1> QED BY <1>3, <1>4, <1>5, <1>6, <1>7 DEF JobIds

\* The first unfinished chunk of a plan is a chunk of that plan.
LEMMA NextChunkOfPlan ==
    ASSUME NEW c \in Plans, NEW complete, NextChunk(c, complete) # 0
    PROVE  NextChunk(c, complete) \in DOMAIN c
<1> DEFINE T == DOMAIN c \ complete
           R == {ss \in Nat \X Nat : ss[1] < ss[2]}
<1>1. T # {} /\ T \subseteq Nat
  BY DEF NextChunk, Plans
<1>2. IsWellFoundedOn(R, Nat)
  BY NatLessThanWellFounded DEF OpToRel
<1>3. PICK i \in T : \A k \in T : ~(<<k, i>> \in R)
  <2> HIDE DEF T, R
  <2> QED BY <1>1, <1>2, WFMin
<1>4. ASSUME NEW k \in T PROVE i <= k
  <2>1. i \in Nat /\ k \in Nat
    BY <1>1
  <2>2. ~(k < i)
    BY <1>3, <2>1
  <2> QED BY <2>1, <2>2
<1>5. i \in DOMAIN c /\ i \notin complete
  BY <1>3
<1> QED BY <1>1, <1>4, <1>5 DEF NextChunk

\* chunkReleases splits a set of releases into a plan.
LEMMA ChunkReleasesType ==
    ASSUME NEW S \in SUBSET Releases
    PROVE  ChunkReleases(S) \in Plans
<1>1. Cardinality(S) \in Nat /\ ChunkSize \in Nat \ {0}
  BY ReleaseCount, PipelineAssumption
<1>2. (Cardinality(S) + ChunkSize - 1) \div ChunkSize \in Nat
  BY <1>1
<1> DEFINE n == (Cardinality(S) + ChunkSize - 1) \div ChunkSize
<1>3. ChunkReleases(S) \in [1 .. n -> SUBSET Releases]
  BY DEF ChunkReleases
<1> QED BY <1>2, <1>3 DEF Plans

-----------------------------------------------------------------------------
(* Values. *)

\* Reconciling a checkpoint yields natural counts.
LEMMA ReconcileCounts ==
    ASSUME StoreTypeOK
    PROVE  LET c == Reconcile(index, outs)
           IN  c.expected \in Nat /\ c.completed \in Nat /\ c.failed \in Nat
<1>1. DOMAIN index \in SUBSET Releases
  BY PipelineAssumption DEF StoreTypeOK, EmptyIndex
<1>2. CompletedIds(outs) \in SUBSET Releases /\ FailedIds(outs) \in SUBSET Releases
  BY DEF CompletedIds, FailedIds
<1> QED BY <1>1, <1>2, ReleaseCount DEF Reconcile

\* deriveStatus always names a terminal status.
LEMMA DeriveStatusType ==
    ASSUME NEW c
    PROVE  DeriveStatus(c) \in SnapshotStatuses
BY DEF DeriveStatus, SnapshotStatuses

\* A proposal made from the checkpoint is a verdict.
LEMMA ProposalType ==
    ASSUME StoreTypeOK, NEW status \in SnapshotStatuses, NEW p \in Passes
    PROVE  Proposal(status, Reconcile(index, outs), p) \in Verdict
BY ReconcileCounts DEF Proposal, Verdict

\* So is the FAILED verdict of any job.
LEMMA FailureProposalType ==
    ASSUME StoreTypeOK, NEW j \in JobIds \cup {NoJob}
    PROVE  FailureProposal(j) \in Verdict
<1>1. TerminalPass(j) \in Passes
  BY JobIdShape, PipelineAssumption DEF TerminalPass, Passes
<1>2. "FAILED" \in SnapshotStatuses
  BY DEF SnapshotStatuses
<1> QED BY <1>1, <1>2, ProposalType DEF FailureProposal

LEMMA NoLocalsType == NoLocals \in Locals
<1>1. NoProgress \in Progress
  BY DEF NoProgress, ProgressOf, Progress
<1>2. NoOutcomes \in [Releases -> Outcome \cup {NoOutcome}]
  BY DEF NoOutcomes
<1>3. <<>> \in Plans
  BY DEF Plans
<1>4. 0 \in 0 .. JobAttempts
  BY PipelineAssumption
<1> QED BY <1>1, <1>2, <1>3, <1>4 DEF NoLocals, Locals

\* A converged checkpoint stays well-formed, also for a release that was not read.
LEMMA ConvergedType ==
    ASSUME ThreadTypeOK, NEW t \in Threads, NEW b
    PROVE  Converged(t, b) \in [Releases -> Outcome \cup {NoOutcome}]
<1>1. loc[t] \in Locals
  BY DEF ThreadTypeOK
<1>2. /\ loc[t].view \in [Releases -> Outcome \cup {NoOutcome}]
      /\ loc[t].got \in [Releases -> Outcome \cup {NoOutcome}]
  BY <1>1 DEF Locals
<1>3. ASSUME NEW r \in Releases
      PROVE  Converge(loc[t].view[r], loc[t].got[r]) \in Outcome \cup {NoOutcome}
  <2>1. CASE loc[t].got[r] \in Outcome
    BY <1>2, <2>1, ConvergeType
  <2>2. CASE loc[t].got[r] = NoOutcome
    <3>1. NoOutcome.kind # "COMPLETED"
      BY DEF NoOutcome
    <3> QED BY <1>2, <2>2, <3>1 DEF Converge
  <2> QED BY <1>2, <2>1, <2>2
<1> QED BY <1>2, <1>3 DEF Converged

-----------------------------------------------------------------------------
(* Queue and thread updates. *)

LEMMA NotQueuedType == NotQueued \in JobRecord
<1>1. 0 \in 0 .. JobAttempts /\ 0 \in 0 .. 1
  BY PipelineAssumption
<1> QED BY <1>1, Zenon DEF NotQueued, JobRecord

\* Queue.add keeps the queues well-formed.
LEMMA EnqueuedType ==
    ASSUME QueueTypeOK, NEW j, NEW ids \in SUBSET Releases
    PROVE  Enqueued(j, ids) \in [JobIds -> JobRecord]
<1>1. [NotQueued EXCEPT !.st = "waiting", !.rel = ids] \in JobRecord
  BY NotQueuedType DEF JobRecord
<1> QED BY <1>1 DEF Enqueued, QueueTypeOK

\* So does continuing a pass.
LEMMA EnqueueNextType ==
    ASSUME QueueTypeOK, NEW p, NEW pl \in Plans, NEW complete, EnqueueNext(p, pl, complete)
    PROVE  jobs' \in [JobIds -> JobRecord]
<1> DEFINE i == NextChunk(pl, complete)
<1>1. CASE i = 0
  <2>1. jobs' = Enqueued(ReconcileJob(p), {})
    BY <1>1 DEF EnqueueNext, Enqueue
  <2> QED BY <2>1, EnqueuedType
<1>2. CASE i # 0
  <2>1. i \in DOMAIN pl
    BY <1>2, NextChunkOfPlan
  <2>2. pl[i] \in SUBSET Releases
    BY <2>1 DEF Plans
  <2>3. jobs' = Enqueued(ChunkJob(p, i, 0), pl[i])
    BY <1>2 DEF EnqueueNext, EnqueueChunk
  <2> HIDE DEF i
  <2> QED BY <2>2, <2>3, EnqueuedType
<1> QED BY <1>1, <1>2

\* A processor that threw leaves a well-formed job behind.
LEMMA AttemptedType ==
    ASSUME QueueTypeOK, NEW t, NEW shut \in BOOLEAN, NEW handled \in BOOLEAN
    PROVE  Attempted(t, shut, handled) \in [JobIds -> JobRecord]
<1> DEFINE j == job[t]
<1>1. CASE j \notin JobIds
  BY <1>1 DEF Attempted, QueueTypeOK
<1>2. CASE j \in JobIds
  <2> DEFINE rec == [jobs[j] EXCEPT !.handled = @ \/ handled]
             tried == [rec EXCEPT !.owner = "none", !.shut = shut,
                                  !.made = IF @ < JobAttempts THEN @ + 1 ELSE @,
                                  !.st = IF rec.made + 1 >= JobAttempts
                                         THEN "failed" ELSE "waiting"]
  <2>1. jobs[j] \in JobRecord /\ JobAttempts \in Nat
    BY <1>2, PipelineAssumption DEF QueueTypeOK
  <2>2. rec \in JobRecord
    BY <2>1 DEF JobRecord
  <2>3. tried \in JobRecord
    <3> HIDE DEF rec
    <3>1. rec.made \in 0 .. JobAttempts
      BY <2>2 DEF JobRecord
    <3>2. (IF rec.made < JobAttempts THEN rec.made + 1 ELSE rec.made) \in 0 .. JobAttempts
      BY <2>1, <3>1
    <3> QED BY <2>2, <3>2 DEF JobRecord
  <2>4. Attempted(t, shut, handled) \in {jobs, [jobs EXCEPT ![j] = tried], [jobs EXCEPT ![j] = rec]}
    BY DEF Attempted
  <2> HIDE DEF rec, tried
  <2> QED BY <1>2, <2>2, <2>3, <2>4 DEF QueueTypeOK
<1> QED BY <1>1, <1>2

-----------------------------------------------------------------------------
(* The inductive invariant.  TypeOK alone is not inductive: what a handler  *)
(* writes depends on the job it runs and on the tombstone it has seen.      *)

PlainPcs == {"idle", "start", "claim", "announce", "done", "threw", "fatal", "shutdown", "unconverged"}
              \cup IndexPcs \cup PlanPcs \cup RetryPcs \cup TermPcs \cup SweepPcs

HandlerInv ==
    \A t \in Threads :
        /\ pc[t] \in ChunkPcs => job[t].stage = "chunk"
        /\ pc[t] \in FinalPcs => terminal.kind = "TERMINAL"

IndInv == TypeOK /\ HandlerInv

\* A tombstone, once there, is the same after the step.
VerdictKept == terminal' = terminal \/ terminal = Open

LEMMA PcKinds ==
    /\ PcSet = PlainPcs \cup ChunkPcs \cup FinalPcs
    /\ PlainPcs \cap ChunkPcs = {} /\ PlainPcs \cap FinalPcs = {} /\ ChunkPcs \cap FinalPcs = {}
BY DEF PcSet, PlainPcs, IndexPcs, ChunkPcs, LockedPcs, PlanPcs, RetryPcs, TermPcs, FinalPcs, SweepPcs

\* Moving a thread keeps the thread invariants when the target suits its job and the tombstone.
LEMMA GotoKeeps ==
    ASSUME IndInv, VerdictKept, NEW t \in Threads, NEW to \in PcSet, NEW l \in Locals,
           Goto(t, to, l),
           to \in ChunkPcs => job[t].stage = "chunk",
           to \in FinalPcs => terminal'.kind = "TERMINAL"
    PROVE  ThreadTypeOK' /\ HandlerInv'
<1>1. ThreadTypeOK'
  BY DEF IndInv, TypeOK, ThreadTypeOK, Goto
<1>2. ASSUME NEW u \in Threads
      PROVE  /\ pc'[u] \in ChunkPcs => job'[u].stage = "chunk"
             /\ pc'[u] \in FinalPcs => terminal'.kind = "TERMINAL"
  <2>1. CASE u = t
    BY <2>1 DEF IndInv, TypeOK, ThreadTypeOK, Goto
  <2>2. CASE u # t
    <3>1. pc'[u] = pc[u] /\ job'[u] = job[u]
      BY <2>2 DEF IndInv, TypeOK, ThreadTypeOK, Goto
    <3>2. Open.kind # "TERMINAL"
      BY DEF Open
    <3> QED BY <3>1, <3>2 DEF IndInv, HandlerInv, VerdictKept
  <2> QED BY <2>1, <2>2
<1> QED BY <1>1, <1>2 DEF HandlerInv

\* Ending a thread's work keeps them.
LEMMA RestKeeps ==
    ASSUME IndInv, VerdictKept, NEW t \in Threads, Rest(t)
    PROVE  ThreadTypeOK' /\ HandlerInv'
<1>1. "idle" \in PcSet /\ "idle" \notin ChunkPcs /\ "idle" \notin FinalPcs
  BY DEF PcSet, ChunkPcs, FinalPcs
<1>2. ThreadTypeOK'
  BY <1>1, NoLocalsType DEF IndInv, TypeOK, ThreadTypeOK, Rest
<1>3. ASSUME NEW u \in Threads
      PROVE  /\ pc'[u] \in ChunkPcs => job'[u].stage = "chunk"
             /\ pc'[u] \in FinalPcs => terminal'.kind = "TERMINAL"
  <2>1. CASE u = t
    BY <1>1, <2>1 DEF IndInv, TypeOK, ThreadTypeOK, Rest
  <2>2. CASE u # t
    <3>1. pc'[u] = pc[u] /\ job'[u] = job[u]
      BY <2>2 DEF IndInv, TypeOK, ThreadTypeOK, Rest
    <3>2. Open.kind # "TERMINAL"
      BY DEF Open
    <3> QED BY <3>1, <3>2 DEF IndInv, HandlerInv, VerdictKept
  <2> QED BY <2>1, <2>2
<1> QED BY <1>2, <1>3 DEF HandlerInv

LEMMA FinishKeeps ==
    ASSUME IndInv, VerdictKept, NEW t \in Threads, Finish(t)
    PROVE  ThreadTypeOK' /\ HandlerInv'
<1>1. "done" \in PcSet /\ "done" \notin ChunkPcs /\ "done" \notin FinalPcs
  BY DEF PcSet, ChunkPcs, FinalPcs
<1> QED BY <1>1, NoLocalsType, RestKeeps, GotoKeeps DEF Finish

LEMMA RaiseKeeps ==
    ASSUME IndInv, VerdictKept, NEW t \in Threads,
           NEW how \in {"threw", "fatal", "shutdown", "unconverged"}, Raise(t, how)
    PROVE  ThreadTypeOK' /\ HandlerInv'
<1>1. how \in PcSet /\ how \notin ChunkPcs /\ how \notin FinalPcs
  BY DEF PcSet, ChunkPcs, FinalPcs
<1>2. loc[t].tries \in 0 .. JobAttempts
  BY DEF IndInv, TypeOK, ThreadTypeOK, Locals
<1>3. [NoLocals EXCEPT !.tries = loc[t].tries] \in Locals
  BY <1>2, NoLocalsType DEF Locals
<1> QED BY <1>1, <1>3, RestKeeps, GotoKeeps DEF Raise

\* A step that moves no thread keeps them.
LEMMA IdleKeeps ==
    ASSUME IndInv, VerdictKept, UNCHANGED thread
    PROVE  ThreadTypeOK' /\ HandlerInv'
<1>1. Open.kind # "TERMINAL"
  BY DEF Open
<1> QED BY <1>1 DEF IndInv, TypeOK, ThreadTypeOK, HandlerInv, VerdictKept, thread

\* The invariant from its parts.
LEMMA Reassemble ==
    ASSUME StoreTypeOK', OutcomeTypeOK', QueueTypeOK', EnvTypeOK', ThreadTypeOK' /\ HandlerInv'
    PROVE  IndInv'
BY DEF IndInv, TypeOK

\* What a step leaves alone stays well-formed.
LEMMA Untouched ==
    ASSUME IndInv
    PROVE  /\ UNCHANGED store => StoreTypeOK' /\ VerdictKept
           /\ UNCHANGED outcome => OutcomeTypeOK'
           /\ UNCHANGED <<jobs, lock>> => QueueTypeOK'
           /\ UNCHANGED env => EnvTypeOK'
BY DEF IndInv, TypeOK, StoreTypeOK, OutcomeTypeOK, QueueTypeOK, EnvTypeOK, store, outcome, env,
       VerdictKept

\* Releasing or taking the account lock keeps it well-formed.
LEMMA LockType ==
    ASSUME QueueTypeOK, NEW t \in Threads,
           lock' \in {Unlocked(t), t, "free", "other", "dead", lock}
    PROVE  lock' \in Threads \cup {"free", "other", "dead"}
BY DEF QueueTypeOK, Unlocked

-----------------------------------------------------------------------------
(* Every step keeps the invariant: the producer and runPipelineStage. *)

LEMMA ProducerKeeps ==
    ASSUME IndInv, Prepare \/ Produce
    PROVE  IndInv'
<1>1. CASE Prepare
  <2>1. UNCHANGED <<store, jobs, lock, thread>>
    BY <1>1 DEF Prepare
  <2>2. OutcomeTypeOK'
    BY <1>1 DEF Prepare, IndInv, TypeOK, OutcomeTypeOK
  <2>3. EnvTypeOK'
    <3>1. api \in [calls : 0 .. MaxConfirms, preparing : BOOLEAN] /\ api.calls < MaxConfirms
      BY <1>1 DEF Prepare, IndInv, TypeOK, EnvTypeOK
    <3>2. api.calls + 1 \in 0 .. MaxConfirms
      BY <3>1, PipelineAssumption
    <3>3. api' \in [calls : 0 .. MaxConfirms, preparing : BOOLEAN]
      <4>1. [calls |-> api.calls + 1, preparing |-> TRUE]
              \in [calls : 0 .. MaxConfirms, preparing : BOOLEAN]
        BY <3>2, Zenon
      <4>2. [api EXCEPT !.calls = @ + 1] \in [calls : 0 .. MaxConfirms, preparing : BOOLEAN]
        BY <3>1, <3>2
      <4> QED BY <1>1, <4>1, <4>2 DEF Prepare
    <3> QED BY <1>1, <3>3 DEF Prepare, IndInv, TypeOK, EnvTypeOK
  <2> QED BY <2>1, <2>2, <2>3, Untouched, IdleKeeps, Reassemble
<1>2. CASE Produce
  <2>1. UNCHANGED <<store, outcome, lock, thread>>
    BY <1>2 DEF Produce
  <2>2. EnvTypeOK'
    BY <1>2 DEF Produce, IndInv, TypeOK, EnvTypeOK
  <2>3. QueueTypeOK'
    BY <1>2, EnqueuedType DEF Produce, Enqueue, IndInv, TypeOK, QueueTypeOK
  <2> QED BY <2>1, <2>2, <2>3, Untouched, IdleKeeps, Reassemble
<1> QED BY <1>1, <1>2

LEMMA FetchKeeps ==
    ASSUME IndInv, NEW t \in Threads, NEW j \in JobIds, Fetch(t, j)
    PROVE  IndInv'
<1>1. UNCHANGED <<store, outcome, lock, env>>
  BY DEF Fetch
<1>2. jobs[j] \in JobRecord
  BY DEF IndInv, TypeOK, QueueTypeOK
<1>3. QueueTypeOK'
  BY <1>1, <1>2 DEF Fetch, IndInv, TypeOK, QueueTypeOK, JobRecord
<1>4. "start" \in PcSet /\ "start" \notin ChunkPcs /\ "start" \notin FinalPcs
  BY DEF PcSet, ChunkPcs, FinalPcs
<1>5. [NoLocals EXCEPT !.tries = jobs[j].made, !.todo = jobs[j].rel] \in Locals
  BY <1>2, NoLocalsType DEF JobRecord, Locals
<1>6. ThreadTypeOK'
  BY <1>4, <1>5 DEF Fetch, IndInv, TypeOK, ThreadTypeOK
<1>7. terminal' = terminal
  BY <1>1 DEF store
<1>8. HandlerInv'
  BY <1>4, <1>7 DEF Fetch, IndInv, TypeOK, ThreadTypeOK, HandlerInv
<1> QED BY <1>1, <1>3, <1>6, <1>8, Untouched, Reassemble

LEMMA StageWrapperKeeps ==
    ASSUME IndInv, NEW t \in Threads,
           \/ ResumeFinalizer(t) \/ StartOverdue(t) \/ Complete(t) \/ RethrowStageError(t)
    PROVE  IndInv'
<1>1. CASE ResumeFinalizer(t)
  <2>1. UNCHANGED <<store, outcome, lock, env>>
    BY <1>1 DEF ResumeFinalizer
  <2>2. QueueTypeOK'
    BY <1>1, <2>1, EnqueuedType DEF ResumeFinalizer, Enqueue, IndInv, TypeOK, QueueTypeOK
  <2>3. "done" \in PcSet /\ "done" \notin ChunkPcs /\ "done" \notin FinalPcs
    BY DEF PcSet, ChunkPcs, FinalPcs
  <2>4. Goto(t, "done", NoLocals)
    BY <1>1 DEF ResumeFinalizer
  <2> QED BY <2>1, <2>2, <2>3, <2>4, NoLocalsType, GotoKeeps, Untouched, Reassemble
<1>2. CASE StartOverdue(t)
  BY <1>2, RaiseKeeps, Untouched, Reassemble DEF StartOverdue
<1>3. CASE Complete(t)
  <2>1. UNCHANGED <<store, outcome, lock, env>> /\ Rest(t)
    BY <1>3 DEF Complete
  <2>2. QueueTypeOK'
    BY <1>3, <2>1 DEF Complete, IndInv, TypeOK, QueueTypeOK, JobRecord
  <2> QED BY <2>1, <2>2, RestKeeps, Untouched, Reassemble
<1>4. CASE RethrowStageError(t)
  <2>1. UNCHANGED <<store, outcome, lock, env>> /\ Rest(t)
    BY <1>4 DEF RethrowStageError
  <2>2. jobs' \in [JobIds -> JobRecord]
    BY <1>4, AttemptedType DEF RethrowStageError, IndInv, TypeOK
  <2>3. QueueTypeOK'
    BY <2>1, <2>2 DEF IndInv, TypeOK, QueueTypeOK
  <2> QED BY <2>1, <2>3, RestKeeps, Untouched, Reassemble
<1> QED BY <1>1, <1>2, <1>3, <1>4

-----------------------------------------------------------------------------
(* terminalizeDistroKidFailure. *)

LEMMA TerminalizeKeeps ==
    ASSUME IndInv, NEW t \in Threads,
           \/ TerminalizeStage(t) \/ ClaimTerminal(t) \/ AnnounceTerminal(t) \/ MarkHandled(t)
    PROVE  IndInv'
<1> USE DEF IndInv, TypeOK
<1>0. loc[t] \in Locals /\ job[t] \in JobIds \cup {NoJob}
  BY DEF ThreadTypeOK
<1>1. CASE TerminalizeStage(t)
  <2>1. [loc[t] EXCEPT !.prop = FailureProposal(job[t])] \in Locals
    BY <1>0, FailureProposalType DEF Locals
  <2>2. "term.claim" \in PcSet /\ "term.claim" \notin ChunkPcs /\ "term.claim" \notin FinalPcs
    BY DEF PcSet, TermPcs, ChunkPcs, FinalPcs
  <2> QED BY <1>1, <2>1, <2>2, GotoKeeps, Untouched, Reassemble DEF TerminalizeStage
<1>2. CASE ClaimTerminal(t)
  <2> DEFINE to == IF pc[t] = "claim" THEN "announce" ELSE "term.announce"
  <2>1. to \in PcSet /\ to \notin ChunkPcs /\ to \notin FinalPcs
    BY DEF PcSet, TermPcs, ChunkPcs, FinalPcs
  <2>2. UNCHANGED <<outcome, jobs, lock, env>> /\ Goto(t, to, loc[t]) /\ VerdictKept
    BY <1>2 DEF ClaimTerminal, VerdictKept
  <2>3. terminal' \in Verdict \cup {Open, Cancelled}
    BY <1>0, <1>2 DEF ClaimTerminal, StoreTypeOK, Locals
  <2>4. StoreTypeOK'
    BY <1>2, <2>3 DEF ClaimTerminal, StoreTypeOK
  <2> HIDE DEF to
  <2> QED BY <1>0, <2>1, <2>2, <2>4, GotoKeeps, Untouched, Reassemble
<1>3. CASE AnnounceTerminal(t)
  <2>1. UNCHANGED <<store, outcome, lock, env>>
    BY <1>3 DEF AnnounceTerminal
  <2>2. QueueTypeOK'
    BY <1>3, <2>1, EnqueuedType DEF AnnounceTerminal, Enqueue, QueueTypeOK
  <2>3. "term.mark" \in PcSet /\ "term.mark" \notin ChunkPcs /\ "term.mark" \notin FinalPcs
    BY DEF PcSet, TermPcs, ChunkPcs, FinalPcs
  <2>4. Finish(t) \/ Rest(t) \/ Goto(t, "term.mark", loc[t])
    BY <1>3 DEF AnnounceTerminal
  <2> QED BY <1>0, <2>1, <2>2, <2>3, <2>4, FinishKeeps, RestKeeps, GotoKeeps, Untouched, Reassemble
<1>4. CASE MarkHandled(t)
  <2>1. UNCHANGED <<store, outcome, lock, env>> /\ Rest(t)
    BY <1>4 DEF MarkHandled
  <2>2. jobs' \in [JobIds -> JobRecord]
    <3>1. [jobs EXCEPT ![job[t]].handled = TRUE] \in [JobIds -> JobRecord]
      BY DEF QueueTypeOK, JobRecord
    <3> QED BY <1>4, <3>1, AttemptedType DEF MarkHandled, QueueTypeOK
  <2>3. QueueTypeOK'
    BY <2>1, <2>2 DEF QueueTypeOK
  <2> QED BY <2>1, <2>3, RestKeeps, Untouched, Reassemble
<1> QED BY <1>1, <1>2, <1>3, <1>4

-----------------------------------------------------------------------------
(* Assertions between two writes. *)

LEMMA AssertionKeeps ==
    ASSUME IndInv, NEW t \in Threads,
           AssertOverdue(t) \/ AssertStopped(t) \/ LockLost(t) \/ ConsentInactive(t)
    PROVE  IndInv'
<1>1. UNCHANGED <<store, outcome, jobs, env>>
  BY DEF AssertOverdue, AssertStopped, LockLost, ConsentInactive
<1>2. lock' \in {Unlocked(t), lock}
  BY DEF AssertOverdue, AssertStopped, LockLost, ConsentInactive
<1>3. QueueTypeOK'
  BY <1>1, <1>2, LockType DEF IndInv, TypeOK, QueueTypeOK
<1>4. Finish(t) \/ Raise(t, "threw") \/ Raise(t, "fatal")
  BY DEF AssertOverdue, AssertStopped, LockLost, ConsentInactive
<1> QED BY <1>1, <1>3, <1>4, FinishKeeps, RaiseKeeps, Untouched, Reassemble

-----------------------------------------------------------------------------
(* 1. extractDistroKidCatalogIndex. *)

LEMMA IndexStageKeeps ==
    ASSUME IndInv, NEW t \in Threads,
           \/ BeginIndex(t) \/ ReadCatalogIndex(t) \/ PutIndex(t) \/ IndexCheck(t)
           \/ IndexProgress(t) \/ IndexNext(t)
    PROVE  IndInv'
<1> USE DEF IndInv, TypeOK
<1>0. loc[t] \in Locals
  BY DEF ThreadTypeOK
<1>pc. \A to \in IndexPcs : to \in PcSet /\ to \notin ChunkPcs /\ to \notin FinalPcs
  BY PcKinds DEF PlainPcs
<1>1. CASE BeginIndex(t)
  <2>1. UNCHANGED <<store, outcome, jobs, env>> /\ lock' \in {t, lock}
    BY <1>1 DEF BeginIndex
  <2>2. QueueTypeOK'
    BY <2>1, LockType DEF QueueTypeOK
  <2>3. Goto(t, "index.read", loc[t]) \/ Raise(t, "threw")
    BY <1>1 DEF BeginIndex
  <2>4. "index.read" \in IndexPcs
    BY DEF IndexPcs
  <2> QED BY <1>0, <1>pc, <2>1, <2>2, <2>3, <2>4, GotoKeeps, RaiseKeeps, Untouched, Reassemble
<1>2. CASE ReadCatalogIndex(t)
  <2>1. PICK c \in Catalogues : Goto(t, "index.put", [loc[t] EXCEPT !.cat = c])
    BY <1>2 DEF ReadCatalogIndex
  <2>2. [loc[t] EXCEPT !.cat = c] \in Locals
    BY <1>0 DEF Locals
  <2>3. "index.put" \in IndexPcs
    BY DEF IndexPcs
  <2> QED BY <1>2, <1>pc, <2>1, <2>2, <2>3, GotoKeeps, Untouched, Reassemble DEF ReadCatalogIndex
<1>3. CASE PutIndex(t)
  <2>1. UNCHANGED <<outcome, jobs, lock, env>> /\ Goto(t, "index.check", loc[t]) /\ VerdictKept
    BY <1>3 DEF PutIndex, VerdictKept
  <2>2. index' \in Catalogues \cup {EmptyIndex}
    BY <1>0, <1>3 DEF PutIndex, Locals
  <2>3. StoreTypeOK'
    BY <1>3, <2>2 DEF PutIndex, StoreTypeOK
  <2>4. "index.check" \in IndexPcs
    BY DEF IndexPcs
  <2> QED BY <1>0, <1>pc, <2>1, <2>3, <2>4, GotoKeeps, Untouched, Reassemble
<1>4. CASE IndexCheck(t)
  <2>1. "index.progress" \in IndexPcs
    BY DEF IndexPcs
  <2> QED BY <1>0, <1>4, <1>pc, <2>1, GotoKeeps, Untouched, Reassemble DEF IndexCheck
<1>5. CASE IndexProgress(t)
  <2>1. UNCHANGED <<outcome, jobs, lock, env>> /\ Goto(t, "index.next", loc[t]) /\ VerdictKept
    BY <1>5 DEF IndexProgress, VerdictKept
  <2>2. Cardinality(DOMAIN loc[t].cat) \in Nat
    <3>1. DOMAIN loc[t].cat \in SUBSET Releases
      BY <1>0, PipelineAssumption DEF Locals, EmptyIndex
    <3> QED BY <3>1, ReleaseCount
  <2>3. NoProgress \in Progress
    BY DEF NoProgress, ProgressOf, Progress
  <2>4. progress' \in Progress
    BY <1>5, <2>2, <2>3 DEF IndexProgress, Progress
  <2>5. StoreTypeOK'
    BY <1>5, <2>4 DEF IndexProgress, StoreTypeOK
  <2>6. "index.next" \in IndexPcs
    BY DEF IndexPcs
  <2> QED BY <1>0, <1>pc, <2>1, <2>5, <2>6, GotoKeeps, Untouched, Reassemble
<1>6. CASE IndexNext(t)
  <2>1. UNCHANGED <<store, outcome, env>> /\ Finish(t) /\ lock' = Unlocked(t)
    BY <1>6 DEF IndexNext
  <2>2. jobs' \in [JobIds -> JobRecord]
    BY <1>6, EnqueuedType DEF IndexNext, Enqueue
  <2>3. QueueTypeOK'
    BY <2>1, <2>2, LockType DEF QueueTypeOK
  <2> QED BY <2>1, <2>3, FinishKeeps, Untouched, Reassemble
<1> QED BY <1>1, <1>2, <1>3, <1>4, <1>5, <1>6

-----------------------------------------------------------------------------
(* 2. planDistroKidReleaseChunks and 4. retryFailedDistroKidReleases. *)

LEMMA PlanFromKeeps ==
    ASSUME IndInv, NEW t \in Threads, PlanFrom(t), UNCHANGED <<store, outcome, jobs, lock, env>>
    PROVE  IndInv'
<1> USE DEF IndInv, TypeOK
<1>1. loc[t] \in Locals
  BY DEF ThreadTypeOK
<1>2. 1 \in Passes
  BY PipelineAssumption DEF Passes
<1>3. DOMAIN index \in SUBSET Releases
  BY PipelineAssumption DEF StoreTypeOK, EmptyIndex
<1>4. [loc[t] EXCEPT !.pl = ChunkReleases(DOMAIN index), !.complete = done[1]] \in Locals
  BY <1>1, <1>2, <1>3, ChunkReleasesType DEF StoreTypeOK, Locals
<1>5. [loc[t] EXCEPT !.pl = plan[1], !.complete = done[1]] \in Locals
  BY <1>1, <1>2 DEF StoreTypeOK, Locals
<1>6. \A to \in PlanPcs : to \in PcSet /\ to \notin ChunkPcs /\ to \notin FinalPcs
  BY PcKinds DEF PlainPcs
<1>7. "plan.put" \in PlanPcs /\ "plan.check" \in PlanPcs
  BY DEF PlanPcs
<1> QED BY <1>4, <1>5, <1>6, <1>7, GotoKeeps, Untouched, Reassemble DEF PlanFrom

LEMMA PlanStageKeeps ==
    ASSUME IndInv, NEW t \in Threads,
           \/ BeginPlan(t) \/ PutPassPlan(t) \/ PlanCheck(t) \/ PutProgress(t) \/ PlanNext(t)
    PROVE  IndInv'
<1> USE DEF IndInv, TypeOK
<1>0. loc[t] \in Locals
  BY DEF ThreadTypeOK
<1>pc. \A to \in PlanPcs \cup RetryPcs : to \in PcSet /\ to \notin ChunkPcs /\ to \notin FinalPcs
  BY PcKinds DEF PlainPcs
<1>1. CASE BeginPlan(t)
  BY <1>1, PlanFromKeeps DEF BeginPlan
<1>2. CASE PutPassPlan(t)
  <2> DEFINE to == IF pc[t] = "plan.put" THEN "plan.check" ELSE "retry.next"
  <2>1. UNCHANGED <<outcome, jobs, lock, env>> /\ Goto(t, to, loc[t]) /\ VerdictKept
    BY <1>2 DEF PutPassPlan, VerdictKept
  <2>2. loc[t].pl \in Plans
    BY <1>0 DEF Locals
  <2>3. plan' \in [Passes -> Plans]
    BY <1>2, <2>2 DEF PutPassPlan, StoreTypeOK
  <2>4. StoreTypeOK'
    BY <1>2, <2>3 DEF PutPassPlan, StoreTypeOK
  <2>5. to \in PlanPcs \cup RetryPcs
    BY DEF PlanPcs, RetryPcs
  <2> HIDE DEF to
  <2> QED BY <1>0, <1>pc, <2>1, <2>4, <2>5, GotoKeeps, Untouched, Reassemble
<1>3. CASE PlanCheck(t)
  <2>1. [loc[t] EXCEPT !.prog = [progress EXCEPT !.status = "RUNNING"]] \in Locals
    BY <1>0 DEF StoreTypeOK, Progress, Locals
  <2>2. "plan.next" \in PlanPcs /\ "plan.progress" \in PlanPcs
    BY DEF PlanPcs
  <2> QED BY <1>0, <1>3, <1>pc, <2>1, <2>2, GotoKeeps, Untouched, Reassemble DEF PlanCheck
<1>4. CASE PutProgress(t)
  <2>1. UNCHANGED <<outcome, jobs, lock, env>> /\ VerdictKept
    BY <1>4 DEF PutProgress, VerdictKept
  <2>2. progress' \in Progress
    BY <1>0, <1>4 DEF PutProgress, Locals
  <2>3. StoreTypeOK'
    BY <1>4, <2>2 DEF PutProgress, StoreTypeOK
  <2>4. CASE pc[t] = "plan.progress"
    <3>1. Goto(t, "plan.next", loc[t])
      BY <1>4, <2>4 DEF PutProgress
    <3>2. "plan.next" \in PlanPcs
      BY DEF PlanPcs
    <3> QED BY <1>0, <1>pc, <2>1, <2>3, <3>1, <3>2, GotoKeeps, Untouched, Reassemble
  <2>5. CASE pc[t] = "chunk.progress"
    <3>1. Goto(t, "chunk.next", loc[t])
      BY <1>4, <2>5 DEF PutProgress
    <3>2. "chunk.next" \in ChunkPcs /\ "chunk.progress" \in ChunkPcs
      BY DEF ChunkPcs
    <3>3. job[t].stage = "chunk"
      BY <2>5, <3>2 DEF HandlerInv
    <3> QED BY <1>0, <2>1, <2>3, <3>1, <3>2, <3>3, PcKinds, GotoKeeps, Untouched, Reassemble
  <2> QED BY <1>4, <2>4, <2>5 DEF PutProgress
<1>5. CASE PlanNext(t)
  <2>1. UNCHANGED <<store, outcome, lock, env>> /\ Finish(t)
    BY <1>5 DEF PlanNext
  <2>2. loc[t].pl \in Plans
    BY <1>0 DEF Locals
  <2>3. jobs' \in [JobIds -> JobRecord]
    BY <1>5, <2>2, EnqueueNextType DEF PlanNext
  <2>4. QueueTypeOK'
    BY <2>1, <2>3 DEF QueueTypeOK
  <2> QED BY <2>1, <2>4, FinishKeeps, Untouched, Reassemble
<1> QED BY <1>1, <1>2, <1>3, <1>4, <1>5

LEMMA RetryStageKeeps ==
    ASSUME IndInv, NEW t \in Threads, BeginRetry(t) \/ RetryNext(t)
    PROVE  IndInv'
<1> USE DEF IndInv, TypeOK
<1>0. loc[t] \in Locals /\ job[t] \in JobIds \cup {NoJob}
  BY DEF ThreadTypeOK
<1>1. CASE BeginRetry(t)
  <2> DEFINE p == job[t].pass
             ids == RetryableReleaseIds(index, outs)
  <2>1. UNCHANGED <<store, outcome, lock, env>>
    BY <1>1 DEF BeginRetry
  <2>2. CASE ids = {}
    <3>1. Finish(t) /\ jobs' = Enqueued(ReconcileJob(p), {})
      BY <1>1, <2>2 DEF BeginRetry, Enqueue
    <3>2. QueueTypeOK'
      BY <2>1, <3>1, EnqueuedType DEF QueueTypeOK
    <3> QED BY <2>1, <3>1, <3>2, FinishKeeps, Untouched, Reassemble
  <2>3. CASE ids # {}
    <3>1. p \in Passes
      BY <1>0, <1>1, JobIdShape DEF BeginRetry, Running
    <3>2. ids \in SUBSET Releases
      BY PipelineAssumption DEF RetryableReleaseIds, FailedIds, CompletedIds, StoreTypeOK, EmptyIndex
    <3>3. [loc[t] EXCEPT !.pl = ChunkReleases(ids)] \in Locals
      <4> HIDE DEF ids
      <4> QED BY <1>0, <3>2, ChunkReleasesType DEF Locals
    <3>4. [loc[t] EXCEPT !.pl = plan[p]] \in Locals
      BY <1>0, <3>1 DEF StoreTypeOK, Locals
    <3>5. \A to \in RetryPcs : to \in PcSet /\ to \notin ChunkPcs /\ to \notin FinalPcs
      BY PcKinds DEF PlainPcs
    <3>6. "retry.put" \in RetryPcs /\ "retry.next" \in RetryPcs
      BY DEF RetryPcs
    <3>7. /\ UNCHANGED jobs
          /\ \/ Goto(t, "retry.put", [loc[t] EXCEPT !.pl = ChunkReleases(ids)])
             \/ Goto(t, "retry.next", [loc[t] EXCEPT !.pl = plan[p]])
      BY <1>1, <2>3 DEF BeginRetry
    <3> HIDE DEF ids, p
    <3> QED BY <2>1, <3>3, <3>4, <3>5, <3>6, <3>7, GotoKeeps, Untouched, Reassemble
  <2> QED BY <2>2, <2>3
<1>2. CASE RetryNext(t)
  <2>1. UNCHANGED <<store, outcome, lock, env>> /\ Finish(t)
    BY <1>2 DEF RetryNext
  <2>2. loc[t].pl \in Plans
    BY <1>0 DEF Locals
  <2>3. jobs' \in [JobIds -> JobRecord]
    BY <1>2, <2>2, EnqueueNextType DEF RetryNext
  <2>4. QueueTypeOK'
    BY <2>1, <2>3 DEF QueueTypeOK
  <2> QED BY <2>1, <2>4, FinishKeeps, Untouched, Reassemble
<1> QED BY <1>1, <1>2

-----------------------------------------------------------------------------
(* 3. extractDistroKidReleaseChunk. *)

LEMMA ChunkStartKeeps ==
    ASSUME IndInv, NEW t \in Threads, BeginChunk(t) \/ DeferChunk(t) \/ DeferOverdue(t)
    PROVE  IndInv'
<1> USE DEF IndInv, TypeOK
<1>0. loc[t] \in Locals
  BY DEF ThreadTypeOK
<1>1. CASE BeginChunk(t)
  <2> DEFINE todo == {r \in loc[t].todo \cap DOMAIN index : ~FullyComplete(outs[r])}
             l == [loc[t] EXCEPT !.view = outs, !.todo = todo]
  <2>1. UNCHANGED <<store, outcome, jobs, env>> /\ lock' = t /\ Goto(t, "chunk.read", l)
    BY <1>1 DEF BeginChunk
  <2>2. QueueTypeOK'
    BY <2>1, LockType DEF QueueTypeOK
  <2>3. todo \in SUBSET Releases
    BY <1>0 DEF Locals
  <2>4. l \in Locals
    <3> HIDE DEF todo
    <3> QED BY <1>0, <2>3 DEF StoreTypeOK, Locals
  <2>5. "chunk.read" \in ChunkPcs /\ job[t].stage = "chunk"
    BY <1>1 DEF ChunkPcs, BeginChunk, Running
  <2> HIDE DEF l
  <2> QED BY <2>1, <2>2, <2>4, <2>5, PcKinds, GotoKeeps, Untouched, Reassemble
<1>2. CASE DeferChunk(t)
  <2>1. UNCHANGED <<store, outcome, lock, env>> /\ Finish(t)
    BY <1>2 DEF DeferChunk
  <2>2. loc[t].todo \in SUBSET Releases
    BY <1>0 DEF Locals
  <2>3. jobs' \in [JobIds -> JobRecord]
    BY <1>2, <2>2, EnqueuedType DEF DeferChunk, EnqueueChunk
  <2>4. QueueTypeOK'
    BY <2>1, <2>3 DEF QueueTypeOK
  <2> QED BY <2>1, <2>4, FinishKeeps, Untouched, Reassemble
<1>3. CASE DeferOverdue(t)
  BY <1>3, RaiseKeeps, Untouched, Reassemble DEF DeferOverdue
<1> QED BY <1>1, <1>2, <1>3

LEMMA ChunkReadKeeps ==
    ASSUME IndInv, NEW t \in Threads, ReadReleases(t) \/ AllRead(t) \/ ChunkCheck(t)
    PROVE  IndInv'
<1> USE DEF IndInv, TypeOK
<1>0. loc[t] \in Locals
  BY DEF ThreadTypeOK
<1>1. job[t].stage = "chunk"
  BY DEF HandlerInv, ChunkPcs, ReadReleases, AllRead, ChunkCheck
<1>2. "chunk.checkpoint" \in ChunkPcs /\ "chunk.put" \in ChunkPcs /\ "chunk.mark" \in ChunkPcs
  BY DEF ChunkPcs
<1>3. UNCHANGED <<store, outcome, jobs, lock, env>>
  BY DEF ReadReleases, AllRead, ChunkCheck
<1>4. CASE ReadReleases(t)
  <2>1. PICK b \in SUBSET Unread(t) : \E reading \in [b -> Readings] :
          Goto(t, "chunk.checkpoint",
               [loc[t] EXCEPT !.batch = b,
                              !.got = [r \in Releases |-> IF r \in b THEN reading[r] ELSE @[r]]])
    BY <1>4 DEF ReadReleases
  <2>2. PICK reading \in [b -> Readings] :
          Goto(t, "chunk.checkpoint",
               [loc[t] EXCEPT !.batch = b,
                              !.got = [r \in Releases |-> IF r \in b THEN reading[r] ELSE @[r]]])
    BY <2>1
  <2>3. b \in SUBSET Releases
    BY <1>0 DEF Unread, Locals
  <2>4. [r \in Releases |-> IF r \in b THEN reading[r] ELSE loc[t].got[r]]
          \in [Releases -> Outcome \cup {NoOutcome}]
    BY <1>0, PipelineAssumption DEF Locals
  <2>5. [loc[t] EXCEPT !.batch = b,
                       !.got = [r \in Releases |-> IF r \in b THEN reading[r] ELSE @[r]]] \in Locals
    BY <1>0, <2>3, <2>4 DEF Locals
  <2> QED BY <1>1, <1>2, <1>3, <2>5, <2>2, PcKinds, GotoKeeps, Untouched, Reassemble
<1>5. CASE AllRead(t)
  BY <1>0, <1>1, <1>2, <1>3, <1>5, PcKinds, GotoKeeps, Untouched, Reassemble DEF AllRead
<1>6. CASE ChunkCheck(t)
  BY <1>0, <1>1, <1>2, <1>3, <1>6, PcKinds, GotoKeeps, Untouched, Reassemble DEF ChunkCheck
<1> QED BY <1>4, <1>5, <1>6

LEMMA ChunkWriteKeeps ==
    ASSUME IndInv, NEW t \in Threads,
           PutOutcomes(t) \/ MarkChunkComplete(t) \/ ChunkTally(t) \/ ChunkNext(t)
    PROVE  IndInv'
<1> USE DEF IndInv, TypeOK
<1>0. loc[t] \in Locals /\ job[t] \in JobIds \cup {NoJob}
  BY DEF ThreadTypeOK
<1>1. job[t].stage = "chunk"
  BY DEF HandlerInv, ChunkPcs, PutOutcomes, MarkChunkComplete, ChunkTally, ChunkNext
<1>2. job[t].pass \in Passes /\ job[t].chunk \in Nat
  BY <1>0, <1>1, JobIdShape
<1>pc. {"chunk.read", "chunk.check", "chunk.tally", "chunk.next", "chunk.progress"} \subseteq ChunkPcs
  BY DEF ChunkPcs
<1>3. CASE PutOutcomes(t)
  <2> DEFINE b == IF pc[t] = "chunk.checkpoint" THEN loc[t].batch ELSE loc[t].todo
             merged == Converged(t, b)
             to == IF pc[t] = "chunk.checkpoint" THEN "chunk.read" ELSE "chunk.check"
             l == [loc[t] EXCEPT !.view = merged, !.batch = {}]
  <2>1. merged \in [Releases -> Outcome \cup {NoOutcome}]
    BY ConvergedType
  <2>2. UNCHANGED <<outcome, jobs, lock, env>> /\ Goto(t, to, l) /\ VerdictKept
    BY <1>3 DEF PutOutcomes, VerdictKept
  <2>3. outs' = [r \in Releases |-> IF r \in b THEN merged[r] ELSE outs[r]]
    BY <1>3 DEF PutOutcomes
  <2>4. outs' \in [Releases -> Outcome \cup {NoOutcome}]
    <3> HIDE DEF merged, b
    <3> QED BY <2>1, <2>3 DEF StoreTypeOK
  <2>5. StoreTypeOK'
    BY <1>3, <2>4 DEF PutOutcomes, StoreTypeOK
  <2>6. l \in Locals
    <3> HIDE DEF merged
    <3> QED BY <1>0, <2>1 DEF Locals
  <2>7. to \in ChunkPcs
    BY <1>pc
  <2> HIDE DEF l, to
  <2> QED BY <1>1, <2>2, <2>5, <2>6, <2>7, PcKinds, GotoKeeps, Untouched, Reassemble
<1>4. CASE MarkChunkComplete(t)
  <2>1. UNCHANGED <<outcome, jobs, lock, env>> /\ Goto(t, "chunk.tally", loc[t]) /\ VerdictKept
    BY <1>4 DEF MarkChunkComplete, VerdictKept
  <2>2. done' \in [Passes -> SUBSET Nat]
    BY <1>2, <1>4 DEF MarkChunkComplete, StoreTypeOK
  <2>3. StoreTypeOK'
    BY <1>4, <2>2 DEF MarkChunkComplete, StoreTypeOK
  <2> QED BY <1>0, <1>1, <1>pc, <2>1, <2>3, PcKinds, GotoKeeps, Untouched, Reassemble
<1>5. CASE ChunkTally(t)
  <2> DEFINE read == [loc[t] EXCEPT !.complete = done[job[t].pass]]
             row  == [progress EXCEPT !.completed = Cardinality(CompletedIds(outs)),
                                      !.failed = Cardinality(FailedIds(outs))]
  <2>1. UNCHANGED <<store, outcome, jobs, lock, env>>
    BY <1>5 DEF ChunkTally
  <2>2. read \in Locals
    BY <1>0, <1>2 DEF StoreTypeOK, Locals
  <2>3. CompletedIds(outs) \in SUBSET Releases /\ FailedIds(outs) \in SUBSET Releases
    BY DEF CompletedIds, FailedIds
  <2>4. row \in Progress
    BY <2>3, ReleaseCount DEF StoreTypeOK, Progress
  <2>5. [read EXCEPT !.prog = row] \in Locals
    <3> HIDE DEF read, row
    <3> QED BY <2>2, <2>4 DEF Locals
  <2>6. Goto(t, "chunk.next", read) \/ Goto(t, "chunk.progress", [read EXCEPT !.prog = row])
    BY <1>5 DEF ChunkTally
  <2> HIDE DEF read, row
  <2> QED BY <1>1, <1>pc, <2>1, <2>2, <2>5, <2>6, PcKinds, GotoKeeps, Untouched, Reassemble
<1>6. CASE ChunkNext(t)
  <2>1. UNCHANGED <<store, outcome, env>> /\ Finish(t) /\ lock' = Unlocked(t)
    BY <1>6 DEF ChunkNext
  <2>2. plan[job[t].pass] \in Plans
    BY <1>2 DEF StoreTypeOK
  <2>3. jobs' \in [JobIds -> JobRecord]
    BY <1>6, <2>2, EnqueueNextType DEF ChunkNext
  <2>4. QueueTypeOK'
    BY <2>1, <2>3, LockType DEF QueueTypeOK
  <2> QED BY <2>1, <2>4, FinishKeeps, Untouched, Reassemble
<1> QED BY <1>3, <1>4, <1>5, <1>6

-----------------------------------------------------------------------------
(* 5. reconcileDistroKidSnapshot and 6. finalizeDistroKidSnapshot. *)

LEMMA ReconcileStageKeeps ==
    ASSUME IndInv, NEW t \in Threads, BeginReconcile(t)
    PROVE  IndInv'
<1> USE DEF IndInv, TypeOK
<1> DEFINE p == job[t].pass
           c == Reconcile(index, outs)
           l == [loc[t] EXCEPT !.prop = Proposal(DeriveStatus(c), c, p)]
<1>1. UNCHANGED <<store, outcome, lock, env>>
  BY DEF BeginReconcile
<1>2. loc[t] \in Locals /\ p \in Passes
  BY JobIdShape DEF ThreadTypeOK, BeginReconcile, Running
<1>3. Proposal(DeriveStatus(c), c, p) \in Verdict
  BY <1>2, DeriveStatusType, ProposalType
<1>4. l \in Locals
  <2> HIDE DEF c, p
  <2> QED BY <1>2, <1>3 DEF Locals
<1>5. "claim" \in PcSet /\ "claim" \notin ChunkPcs /\ "claim" \notin FinalPcs
  BY DEF PcSet, ChunkPcs, FinalPcs
<1>6. \/ jobs' = Enqueued(RetryJob(p + 1), {}) /\ Finish(t)
      \/ UNCHANGED jobs /\ Goto(t, "claim", l)
  BY DEF BeginReconcile, Enqueue
<1>7. QueueTypeOK'
  BY <1>1, <1>6, EnqueuedType DEF QueueTypeOK
<1> HIDE DEF l, c, p
<1> QED BY <1>1, <1>4, <1>5, <1>6, <1>7, FinishKeeps, GotoKeeps, Untouched, Reassemble

LEMMA FinalizeStageKeeps ==
    ASSUME IndInv, NEW t \in Threads,
           \/ BeginFinalize(t) \/ PersistSnapshot(t) \/ PutFinalProgress(t)
           \/ ReleaseSession(t) \/ ClearEnvelope(t)
    PROVE  IndInv'
<1> USE DEF IndInv, TypeOK
<1>0. loc[t] \in Locals
  BY DEF ThreadTypeOK
<1>pc. {"final.release", "final.persist", "final.progress", "final.clear"} \subseteq FinalPcs
  BY DEF FinalPcs
<1>1. terminal.kind = "TERMINAL" => terminal \in Verdict
  BY DEF StoreTypeOK, Open, Cancelled
<1>2. CASE BeginFinalize(t)
  <2>1. UNCHANGED <<store, outcome, jobs, lock, env>> /\ terminal' = terminal
    BY <1>2 DEF BeginFinalize, store
  <2>2. [loc[t] EXCEPT !.view = outs] \in Locals
    BY <1>0 DEF StoreTypeOK, Locals
  <2>3. \/ Finish(t)
        \/ terminal.kind = "TERMINAL" /\ Goto(t, "final.release", loc[t])
        \/ terminal.kind = "TERMINAL" /\ Goto(t, "final.persist", [loc[t] EXCEPT !.view = outs])
    BY <1>2 DEF BeginFinalize
  <2> QED BY <1>0, <1>pc, <2>1, <2>2, <2>3, PcKinds, FinishKeeps, GotoKeeps, Untouched, Reassemble
<1>3. CASE PersistSnapshot(t)
  <2>1. UNCHANGED <<store, jobs, lock, env>> /\ terminal' = terminal
    BY <1>3 DEF PersistSnapshot, store
  <2>2. terminal.kind = "TERMINAL"
    BY <1>3, <1>pc DEF PersistSnapshot, HandlerInv
  <2>3. [verdict |-> terminal, outs |-> loc[t].view]
          \in [verdict : Verdict \cup {Open}, outs : [Releases -> Outcome \cup {NoOutcome}]]
    BY <1>0, <1>1, <2>2 DEF Locals
  <2>4. OutcomeTypeOK'
    BY <1>3, <2>3 DEF PersistSnapshot, OutcomeTypeOK
  <2>5. Goto(t, "final.progress", loc[t]) \/ Raise(t, "threw")
    BY <1>3 DEF PersistSnapshot
  <2> QED BY <1>0, <1>pc, <2>1, <2>2, <2>4, <2>5, PcKinds, RaiseKeeps, GotoKeeps, Untouched, Reassemble
<1>4. CASE PutFinalProgress(t)
  <2>1. UNCHANGED <<outcome, jobs, lock, env>> /\ terminal' = terminal /\ VerdictKept
        /\ Goto(t, "final.release", loc[t])
    BY <1>4 DEF PutFinalProgress, VerdictKept
  <2>2. terminal.kind = "TERMINAL"
    BY <1>4, <1>pc DEF PutFinalProgress, HandlerInv
  <2>3. progress' \in Progress
    BY <1>1, <1>4, <2>2 DEF PutFinalProgress, FinalProgress, ProgressOf, Progress, Verdict
  <2>4. StoreTypeOK'
    BY <1>4, <2>3 DEF PutFinalProgress, StoreTypeOK
  <2> QED BY <1>0, <1>pc, <2>1, <2>2, <2>4, PcKinds, GotoKeeps, Untouched, Reassemble
<1>5. CASE ReleaseSession(t)
  <2>1. UNCHANGED <<store, jobs, lock, env>> /\ terminal' = terminal
    BY <1>5 DEF ReleaseSession, store
  <2>2. OutcomeTypeOK'
    BY <1>5 DEF ReleaseSession, OutcomeTypeOK
  <2>3. CASE pc[t] = "final.release"
    <3>1. Goto(t, "final.clear", loc[t])
      BY <1>5, <2>3 DEF ReleaseSession
    <3>2. terminal.kind = "TERMINAL"
      BY <1>pc, <2>3 DEF HandlerInv
    <3> QED BY <1>0, <1>pc, <2>1, <2>2, <3>1, <3>2, PcKinds, GotoKeeps, Untouched, Reassemble
  <2>4. CASE pc[t] = "cancel.release"
    <3>1. Goto(t, "cancel.clear", loc[t])
      BY <1>5, <2>4 DEF ReleaseSession
    <3>2. "cancel.clear" \in PlainPcs
      BY DEF PlainPcs, SweepPcs
    <3> QED BY <1>0, <2>1, <2>2, <3>1, <3>2, PcKinds, GotoKeeps, Untouched, Reassemble
  <2> QED BY <1>5, <2>3, <2>4 DEF ReleaseSession
<1>6. CASE ClearEnvelope(t)
  <2>1. UNCHANGED <<store, jobs, lock, env>> /\ Finish(t)
    BY <1>6 DEF ClearEnvelope
  <2>2. OutcomeTypeOK'
    BY <1>6 DEF ClearEnvelope, OutcomeTypeOK
  <2> QED BY <2>1, <2>2, FinishKeeps, Untouched, Reassemble
<1> QED BY <1>2, <1>3, <1>4, <1>5, <1>6

-----------------------------------------------------------------------------
(* The sweeps. *)

LEMMA FailedJobSweepKeeps ==
    ASSUME IndInv, NEW j \in JobIds,
           RetryFailedJob(j) \/ \E t \in Threads : TerminalizeFailedJob(t, j)
    PROVE  IndInv'
<1> USE DEF IndInv, TypeOK
<1>1. CASE RetryFailedJob(j)
  <2>1. UNCHANGED <<store, outcome, lock, env, thread>>
    BY <1>1 DEF RetryFailedJob
  <2>2. [jobs[j] EXCEPT !.st = "waiting", !.shut = FALSE] \in JobRecord
    BY DEF QueueTypeOK, JobRecord
  <2>3. QueueTypeOK'
    BY <1>1, <2>1, <2>2 DEF RetryFailedJob, QueueTypeOK
  <2> QED BY <2>1, <2>3, IdleKeeps, Untouched, Reassemble
<1>2. ASSUME NEW t \in Threads, TerminalizeFailedJob(t, j) PROVE IndInv'
  <2>1. UNCHANGED <<store, outcome, jobs, lock, env>> /\ terminal' = terminal
    BY <1>2 DEF TerminalizeFailedJob, store
  <2>2. [NoLocals EXCEPT !.prop = FailureProposal(j)] \in Locals
    BY NoLocalsType, FailureProposalType DEF Locals
  <2>3. "term.claim" \in PcSet /\ "term.claim" \notin ChunkPcs /\ "term.claim" \notin FinalPcs
    BY DEF PcSet, TermPcs, ChunkPcs, FinalPcs
  <2>4. ThreadTypeOK'
    BY <1>2, <2>2, <2>3 DEF TerminalizeFailedJob, ThreadTypeOK
  <2>5. HandlerInv'
    BY <1>2, <2>1, <2>3 DEF TerminalizeFailedJob, ThreadTypeOK, HandlerInv
  <2> QED BY <2>1, <2>4, <2>5, Untouched, Reassemble
<1> QED BY <1>1, <1>2

LEMMA DurableSweepKeeps ==
    ASSUME IndInv, NEW t \in Threads,
           \/ ListEnvelope(t) \/ SweepDecided(t) \/ SweepExpired(t)
           \/ SweepRestart(t) \/ SweepResume(t)
    PROVE  IndInv'
<1> USE DEF IndInv, TypeOK
<1>0. loc[t] \in Locals
  BY DEF ThreadTypeOK
<1>pc. \A to \in {"sweep.listed", "cancel.release", "term.claim"} :
          to \in PcSet /\ to \notin ChunkPcs /\ to \notin FinalPcs
  BY DEF PcSet, SweepPcs, TermPcs, ChunkPcs, FinalPcs
<1>1. CASE ListEnvelope(t)
  BY <1>0, <1>1, <1>pc, GotoKeeps, Untouched, Reassemble DEF ListEnvelope
<1>2. CASE SweepDecided(t)
  <2>1. UNCHANGED <<store, outcome, lock, env>>
    BY <1>2 DEF SweepDecided
  <2>2. \/ jobs' = Enqueued(FinalizeJob(terminal.pass), {}) /\ Rest(t)
        \/ UNCHANGED jobs /\ Goto(t, "cancel.release", loc[t])
    BY <1>2 DEF SweepDecided, Enqueue
  <2>3. QueueTypeOK'
    BY <2>1, <2>2, EnqueuedType DEF QueueTypeOK
  <2> QED BY <1>0, <1>pc, <2>1, <2>2, <2>3, RestKeeps, GotoKeeps, Untouched, Reassemble
<1>3. CASE SweepExpired(t)
  <2>1. [loc[t] EXCEPT !.prop = FailureProposal(NoJob)] \in Locals
    BY <1>0, FailureProposalType DEF Locals
  <2> QED BY <1>3, <1>pc, <2>1, GotoKeeps, Untouched, Reassemble DEF SweepExpired
<1>4. CASE SweepRestart(t)
  <2>1. UNCHANGED <<store, outcome, lock, env>> /\ Rest(t)
    BY <1>4 DEF SweepRestart
  <2>2. QueueTypeOK'
    BY <1>4, <2>1, EnqueuedType DEF SweepRestart, Enqueue, QueueTypeOK
  <2> QED BY <2>1, <2>2, RestKeeps, Untouched, Reassemble
<1>5. CASE SweepResume(t)
  BY <1>5, PlanFromKeeps DEF SweepResume
<1> QED BY <1>1, <1>2, <1>3, <1>4, <1>5

-----------------------------------------------------------------------------
(* The environment. *)

LEMMA FaultCount ==
    ASSUME IndInv, NEW kind, CountFault(kind), UNCHANGED <<expired, consent, api>>
    PROVE  EnvTypeOK'
<1>1. faults \in 0 .. MaxFaults /\ MaxFaults \in Nat
  BY PipelineAssumption DEF IndInv, TypeOK, EnvTypeOK
<1>2. faults' \in 0 .. MaxFaults
  BY <1>1 DEF CountFault
<1> QED BY <1>2 DEF IndInv, TypeOK, EnvTypeOK

LEMMA ThreadFaultKeeps ==
    ASSUME IndInv, NEW t \in Threads, Throw(t) \/ Shutdown(t) \/ Crash(t) \/ LoseLock(t)
    PROVE  IndInv'
<1> USE DEF IndInv, TypeOK
<1>1. UNCHANGED <<store, outcome, jobs>>
  BY DEF Throw, Shutdown, Crash, LoseLock
<1>2. EnvTypeOK'
  BY FaultCount DEF Throw, Shutdown, Crash, LoseLock
<1>3. lock' \in {Unlocked(t), "dead", "free", lock}
  BY DEF Throw, Shutdown, Crash, LoseLock
<1>4. QueueTypeOK'
  BY <1>1, <1>3, LockType DEF QueueTypeOK
<1>5. \/ Raise(t, "unconverged") \/ Raise(t, "threw") \/ Raise(t, "shutdown")
      \/ Rest(t) \/ UNCHANGED thread
  BY DEF Throw, Shutdown, Crash, LoseLock
<1> QED BY <1>1, <1>2, <1>4, <1>5, RaiseKeeps, RestKeeps, IdleKeeps, Untouched, Reassemble

LEMMA QueueFaultKeeps ==
    ASSUME IndInv, NEW j \in JobIds, StalledCheck(j) \/ StallAlive(j) \/ Evict(j)
    PROVE  IndInv'
<1> USE DEF IndInv, TypeOK
<1>1. UNCHANGED <<store, outcome, lock, thread>>
  BY DEF StalledCheck, StallAlive, Evict
<1>2. EnvTypeOK'
  BY FaultCount, Untouched DEF StalledCheck, StallAlive, Evict
<1>3. Stalled(j) \in [JobIds -> JobRecord]
  <2>1. jobs[j] \in JobRecord
    BY DEF QueueTypeOK
  <2>2. 1 \in 0 .. 1
    OBVIOUS
  <2>3. [jobs[j] EXCEPT !.owner = "none", !.stalls = 1, !.st = "waiting"] \in JobRecord
    BY <2>1, <2>2, Zenon DEF JobRecord
  <2>4. [jobs[j] EXCEPT !.owner = "none", !.shut = FALSE, !.st = "failed"] \in JobRecord
    BY <2>1, Zenon DEF JobRecord
  <2> QED BY <2>3, <2>4 DEF Stalled, QueueTypeOK
<1>4. [jobs EXCEPT ![j] = NotQueued] \in [JobIds -> JobRecord]
  BY NotQueuedType DEF QueueTypeOK
<1>5. QueueTypeOK'
  BY <1>1, <1>3, <1>4 DEF StalledCheck, StallAlive, Evict, QueueTypeOK
<1> QED BY <1>1, <1>2, <1>5, IdleKeeps, Untouched, Reassemble

LEMMA EnvironmentKeeps ==
    ASSUME IndInv,
           \/ DeadlinePasses \/ DeadLockExpires \/ OtherAcquires \/ OtherReleases
           \/ RedisLoss \/ RevokeConsent \/ CancelSnapshot
    PROVE  IndInv'
<1> USE DEF IndInv, TypeOK
<1>1. CASE DeadlinePasses
  <2>1. EnvTypeOK'
    BY <1>1 DEF DeadlinePasses, EnvTypeOK
  <2> QED BY <1>1, <2>1, IdleKeeps, Untouched, Reassemble DEF DeadlinePasses
<1>2. CASE DeadLockExpires \/ OtherReleases
  <2>1. UNCHANGED <<store, outcome, jobs, env, thread>> /\ lock' = "free"
    BY <1>2 DEF DeadLockExpires, OtherReleases
  <2>2. QueueTypeOK'
    BY <2>1 DEF QueueTypeOK
  <2> QED BY <2>1, <2>2, IdleKeeps, Untouched, Reassemble
<1>3. CASE OtherAcquires
  <2>1. QueueTypeOK'
    BY <1>3 DEF OtherAcquires, QueueTypeOK
  <2> QED BY <1>3, <2>1, FaultCount, IdleKeeps, Untouched, Reassemble DEF OtherAcquires
<1>4. CASE RedisLoss
  <2>1. QueueTypeOK'
    BY <1>4, NotQueuedType DEF RedisLoss, QueueTypeOK
  <2> QED BY <1>4, <2>1, FaultCount, IdleKeeps, Untouched, Reassemble DEF RedisLoss
<1>5. CASE RevokeConsent
  <2>1. EnvTypeOK'
    <3>1. faults' \in 0 .. MaxFaults
      BY <1>5, PipelineAssumption DEF RevokeConsent, CountFault, EnvTypeOK
    <3> QED BY <1>5, <3>1 DEF RevokeConsent, EnvTypeOK
  <2> QED BY <1>5, <2>1, IdleKeeps, Untouched, Reassemble DEF RevokeConsent
<1>6. CASE CancelSnapshot
  <2>1. VerdictKept /\ UNCHANGED <<outcome, jobs, lock, thread>>
    BY <1>6 DEF CancelSnapshot, VerdictKept
  <2>2. StoreTypeOK'
    BY <1>6 DEF CancelSnapshot, StoreTypeOK
  <2>3. EnvTypeOK'
    BY <1>6, FaultCount DEF CancelSnapshot
  <2> QED BY <2>1, <2>2, <2>3, IdleKeeps, Untouched, Reassemble
<1> QED BY <1>1, <1>2, <1>3, <1>4, <1>5, <1>6

-----------------------------------------------------------------------------
(* Type correctness. *)

\* The invariant holds initially.
LEMMA InitInv == Init => IndInv
<1> SUFFICES ASSUME Init PROVE IndInv
  OBVIOUS
<1>1. StoreTypeOK
  <2>1. NoProgress \in Progress
    BY DEF NoProgress, ProgressOf, Progress
  <2>2. <<>> \in Plans
    BY DEF Plans
  <2> QED BY <2>1, <2>2 DEF Init, StoreTypeOK, NoOutcomes
<1>2. OutcomeTypeOK
  BY DEF Init, OutcomeTypeOK, NoOutcomes
<1>3. QueueTypeOK
  BY NotQueuedType DEF Init, QueueTypeOK
<1>4. EnvTypeOK
  <2>1. 0 \in 0 .. MaxFaults /\ 0 \in 0 .. MaxConfirms
    BY PipelineAssumption
  <2>2. [calls |-> 0, preparing |-> FALSE] \in [calls : 0 .. MaxConfirms, preparing : BOOLEAN]
    BY <2>1, Zenon
  <2> QED BY <2>1, <2>2 DEF Init, EnvTypeOK
<1>5. "idle" \in PcSet /\ "idle" \notin ChunkPcs /\ "idle" \notin FinalPcs
  BY DEF PcSet, ChunkPcs, FinalPcs
<1>6. ThreadTypeOK /\ HandlerInv
  BY <1>5, NoLocalsType DEF Init, ThreadTypeOK, HandlerInv
<1> QED BY <1>1, <1>2, <1>3, <1>4, <1>6 DEF IndInv, TypeOK

\* Every step keeps it.
LEMMA NextInv == IndInv /\ [Next]_vars => IndInv'
<1> SUFFICES ASSUME IndInv, [Next]_vars PROVE IndInv'
  OBVIOUS
<1>1. CASE QueueStep
  BY <1>1, FetchKeeps, FailedJobSweepKeeps, QueueFaultKeeps, DurableSweepKeeps DEF QueueStep
<1>2. CASE Environment
  BY <1>2, ProducerKeeps, EnvironmentKeeps, ThreadFaultKeeps, QueueFaultKeeps DEF Environment
<1>3. ASSUME NEW t \in Threads, HandlerStep(t) PROVE IndInv'
  BY <1>3, StageWrapperKeeps, TerminalizeKeeps, AssertionKeeps, IndexStageKeeps, PlanStageKeeps,
     ChunkStartKeeps, ChunkReadKeeps, ChunkWriteKeeps, RetryStageKeeps, ReconcileStageKeeps,
     FinalizeStageKeeps, DurableSweepKeeps DEF HandlerStep
<1>4. CASE UNCHANGED vars
  <2>1. UNCHANGED <<store, outcome, jobs, lock, env, thread>>
    BY <1>4 DEF vars
  <2> QED BY <2>1, IdleKeeps, Untouched, Reassemble
<1> QED BY <1>1, <1>2, <1>3, <1>4 DEF Next

\* Whatever the workers, sweeps and faults do, stored checkpoints, jobs, locks and handler state
\* stay well-formed; in particular only a proposed verdict is ever published.
THEOREM TypeCorrect == Spec => []TypeOK
<1>1. IndInv => TypeOK
  BY DEF IndInv
<1> QED BY <1>1, InitInv, NextInv, PTL DEF Spec

-----------------------------------------------------------------------------
(* What the account lock protects: browser reads of one account never      *)
(* overlap and no completed release is taken back, for every number of     *)
(* workers and sweeps and every fault except the two that take the lock    *)
(* away from a live holder.                                                *)

\* Neither Redis nor the lock's lease is lost while its holder works.
LockKept == "redis" \notin FaultKinds /\ "lockLoss" \notin FaultKinds

-----------------------------------------------------------------------------
(* The invariant.  Reading the browser implies holding the account lock;    *)
(* the outcomes a chunk loaded are still the stored ones, because only the  *)
(* lock holder writes outcomes; what was checkpointed was converged from    *)
(* what was read; and only releases with gaps are still to be checkpointed. *)

LockInv == \A t \in Threads : pc[t] \in LockedPcs => lock = t

\* An outcome that some previous one and the reading were converged to.
ConvergedFrom(outcomeRead, reading) ==
    \E previous \in Outcome \cup {NoOutcome} : outcomeRead = Converge(previous, reading)

ChunkView(t) ==
    /\ loc[t].view = outs
    /\ pc[t] # "chunk.checkpoint" => loc[t].batch = {}
    /\ pc[t] = "chunk.put" => Unread(t) = {}
    /\ \A r \in Releases :
          loc[t].got[r] # NoOutcome /\ r \notin loc[t].batch =>
              ConvergedFrom(loc[t].view[r], loc[t].got[r])
    /\ loc[t].batch \subseteq loc[t].todo
    /\ \A r \in loc[t].batch : loc[t].got[r] # NoOutcome
    /\ pc[t] \in {"chunk.read", "chunk.checkpoint"} =>
          \A r \in loc[t].todo :
              loc[t].got[r] = NoOutcome \/ r \in loc[t].batch => ~FullyComplete(loc[t].view[r])

FreshStart(t) == loc[t].got = NoOutcomes /\ loc[t].batch = {}

ViewInv ==
    \A t \in Threads :
        /\ pc[t] \in ChunkPcs => ChunkView(t)
        /\ pc[t] = "start" => FreshStart(t)

ReadInv == IndInv /\ LockInv /\ ViewInv

-----------------------------------------------------------------------------
(* How a step moves threads. *)

OthersStay(t) == \A u \in Threads \ {t} : pc'[u] = pc[u] /\ loc'[u] = loc[u]

LEMMA GotoMoves ==
    ASSUME ThreadTypeOK, NEW t \in Threads, NEW to, NEW l, Goto(t, to, l)
    PROVE  OthersStay(t) /\ pc'[t] = to /\ loc'[t] = l
BY DEF ThreadTypeOK, Goto, OthersStay

LEMMA RestMoves ==
    ASSUME ThreadTypeOK, NEW t \in Threads, Rest(t)
    PROVE  OthersStay(t) /\ pc'[t] = "idle"
BY DEF ThreadTypeOK, Rest, OthersStay

LEMMA FinishMoves ==
    ASSUME ThreadTypeOK, NEW t \in Threads, Finish(t)
    PROVE  OthersStay(t) /\ pc'[t] \in {"idle", "done"}
BY GotoMoves, RestMoves DEF Finish

LEMMA RaiseMoves ==
    ASSUME ThreadTypeOK, NEW t \in Threads, NEW how, Raise(t, how)
    PROVE  OthersStay(t) /\ pc'[t] \in {"idle", how}
BY GotoMoves, RestMoves DEF Raise

\* The program counters at which no browser work is under way.
OutsidePcs == {"idle", "claim", "announce", "done", "threw", "fatal", "shutdown", "unconverged"}
                \cup PlanPcs \cup RetryPcs \cup TermPcs \cup FinalPcs \cup SweepPcs

LEMMA OutsideFacts ==
    /\ OutsidePcs \cap LockedPcs = {} /\ "start" \notin OutsidePcs
    /\ ChunkPcs \subseteq LockedPcs /\ IndexPcs \subseteq LockedPcs
    /\ IndexPcs \cap ChunkPcs = {} /\ "start" \notin LockedPcs
BY DEF OutsidePcs, LockedPcs, ChunkPcs, IndexPcs, PlanPcs, RetryPcs, TermPcs, FinalPcs, SweepPcs

\* A step of t keeps the invariant if it takes the lock from nobody else, works in the browser only
\* with the lock, writes outcomes only with the lock and leaves its own view consistent.
LEMMA MoveKeeps ==
    ASSUME LockInv, ViewInv, NEW t \in Threads, OthersStay(t),
           lock \in Threads \ {t} => lock' = lock,
           pc'[t] \in LockedPcs => lock' = t,
           pc'[t] \in ChunkPcs => ChunkView(t)',
           pc'[t] = "start" => FreshStart(t)',
           outs' = outs \/ lock = t
    PROVE  LockInv' /\ ViewInv'
<1>1. ASSUME NEW u \in Threads, pc'[u] \in LockedPcs PROVE lock' = u
  <2>1. CASE u = t
    BY <1>1, <2>1
  <2>2. CASE u # t
    <3>1. lock = u
      BY <1>1, <2>2 DEF OthersStay, LockInv
    <3> QED BY <2>2, <3>1
  <2> QED BY <2>1, <2>2
<1>2. ASSUME NEW u \in Threads
      PROVE  (pc'[u] \in ChunkPcs => ChunkView(u)') /\ (pc'[u] = "start" => FreshStart(u)')
  <2>1. CASE u = t
    BY <2>1
  <2>2. CASE u # t
    <3>1. pc'[u] = pc[u] /\ loc'[u] = loc[u]
      BY <2>2 DEF OthersStay
    <3>2. pc'[u] = "start" => FreshStart(u)'
      BY <3>1 DEF ViewInv, FreshStart
    <3>3. ASSUME pc'[u] \in ChunkPcs PROVE ChunkView(u)'
      <4>1. lock = u
        BY <3>1, <3>3, OutsideFacts DEF LockInv
      <4>2. outs' = outs
        BY <2>2, <4>1
      <4>3. ChunkView(u)
        BY <3>1, <3>3 DEF ViewInv
      <4> QED BY <3>1, <4>2, <4>3 DEF ChunkView, Unread
    <3> QED BY <3>2, <3>3
  <2> QED BY <2>1, <2>2
<1> QED BY <1>1, <1>2 DEF LockInv, ViewInv

\* A step that leaves t outside browser work, gives up at most its own lock and writes no outcome.
Leaves(t) ==
    /\ OthersStay(t) /\ pc'[t] \in OutsidePcs
    /\ lock' \in {lock, Unlocked(t), IF lock = t THEN "dead" ELSE lock}
    /\ UNCHANGED outs

LEMMA LeavingKeeps ==
    ASSUME LockInv, ViewInv, NEW t \in Threads, Leaves(t)
    PROVE  LockInv' /\ ViewInv' /\ UNCHANGED outs
<1>1. lock \in Threads \ {t} => lock' = lock
  BY DEF Leaves, Unlocked
<1>2. pc'[t] \notin LockedPcs /\ pc'[t] \notin ChunkPcs /\ pc'[t] # "start"
  BY OutsideFacts DEF Leaves
<1> QED BY <1>1, <1>2, MoveKeeps DEF Leaves

\* A step that moves no thread, takes the lock from no thread and writes no outcome.
LEMMA BackgroundKeeps ==
    ASSUME LockInv, ViewInv, UNCHANGED <<pc, loc, outs>>, lock \in Threads => lock' = lock
    PROVE  LockInv' /\ ViewInv' /\ UNCHANGED outs
<1>1. LockInv'
  BY DEF LockInv
<1>2. ViewInv'
  BY DEF ViewInv, ChunkView, FreshStart, Unread
<1> QED BY <1>1, <1>2

-----------------------------------------------------------------------------
(* The steps outside the browser. *)

LEMMA WrapperLeaves ==
    ASSUME ThreadTypeOK, NEW t \in Threads,
           \/ ResumeFinalizer(t) \/ StartOverdue(t) \/ Complete(t) \/ RethrowStageError(t)
           \/ TerminalizeStage(t) \/ ClaimTerminal(t) \/ AnnounceTerminal(t) \/ MarkHandled(t)
    PROVE  Leaves(t)
<1>1. {"idle", "done", "fatal", "announce", "term.claim", "term.announce", "term.mark"}
        \subseteq OutsidePcs
  BY DEF OutsidePcs, TermPcs
<1>2. UNCHANGED <<outs, lock>>
  BY DEF ResumeFinalizer, StartOverdue, Complete, RethrowStageError, TerminalizeStage,
         ClaimTerminal, AnnounceTerminal, MarkHandled, store
<1>3. OthersStay(t) /\ pc'[t] \in {"idle", "done", "fatal", "announce", "term.claim",
                                   "term.announce", "term.mark"}
  <2>1. CASE ResumeFinalizer(t)
    BY <2>1, GotoMoves DEF ResumeFinalizer
  <2>2. CASE StartOverdue(t)
    BY <2>2, RaiseMoves DEF StartOverdue
  <2>3. CASE Complete(t) \/ RethrowStageError(t) \/ MarkHandled(t)
    BY <2>3, RestMoves DEF Complete, RethrowStageError, MarkHandled
  <2>4. CASE TerminalizeStage(t)
    BY <2>4, GotoMoves DEF TerminalizeStage
  <2>5. CASE ClaimTerminal(t)
    BY <2>5, GotoMoves DEF ClaimTerminal
  <2>6. CASE AnnounceTerminal(t)
    BY <2>6, GotoMoves, FinishMoves, RestMoves DEF AnnounceTerminal
  <2> QED BY <2>1, <2>2, <2>3, <2>4, <2>5, <2>6
<1> QED BY <1>1, <1>2, <1>3 DEF Leaves

LEMMA AssertionLeaves ==
    ASSUME ThreadTypeOK, NEW t \in Threads,
           AssertOverdue(t) \/ AssertStopped(t) \/ LockLost(t) \/ ConsentInactive(t)
    PROVE  Leaves(t)
<1>1. {"idle", "done", "fatal", "threw"} \subseteq OutsidePcs
  BY DEF OutsidePcs
<1>2. UNCHANGED outs /\ lock' \in {lock, Unlocked(t)}
  BY DEF AssertOverdue, AssertStopped, LockLost, ConsentInactive, store
<1>3. OthersStay(t) /\ pc'[t] \in {"idle", "done", "fatal", "threw"}
  BY RaiseMoves, FinishMoves DEF AssertOverdue, AssertStopped, LockLost, ConsentInactive
<1> QED BY <1>1, <1>2, <1>3 DEF Leaves

LEMMA StageEndLeaves ==
    ASSUME ThreadTypeOK, NEW t \in Threads,
           IndexNext(t) \/ ChunkNext(t) \/ DeferChunk(t) \/ DeferOverdue(t)
    PROVE  Leaves(t)
<1>1. {"idle", "done", "fatal"} \subseteq OutsidePcs
  BY DEF OutsidePcs
<1>2. UNCHANGED outs /\ lock' \in {lock, Unlocked(t)}
  BY DEF IndexNext, ChunkNext, DeferChunk, DeferOverdue, store
<1>3. OthersStay(t) /\ pc'[t] \in {"idle", "done", "fatal"}
  BY RaiseMoves, FinishMoves DEF IndexNext, ChunkNext, DeferChunk, DeferOverdue
<1> QED BY <1>1, <1>2, <1>3 DEF Leaves

LEMMA PlannerLeaves ==
    ASSUME ThreadTypeOK, NEW t \in Threads,
           \/ BeginPlan(t) \/ PutPassPlan(t) \/ PlanCheck(t) \/ PlanNext(t)
           \/ PutProgress(t) /\ pc[t] = "plan.progress"
           \/ BeginRetry(t) \/ RetryNext(t) \/ BeginReconcile(t)
    PROVE  Leaves(t)
<1> DEFINE To == {"idle", "done", "claim", "plan.put", "plan.check", "plan.progress", "plan.next",
                  "retry.put", "retry.next"}
<1>1. To \subseteq OutsidePcs
  BY DEF OutsidePcs, PlanPcs, RetryPcs
<1>2. UNCHANGED <<outs, lock>>
  BY DEF BeginPlan, PutPassPlan, PlanCheck, PlanNext, PutProgress, BeginRetry, RetryNext,
         BeginReconcile, store
<1>3. OthersStay(t) /\ pc'[t] \in To
  <2>1. CASE BeginPlan(t)
    BY <2>1, GotoMoves DEF BeginPlan, PlanFrom
  <2>2. CASE PutPassPlan(t)
    BY <2>2, GotoMoves DEF PutPassPlan
  <2>3. CASE PlanCheck(t)
    BY <2>3, GotoMoves DEF PlanCheck
  <2>4. CASE PlanNext(t) \/ RetryNext(t)
    BY <2>4, FinishMoves DEF PlanNext, RetryNext
  <2>5. CASE PutProgress(t) /\ pc[t] = "plan.progress"
    BY <2>5, GotoMoves DEF PutProgress
  <2>6. CASE BeginRetry(t)
    BY <2>6, GotoMoves, FinishMoves DEF BeginRetry
  <2>7. CASE BeginReconcile(t)
    BY <2>7, GotoMoves, FinishMoves DEF BeginReconcile
  <2> QED BY <2>1, <2>2, <2>3, <2>4, <2>5, <2>6, <2>7
<1> QED BY <1>1, <1>2, <1>3 DEF Leaves

LEMMA FinalizerLeaves ==
    ASSUME ThreadTypeOK, NEW t \in Threads,
           \/ BeginFinalize(t) \/ PersistSnapshot(t) \/ PutFinalProgress(t)
           \/ ReleaseSession(t) \/ ClearEnvelope(t)
    PROVE  Leaves(t)
<1> DEFINE To == {"idle", "done", "threw", "final.persist", "final.progress", "final.release",
                  "final.clear", "cancel.clear"}
<1>1. To \subseteq OutsidePcs
  BY DEF OutsidePcs, FinalPcs, SweepPcs
<1>2. UNCHANGED <<outs, lock>>
  BY DEF BeginFinalize, PersistSnapshot, PutFinalProgress, ReleaseSession, ClearEnvelope, store
<1>3. OthersStay(t) /\ pc'[t] \in To
  <2>1. CASE BeginFinalize(t)
    BY <2>1, GotoMoves, FinishMoves DEF BeginFinalize
  <2>2. CASE PersistSnapshot(t)
    BY <2>2, GotoMoves, RaiseMoves DEF PersistSnapshot
  <2>3. CASE PutFinalProgress(t) \/ ReleaseSession(t)
    BY <2>3, GotoMoves DEF PutFinalProgress, ReleaseSession
  <2>4. CASE ClearEnvelope(t)
    BY <2>4, FinishMoves DEF ClearEnvelope
  <2> QED BY <2>1, <2>2, <2>3, <2>4
<1> QED BY <1>1, <1>2, <1>3 DEF Leaves

LEMMA SweepLeaves ==
    ASSUME ThreadTypeOK, NEW t \in Threads,
           \/ ListEnvelope(t) \/ SweepDecided(t) \/ SweepExpired(t) \/ SweepRestart(t)
           \/ SweepResume(t) \/ \E j \in JobIds : TerminalizeFailedJob(t, j)
    PROVE  Leaves(t)
<1> DEFINE To == {"idle", "sweep.listed", "cancel.release", "term.claim", "plan.put", "plan.check"}
<1>1. To \subseteq OutsidePcs
  BY DEF OutsidePcs, SweepPcs, TermPcs, PlanPcs
<1>2. UNCHANGED <<outs, lock>>
  BY DEF ListEnvelope, SweepDecided, SweepExpired, SweepRestart, SweepResume,
         TerminalizeFailedJob, store
<1>3. OthersStay(t) /\ pc'[t] \in To
  <2>1. CASE ListEnvelope(t) \/ SweepExpired(t)
    BY <2>1, GotoMoves DEF ListEnvelope, SweepExpired
  <2>2. CASE SweepDecided(t)
    BY <2>2, GotoMoves, RestMoves DEF SweepDecided
  <2>3. CASE SweepRestart(t)
    BY <2>3, RestMoves DEF SweepRestart
  <2>4. CASE SweepResume(t)
    BY <2>4, GotoMoves DEF SweepResume, PlanFrom
  <2>5. CASE \E j \in JobIds : TerminalizeFailedJob(t, j)
    BY <2>5 DEF TerminalizeFailedJob, OthersStay, ThreadTypeOK
  <2> QED BY <2>1, <2>2, <2>3, <2>4, <2>5
<1> QED BY <1>1, <1>2, <1>3 DEF Leaves

LEMMA ThreadFaultLeaves ==
    ASSUME ThreadTypeOK, NEW t \in Threads, Throw(t) \/ Shutdown(t) \/ Crash(t)
    PROVE  Leaves(t)
<1>1. {"idle", "threw", "unconverged", "shutdown"} \subseteq OutsidePcs
  BY DEF OutsidePcs
<1>2. UNCHANGED outs /\ lock' \in {lock, Unlocked(t), IF lock = t THEN "dead" ELSE lock}
  BY DEF Throw, Shutdown, Crash, store
<1>3. OthersStay(t) /\ pc'[t] \in {"idle", "threw", "unconverged", "shutdown"}
  BY RaiseMoves, RestMoves DEF Throw, Shutdown, Crash
<1> QED BY <1>1, <1>2, <1>3 DEF Leaves

-----------------------------------------------------------------------------
(* The steps that take the lock and the browser work under it. *)

\* A lock in the hands of nobody is in the hands of no thread.
LEMMA LockNames == "free" \notin Threads /\ "other" \notin Threads /\ "dead" \notin Threads
BY PipelineAssumption

LEMMA FetchReads ==
    ASSUME ThreadTypeOK, LockInv, ViewInv, NEW t \in Threads, NEW j \in JobIds, Fetch(t, j)
    PROVE  LockInv' /\ ViewInv' /\ UNCHANGED outs
<1>1. OthersStay(t) /\ pc'[t] = "start" /\ UNCHANGED <<outs, lock>>
  BY DEF Fetch, OthersStay, ThreadTypeOK, store
<1>2. loc'[t] = [NoLocals EXCEPT !.tries = jobs[j].made, !.todo = jobs[j].rel]
  BY DEF Fetch, ThreadTypeOK
<1>3. FreshStart(t)'
  BY <1>2 DEF FreshStart, NoLocals
<1>4. pc'[t] \notin LockedPcs /\ pc'[t] \notin ChunkPcs
  BY <1>1, OutsideFacts
<1> QED BY <1>1, <1>3, <1>4, MoveKeeps

LEMMA IndexReads ==
    ASSUME ThreadTypeOK, LockInv, ViewInv, NEW t \in Threads,
           BeginIndex(t) \/ ReadCatalogIndex(t) \/ PutIndex(t) \/ IndexCheck(t) \/ IndexProgress(t)
    PROVE  LockInv' /\ ViewInv' /\ UNCHANGED outs
<1>1. UNCHANGED outs
  BY DEF BeginIndex, ReadCatalogIndex, PutIndex, IndexCheck, IndexProgress, store
<1>2. CASE BeginIndex(t) /\ lock # "free"
  <2>1. OthersStay(t) /\ pc'[t] \in {"idle", "threw"} /\ UNCHANGED lock
    BY <1>2, RaiseMoves DEF BeginIndex
  <2>2. Leaves(t)
    BY <1>1, <2>1 DEF Leaves, OutsidePcs
  <2> QED BY <2>2, LeavingKeeps
<1>3. CASE BeginIndex(t) /\ lock = "free"
  <2>1. OthersStay(t) /\ pc'[t] = "index.read" /\ lock' = t
    BY <1>3, GotoMoves DEF BeginIndex
  <2>2. pc'[t] \notin ChunkPcs /\ pc'[t] # "start"
    BY <2>1 DEF ChunkPcs
  <2> QED BY <1>1, <1>3, <2>1, <2>2, LockNames, MoveKeeps
<1>4. CASE ReadCatalogIndex(t) \/ PutIndex(t) \/ IndexCheck(t) \/ IndexProgress(t)
  <2>1. OthersStay(t) /\ pc[t] \in IndexPcs /\ pc'[t] \in IndexPcs /\ UNCHANGED lock
    BY <1>4, GotoMoves DEF ReadCatalogIndex, PutIndex, IndexCheck, IndexProgress, IndexPcs
  <2>2. lock = t
    BY <2>1, OutsideFacts DEF LockInv
  <2>3. pc'[t] \notin ChunkPcs /\ pc'[t] # "start"
    BY <2>1, OutsideFacts
  <2> QED BY <1>1, <2>1, <2>2, <2>3, MoveKeeps
<1> QED BY <1>2, <1>3, <1>4

LEMMA ChunkBegins ==
    ASSUME ThreadTypeOK, StoreTypeOK, LockInv, ViewInv, NEW t \in Threads, BeginChunk(t)
    PROVE  LockInv' /\ ViewInv' /\ UNCHANGED outs
<1> DEFINE todo == {r \in loc[t].todo \cap DOMAIN index : ~FullyComplete(outs[r])}
<1>1. loc[t] \in Locals
  BY DEF ThreadTypeOK
<1>2. /\ OthersStay(t) /\ pc'[t] = "chunk.read" /\ lock' = t /\ lock = "free" /\ outs' = outs
      /\ loc'[t] = [loc[t] EXCEPT !.view = outs, !.todo = todo]
  BY GotoMoves DEF BeginChunk, store
<1>3. loc'[t].view = outs' /\ loc'[t].todo = todo /\ loc'[t].got = NoOutcomes /\ loc'[t].batch = {}
  BY <1>1, <1>2 DEF Locals, BeginChunk, Running, ViewInv, FreshStart
<1>4. \A r \in Releases : loc'[t].got[r] = NoOutcome
  BY <1>3 DEF NoOutcomes
<1>5. \A r \in loc'[t].todo : ~FullyComplete(loc'[t].view[r])
  BY <1>2, <1>3
<1>6. ChunkView(t)'
  BY <1>2, <1>3, <1>4, <1>5 DEF ChunkView
<1>7. pc'[t] # "start"
  BY <1>2
<1> QED BY <1>2, <1>6, <1>7, LockNames, MoveKeeps

\* Between two chunk steps that leave the view, the readings and the stored outcomes alone.
LEMMA ChunkWaits ==
    ASSUME ThreadTypeOK, LockInv, ViewInv, NEW t \in Threads,
           \/ AllRead(t) \/ ChunkCheck(t) \/ MarkChunkComplete(t) \/ ChunkTally(t)
           \/ PutProgress(t) /\ pc[t] = "chunk.progress"
    PROVE  LockInv' /\ ViewInv' /\ UNCHANGED outs
<1>1. loc[t] \in Locals
  BY DEF ThreadTypeOK
<1>2. UNCHANGED <<outs, lock>>
  BY DEF AllRead, ChunkCheck, MarkChunkComplete, ChunkTally, PutProgress, store
<1>3. /\ OthersStay(t) /\ pc[t] \in ChunkPcs \ {"chunk.checkpoint"}
      /\ pc'[t] \in ChunkPcs \ {"chunk.read", "chunk.checkpoint"}
      /\ pc'[t] = "chunk.put" => Unread(t) = {}
      /\ loc'[t].view = loc[t].view /\ loc'[t].got = loc[t].got /\ loc'[t].batch = loc[t].batch
      /\ loc'[t].todo = loc[t].todo
  <2>1. CASE AllRead(t) \/ ChunkCheck(t) \/ MarkChunkComplete(t)
    BY <2>1, GotoMoves DEF AllRead, ChunkCheck, MarkChunkComplete, ChunkPcs
  <2>2. CASE PutProgress(t) /\ pc[t] = "chunk.progress"
    BY <2>2, GotoMoves DEF PutProgress, ChunkPcs
  <2>3. CASE ChunkTally(t)
    <3> DEFINE read == [loc[t] EXCEPT !.complete = done[job[t].pass]]
               row  == [progress EXCEPT !.completed = Cardinality(CompletedIds(outs)),
                                        !.failed = Cardinality(FailedIds(outs))]
    <3>1. Goto(t, "chunk.next", read) \/ Goto(t, "chunk.progress", [read EXCEPT !.prog = row])
      BY <2>3 DEF ChunkTally
    <3>2. /\ OthersStay(t) /\ pc'[t] \in {"chunk.next", "chunk.progress"}
          /\ loc'[t] \in {read, [read EXCEPT !.prog = row]}
      BY <3>1, GotoMoves
    <3>3. \A f \in {"view", "got", "batch", "todo"} : loc'[t][f] = loc[t][f]
      <4> HIDE DEF row
      <4> QED BY <1>1, <3>2 DEF Locals
    <3>4. pc[t] = "chunk.tally"
      BY <2>3 DEF ChunkTally
    <3> QED BY <3>2, <3>3, <3>4 DEF ChunkPcs
  <2> QED BY <2>1, <2>2, <2>3
<1>4. lock = t /\ ChunkView(t)
  BY <1>3, OutsideFacts DEF LockInv, ViewInv
<1>5. ChunkView(t)'
  BY <1>2, <1>3, <1>4 DEF ChunkView, Unread
<1>6. pc'[t] # "start"
  BY <1>3 DEF ChunkPcs
<1> QED BY <1>2, <1>3, <1>4, <1>5, <1>6, MoveKeeps

LEMMA ChunkReads ==
    ASSUME ThreadTypeOK, LockInv, ViewInv, NEW t \in Threads, ReadReleases(t)
    PROVE  LockInv' /\ ViewInv' /\ UNCHANGED outs
<1>1. loc[t] \in Locals /\ pc[t] = "chunk.read"
  BY DEF ThreadTypeOK, ReadReleases
<1>2. lock = t /\ ChunkView(t)
  BY <1>1 DEF LockInv, ViewInv, LockedPcs, ChunkPcs
<1>3. PICK b \in SUBSET Unread(t) \ {{}} : \E reading \in [b -> Readings] :
          Goto(t, "chunk.checkpoint",
               [loc[t] EXCEPT !.batch = b,
                              !.got = [r \in Releases |-> IF r \in b THEN reading[r] ELSE @[r]]])
  BY DEF ReadReleases
<1>4. PICK reading \in [b -> Readings] :
          Goto(t, "chunk.checkpoint",
               [loc[t] EXCEPT !.batch = b,
                              !.got = [r \in Releases |-> IF r \in b THEN reading[r] ELSE @[r]]])
  BY <1>3
<1> DEFINE got == [r \in Releases |-> IF r \in b THEN reading[r] ELSE loc[t].got[r]]
<1>5. /\ OthersStay(t) /\ pc'[t] = "chunk.checkpoint"
      /\ loc'[t] = [loc[t] EXCEPT !.batch = b, !.got = got]
  BY <1>4, GotoMoves
<1>6. UNCHANGED <<outs, lock>>
  BY DEF ReadReleases, store
<1>7. /\ loc'[t].view = loc[t].view /\ loc'[t].todo = loc[t].todo
      /\ loc'[t].batch = b /\ loc'[t].got = got
  <2> HIDE DEF got
  <2> QED BY <1>1, <1>5 DEF Locals
<1>8. b \subseteq loc[t].todo /\ loc[t].todo \subseteq Releases /\ \A r \in b : loc[t].got[r] = NoOutcome
  BY <1>1 DEF Unread, Locals
<1>9. \A r \in b : got[r] # NoOutcome
  <2>1. ASSUME NEW r \in b PROVE reading[r] # NoOutcome
    <3>1. reading[r] \in Outcome
      BY PipelineAssumption
    <3> QED BY <3>1 DEF Outcome, NoOutcome, Completed, Failed
  <2> QED BY <1>8, <2>1
<1>10. \A r \in Releases \ b : got[r] = loc[t].got[r]
  OBVIOUS
<1>11. ChunkView(t)'
  <2> HIDE DEF got
  <2>1. loc[t].batch = {} /\ loc[t].view = outs
    BY <1>1, <1>2 DEF ChunkView
  <2>2. ASSUME NEW r \in Releases, got[r] # NoOutcome, r \notin b
        PROVE  ConvergedFrom(loc[t].view[r], got[r])
    BY <1>2, <1>10, <2>1, <2>2 DEF ChunkView
  <2>3. ASSUME NEW r \in loc[t].todo, got[r] = NoOutcome \/ r \in b
        PROVE  ~FullyComplete(loc[t].view[r])
    <3>1. loc[t].got[r] = NoOutcome
      BY <1>8, <1>10, <2>3
    <3> QED BY <1>1, <1>2, <3>1 DEF ChunkView
  <2> QED BY <1>5, <1>6, <1>7, <1>8, <1>9, <2>1, <2>2, <2>3 DEF ChunkView
<1>12. pc'[t] # "start"
  BY <1>5
<1> QED BY <1>2, <1>5, <1>6, <1>11, <1>12, MoveKeeps

\* What no step may take back.
CompletedStays ==
    \A r \in Releases :
        outs[r].kind = "COMPLETED" =>
            /\ outs'[r].kind = "COMPLETED"
            /\ FullyComplete(outs[r]) => FullyComplete(outs'[r])

\* Converging with a checkpoint never loses the completion of a release.
LEMMA ConvergeCompletes ==
    ASSUME NEW previous, NEW incoming, previous.kind = "COMPLETED"
    PROVE  Converge(previous, incoming).kind = "COMPLETED"
BY DEF Converge, Completed

\* A checkpoint during the reads: every release written had gaps before.
LEMMA CheckpointWrites ==
    ASSUME ThreadTypeOK, LockInv, ViewInv, NEW t \in Threads, PutOutcomes(t), pc[t] = "chunk.checkpoint"
    PROVE  LockInv' /\ ViewInv' /\ CompletedStays
<1> DEFINE b == loc[t].batch
           view == loc[t].view
           got == loc[t].got
           merged == Converged(t, b)
<1>1. loc[t] \in Locals
  BY DEF ThreadTypeOK
<1>2. lock = t /\ ChunkView(t)
  BY DEF LockInv, ViewInv, LockedPcs, ChunkPcs
<1>3. /\ view = outs /\ b \subseteq loc[t].todo /\ b \subseteq Releases
      /\ view \in [Releases -> Outcome \cup {NoOutcome}]
      /\ got \in [Releases -> Outcome \cup {NoOutcome}]
  BY <1>1, <1>2 DEF ChunkView, Locals
<1>4. \A r \in Releases : merged[r] = IF r \in b THEN Converge(view[r], got[r]) ELSE view[r]
  BY DEF Converged
<1>5. merged \in [Releases -> Outcome \cup {NoOutcome}]
  BY ConvergedType
<1> HIDE DEF merged
<1>6. outs' = [r \in Releases |-> IF r \in b THEN merged[r] ELSE outs[r]] /\ UNCHANGED lock
  BY DEF PutOutcomes, merged
<1>7. outs' = merged
  BY <1>3, <1>4, <1>5, <1>6
<1>8. /\ OthersStay(t) /\ pc'[t] = "chunk.read"
      /\ loc'[t] = [loc[t] EXCEPT !.view = merged, !.batch = {}]
  BY GotoMoves DEF PutOutcomes, merged
<1>9. /\ loc'[t].view = merged /\ loc'[t].batch = {} /\ loc'[t].got = got
      /\ loc'[t].todo = loc[t].todo
  BY <1>1, <1>8 DEF Locals
<1>10. \A r \in b : got[r] # NoOutcome /\ ~FullyComplete(view[r])
  BY <1>2, <1>3 DEF ChunkView
<1>11. ASSUME NEW r \in Releases, got[r] # NoOutcome
       PROVE  ConvergedFrom(merged[r], got[r])
  <2>1. CASE r \in b
    <3>1. merged[r] = Converge(view[r], got[r]) /\ view[r] \in Outcome \cup {NoOutcome}
      BY <1>3, <1>4, <2>1
    <3> QED BY <3>1 DEF ConvergedFrom
  <2>2. CASE r \notin b
    <3>1. ConvergedFrom(view[r], got[r])
      BY <1>2, <1>11, <2>2 DEF ChunkView
    <3> QED BY <1>4, <2>2, <3>1
  <2> QED BY <2>1, <2>2
<1>12. ASSUME NEW r \in loc[t].todo, got[r] = NoOutcome PROVE ~FullyComplete(merged[r])
  <2>1. r \notin b /\ r \in Releases
    BY <1>1, <1>10, <1>12 DEF Locals
  <2>2. ~FullyComplete(view[r])
    BY <1>2, <1>12 DEF ChunkView
  <2> QED BY <1>4, <2>1, <2>2
<1>13. ChunkView(t)'
  <2> HIDE DEF b, view, got
  <2> QED BY <1>7, <1>8, <1>9, <1>11, <1>12 DEF ChunkView
<1>14. CompletedStays
  <2>1. ASSUME NEW r \in Releases, outs[r].kind = "COMPLETED"
        PROVE  outs'[r].kind = "COMPLETED" /\ (FullyComplete(outs[r]) => FullyComplete(outs'[r]))
    <3>1. CASE r \in b
      BY <1>3, <1>4, <1>7, <1>10, <2>1, <3>1, ConvergeCompletes
    <3>2. CASE r \notin b
      BY <1>3, <1>4, <1>7, <2>1, <3>2
    <3> QED BY <3>1, <3>2
  <2> QED BY <2>1 DEF CompletedStays
<1>15. pc'[t] # "start"
  BY <1>8
<1>16. LockInv' /\ ViewInv'
  BY <1>2, <1>6, <1>8, <1>13, <1>15, MoveKeeps
<1> QED BY <1>14, <1>16

\* The final putOutcomes of a chunk converges once more what its checkpoints wrote.
LEMMA FinalPutWrites ==
    ASSUME ThreadTypeOK, StoreTypeOK, LockInv, ViewInv, NEW t \in Threads, PutOutcomes(t),
           pc[t] = "chunk.put"
    PROVE  LockInv' /\ ViewInv' /\ CompletedStays
<1> DEFINE b == loc[t].todo
           got == loc[t].got
           merged == Converged(t, b)
<1>1. loc[t] \in Locals
  BY DEF ThreadTypeOK
<1>2. lock = t /\ ChunkView(t)
  BY DEF LockInv, ViewInv, LockedPcs, ChunkPcs
<1>3. /\ loc[t].view = outs /\ loc[t].batch = {} /\ b \subseteq Releases
      /\ outs \in [Releases -> Outcome \cup {NoOutcome}]
      /\ got \in [Releases -> Outcome \cup {NoOutcome}]
  BY <1>1, <1>2 DEF ChunkView, Locals, StoreTypeOK
<1>4. \A r \in b : got[r] # NoOutcome
  BY <1>2, <1>3 DEF ChunkView, Unread
<1>5. /\ merged \in [Releases -> Outcome \cup {NoOutcome}]
      /\ \A r \in Releases : merged[r] = IF r \in b THEN Converge(outs[r], got[r]) ELSE outs[r]
  BY <1>3, ConvergedType DEF Converged
<1> HIDE DEF merged
<1>6. outs' = merged /\ UNCHANGED lock
  <2>1. outs' = [r \in Releases |-> IF r \in b THEN merged[r] ELSE outs[r]] /\ UNCHANGED lock
    BY DEF PutOutcomes, merged
  <2> QED BY <1>3, <1>5, <2>1
<1>7. /\ OthersStay(t) /\ pc'[t] = "chunk.check"
      /\ loc'[t] = [loc[t] EXCEPT !.view = merged, !.batch = {}]
  BY GotoMoves DEF PutOutcomes, merged
<1>8. /\ loc'[t].view = merged /\ loc'[t].batch = {} /\ loc'[t].got = got
      /\ loc'[t].todo = b
  BY <1>1, <1>7 DEF Locals
<1>9. ASSUME NEW r \in Releases, got[r] # NoOutcome
      PROVE  ConvergedFrom(outs[r], got[r]) /\ ConvergedFrom(merged[r], got[r])
  <2>1. ConvergedFrom(outs[r], got[r])
    BY <1>2, <1>3, <1>9 DEF ChunkView
  <2>2. CASE r \in b
    <3>1. merged[r] = Converge(outs[r], got[r]) /\ outs[r] \in Outcome \cup {NoOutcome}
      BY <1>3, <1>5, <2>2
    <3> QED BY <2>1, <3>1 DEF ConvergedFrom
  <2>3. CASE r \notin b
    BY <1>5, <2>1, <2>3
  <2> QED BY <2>2, <2>3
<1>10. ChunkView(t)'
  <2> HIDE DEF b, got
  <2> QED BY <1>6, <1>7, <1>8, <1>9 DEF ChunkView
<1>11. CompletedStays
  <2>1. ASSUME NEW r \in b, outs[r].kind = "COMPLETED"
        PROVE  merged[r].kind = "COMPLETED" /\ (FullyComplete(outs[r]) => FullyComplete(merged[r]))
    <3>1. r \in Releases /\ got[r] \in Outcome /\ ConvergedFrom(outs[r], got[r])
      BY <1>3, <1>4, <1>9
    <3>2. PICK previous \in Outcome \cup {NoOutcome} : outs[r] = Converge(previous, got[r])
      BY <3>1 DEF ConvergedFrom
    <3>3. merged[r] = Converge(outs[r], got[r])
      BY <1>5, <3>1
    <3> QED BY <2>1, <3>1, <3>2, <3>3, ConvergeAgain
  <2>2. ASSUME NEW r \in Releases, r \notin b PROVE merged[r] = outs[r]
    BY <1>5, <2>2
  <2> QED BY <1>6, <2>1, <2>2 DEF CompletedStays
<1>12. pc'[t] # "start"
  BY <1>7
<1>13. LockInv' /\ ViewInv'
  BY <1>2, <1>6, <1>7, <1>10, <1>12, MoveKeeps
<1> QED BY <1>11, <1>13

-----------------------------------------------------------------------------
(* The environment. *)

LEMMA BackgroundReads ==
    ASSUME LockKept, LockInv, ViewInv,
           \/ Prepare \/ Produce \/ DeadlinePasses \/ DeadLockExpires \/ OtherAcquires
           \/ OtherReleases \/ RedisLoss \/ RevokeConsent \/ CancelSnapshot
           \/ \E t \in Threads : LoseLock(t)
           \/ \E j \in JobIds : StallAlive(j) \/ Evict(j) \/ RetryFailedJob(j) \/ StalledCheck(j)
    PROVE  LockInv' /\ ViewInv' /\ UNCHANGED outs
<1>1. ~RedisLoss /\ ~\E t \in Threads : LoseLock(t)
  BY DEF LockKept, RedisLoss, LoseLock, CountFault
<1>2. UNCHANGED <<pc, loc, outs>>
  BY <1>1 DEF Prepare, Produce, DeadlinePasses, DeadLockExpires, OtherAcquires, OtherReleases,
         RevokeConsent, CancelSnapshot, StallAlive, Evict, RetryFailedJob, StalledCheck, store, thread
<1>3. lock \in Threads => lock' = lock
  BY <1>1, LockNames DEF Prepare, Produce, DeadlinePasses, DeadLockExpires, OtherAcquires,
         OtherReleases, RevokeConsent, CancelSnapshot, StallAlive, Evict, RetryFailedJob, StalledCheck
<1> QED BY <1>2, <1>3, BackgroundKeeps

-----------------------------------------------------------------------------
(* Every step. *)

LEMMA ReadInvInit == Init => ReadInv
<1> SUFFICES ASSUME Init PROVE ReadInv
  OBVIOUS
<1>1. \A t \in Threads : pc[t] = "idle"
  BY DEF Init
<1>2. "idle" \notin LockedPcs /\ "idle" \notin ChunkPcs
  BY DEF LockedPcs, IndexPcs, ChunkPcs
<1> QED BY <1>1, <1>2, InitInv DEF ReadInv, LockInv, ViewInv

LEMMA ReadInvNext ==
    ASSUME LockKept, ReadInv, [Next]_vars
    PROVE  ReadInv' /\ CompletedStays
<1>1. IndInv'
  BY NextInv DEF ReadInv
<1> SUFFICES LockInv' /\ ViewInv' /\ CompletedStays
  BY <1>1 DEF ReadInv
<1>2. ThreadTypeOK /\ StoreTypeOK /\ LockInv /\ ViewInv
  BY DEF ReadInv, IndInv, TypeOK
<1>3. UNCHANGED outs => CompletedStays
  BY DEF CompletedStays
<1>4. ASSUME NEW t \in Threads, Leaves(t) PROVE LockInv' /\ ViewInv' /\ CompletedStays
  BY <1>2, <1>3, <1>4, LeavingKeeps
<1>5. CASE QueueStep
  <2>1. CASE \E t \in Threads, j \in JobIds : Fetch(t, j)
    BY <1>2, <1>3, <2>1, FetchReads
  <2>2. CASE \E t \in Threads, j \in JobIds : TerminalizeFailedJob(t, j)
    BY <1>2, <1>4, <2>2, SweepLeaves
  <2>3. CASE \E j \in JobIds : RetryFailedJob(j) \/ StalledCheck(j)
    BY <1>2, <1>3, <2>3, BackgroundReads
  <2>4. CASE \E t \in Threads : ListEnvelope(t)
    BY <1>2, <1>4, <2>4, SweepLeaves
  <2> QED BY <1>5, <2>1, <2>2, <2>3, <2>4 DEF QueueStep
<1>6. CASE Environment
  <2>1. CASE \E t \in Threads : Throw(t) \/ Shutdown(t) \/ Crash(t)
    BY <1>2, <1>4, <2>1, ThreadFaultLeaves
  <2>2. CASE ~\E t \in Threads : Throw(t) \/ Shutdown(t) \/ Crash(t)
    <3>1. \/ Prepare \/ Produce \/ DeadlinePasses \/ DeadLockExpires \/ OtherAcquires
          \/ OtherReleases \/ RedisLoss \/ RevokeConsent \/ CancelSnapshot
          \/ \E t \in Threads : LoseLock(t)
          \/ \E j \in JobIds : StallAlive(j) \/ Evict(j)
      BY <1>6, <2>2 DEF Environment
    <3> QED BY <1>2, <1>3, <3>1, BackgroundReads
  <2> QED BY <2>1, <2>2
<1>7. ASSUME NEW t \in Threads, HandlerStep(t) PROVE LockInv' /\ ViewInv' /\ CompletedStays
  <2>1. CASE Leaves(t)
    BY <1>4, <2>1
  <2>2. CASE ~Leaves(t)
    <3>1. \/ BeginIndex(t) \/ ReadCatalogIndex(t) \/ PutIndex(t) \/ IndexCheck(t) \/ IndexProgress(t)
          \/ BeginChunk(t) \/ ReadReleases(t) \/ AllRead(t) \/ PutOutcomes(t) \/ ChunkCheck(t)
          \/ MarkChunkComplete(t) \/ ChunkTally(t)
          \/ PutProgress(t) /\ pc[t] # "plan.progress"
      BY <1>2, <1>7, <2>2, WrapperLeaves, AssertionLeaves, StageEndLeaves, PlannerLeaves,
         FinalizerLeaves, SweepLeaves DEF HandlerStep
    <3>2. CASE BeginIndex(t) \/ ReadCatalogIndex(t) \/ PutIndex(t) \/ IndexCheck(t) \/ IndexProgress(t)
      BY <1>2, <1>3, <3>2, IndexReads
    <3>3. CASE BeginChunk(t)
      BY <1>2, <1>3, <3>3, ChunkBegins
    <3>4. CASE ReadReleases(t)
      BY <1>2, <1>3, <3>4, ChunkReads
    <3>5. CASE AllRead(t) \/ ChunkCheck(t) \/ MarkChunkComplete(t) \/ ChunkTally(t)
      BY <1>2, <1>3, <3>5, ChunkWaits
    <3>6. CASE PutProgress(t) /\ pc[t] # "plan.progress"
      <4>1. pc[t] = "chunk.progress"
        BY <3>6 DEF PutProgress
      <4> QED BY <1>2, <1>3, <3>6, <4>1, ChunkWaits
    <3>7. CASE PutOutcomes(t)
      <4>1. pc[t] \in {"chunk.checkpoint", "chunk.put"}
        BY <3>7 DEF PutOutcomes
      <4> QED BY <1>2, <1>3, <3>7, <4>1, CheckpointWrites, FinalPutWrites
    <3> QED BY <3>1, <3>2, <3>3, <3>4, <3>5, <3>6, <3>7
  <2> QED BY <2>1, <2>2
<1>8. CASE UNCHANGED vars
  <2>1. UNCHANGED <<pc, loc, outs, lock>>
    BY <1>8 DEF vars, store, thread
  <2> QED BY <1>2, <1>3, <2>1, BackgroundKeeps
<1> QED BY <1>5, <1>6, <1>7, <1>8 DEF Next

-----------------------------------------------------------------------------
(* The theorems. *)

\* As long as no live holder loses the account lock, two browser stages never overlap: whatever
\* the number of workers and sweeps, with crashes, stalls, retries, deferrals and shutdowns
\* (underAccountLock in extractDistroKidCatalogIndex and extractDistroKidReleaseChunk).
THEOREM MutualExclusion ==
    ASSUME LockKept
    PROVE  Spec => []NoConcurrentReads
<1>1. ReadInv => NoConcurrentReads
  BY DEF ReadInv, LockInv, NoConcurrentReads
<1>2. ReadInv /\ [Next]_vars => ReadInv'
  BY ReadInvNext
<1> QED BY <1>1, <1>2, ReadInvInit, PTL DEF Spec

\* Under the same condition no step takes back a completed or a fully captured release: no late
\* checkpoint, failed retry or replayed chunk does (convergeReleaseRetryOutcome and the skip of
\* fully complete releases in extractDistroKidReleaseChunk).
THEOREM CompletedKept ==
    ASSUME LockKept
    PROVE  Spec => CompletedNeverErased
<1>1. ReadInv /\ [Next]_vars => ReadInv'
  BY ReadInvNext
<1>2. ReadInv /\ [Next]_vars => [CompletedStays]_vars
  BY ReadInvNext
<1>3. [CompletedStays]_vars =>
        [\A r \in Releases :
            outs[r].kind = "COMPLETED" =>
              /\ outs'[r].kind = "COMPLETED"
              /\ FullyComplete(outs[r]) => FullyComplete(outs'[r])]_vars
  BY DEF CompletedStays
<1> QED BY <1>1, <1>2, <1>3, ReadInvInit, PTL DEF Spec, CompletedNeverErased

=============================================================================
