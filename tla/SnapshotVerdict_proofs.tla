------------------------ MODULE SnapshotVerdict_proofs ------------------------
(***************************************************************************)
(* First, the pipeline implements SnapshotLifecycle: for every number of   *)
(* workers, sweeps, passes and attempts, and under every fault of the      *)
(* model.  Then, nothing a scan has to read is skipped: proofs about       *)
(* marked chunks and about COMPLETE verdicts, for an account whose         *)
(* catalogue does not change while it is scanned.  (A catalogue that       *)
(* changes between two readings of the index leaves a plan behind that     *)
(* does not cover it.)                                                     *)
(***************************************************************************)
EXTENDS SnapshotPipeline_proofs

-----------------------------------------------------------------------------
(* The invariant.  A finalizer past persistSnapshot has published the       *)
(* tombstone; only a cancelled snapshot is released by a sweep; a terminal  *)
(* progress row proves the publication (the resumed finalizer relies on     *)
(* it), because a row written from an earlier read is never a terminal one; *)
(* and a session is released before its envelope is cleared.                *)

StageLife(t) ==
    /\ pc[t] \in {"final.progress", "final.release", "final.clear"} => persisted.verdict = terminal
    /\ pc[t] \in {"cancel.release", "cancel.clear"} => terminal = Cancelled
    /\ pc[t] \in {"final.clear", "cancel.clear"} => session = "released"
    /\ pc[t] \in {"plan.progress", "chunk.progress"} => loc[t].prog.status \notin SnapshotStatuses
    /\ pc[t] \in {"claim", "term.claim"} => loc[t].prop \in Verdict

StoreLife ==
    /\ persisted.verdict # Open => persisted.verdict = terminal
    /\ progress.status \in SnapshotStatuses =>
          terminal.kind = "TERMINAL" /\ persisted.verdict = terminal

LifeInv == StoreLife /\ \A t \in Threads : StageLife(t)

\* The program counters of which the invariant says something, besides those of HandlerInv.
ClaimPcs == {"claim", "term.claim"}
RowPcs   == {"plan.progress", "chunk.progress"}
EndPcs   == {"final.progress", "final.release", "final.clear", "cancel.release", "cancel.clear"}

\* A step of the abstract life of the snapshot, or none.
LifeStep == [Lifecycle!Next]_(Lifecycle!vars)

\* What the step leaves of the snapshot's life.
SameLife == UNCHANGED <<terminal, persisted, session, envelope>>

-----------------------------------------------------------------------------
(* How a step changes the life of the snapshot. *)

LEMMA Kinds ==
    /\ Open.kind # "TERMINAL" /\ Cancelled.kind # "TERMINAL" /\ Open # Cancelled
    /\ Open \notin Verdict /\ Cancelled \notin Verdict
    /\ \A v \in Verdict : v.kind = "TERMINAL" /\ v.status \in SnapshotStatuses
BY DEF Open, Cancelled, Verdict

LEMMA SameLifeStutters == ASSUME SameLife PROVE LifeStep
BY DEF SameLife, LifeStep, Lifecycle!vars

\* The stages of the other threads keep their part of the invariant.
LEMMA OthersLive ==
    ASSUME IndInv, LifeInv, VerdictKept, NEW t \in Threads, OthersStay(t),
           persisted'.verdict \in {persisted.verdict, terminal},
           session' \in {session, "released"}
    PROVE  \A u \in Threads \ {t} : StageLife(u)'
<1> SUFFICES ASSUME NEW u \in Threads, u # t PROVE StageLife(u)'
  OBVIOUS
<1>1. pc'[u] = pc[u] /\ loc'[u] = loc[u] /\ StageLife(u)
  BY DEF OthersStay, LifeInv
<1>2. pc[u] \in FinalPcs => terminal' = terminal
  BY Kinds DEF IndInv, HandlerInv, VerdictKept
<1>3. pc[u] \in {"cancel.release", "cancel.clear"} => terminal' = terminal
  BY <1>1, Kinds DEF StageLife, VerdictKept
<1>4. pc[u] \in {"final.progress", "final.release", "final.clear"} => persisted'.verdict = terminal'
  BY <1>1, <1>2 DEF StageLife, FinalPcs
<1> QED BY <1>1, <1>3, <1>4 DEF StageLife

\* So does the store, when neither the publication nor the progress row changes.
LEMMA StoreLives ==
    ASSUME LifeInv, VerdictKept, UNCHANGED <<persisted, progress>>
    PROVE  StoreLife'
BY Kinds DEF LifeInv, StoreLife, VerdictKept

\* A step that leaves the life of the snapshot alone and t outside the stages named above.
Quiet(t) ==
    /\ OthersStay(t) /\ pc'[t] \notin EndPcs \cup RowPcs \cup ClaimPcs
    /\ UNCHANGED <<terminal, persisted, session, progress>>

LEMMA QuietLives ==
    ASSUME IndInv, LifeInv, NEW t \in Threads, Quiet(t)
    PROVE  LifeInv'
<1>1. VerdictKept /\ OthersStay(t) /\ UNCHANGED <<persisted, session, progress>>
  BY DEF Quiet, VerdictKept
<1>2. StageLife(t)'
  BY DEF Quiet, StageLife, EndPcs, RowPcs, ClaimPcs
<1>3. StoreLife'
  BY <1>1, StoreLives
<1>4. \A u \in Threads \ {t} : StageLife(u)'
  BY <1>1, OthersLive
<1> QED BY <1>2, <1>3, <1>4 DEF LifeInv

\* A step that moves no thread and writes neither the publication nor the progress row.
LEMMA BackgroundLives ==
    ASSUME IndInv, LifeInv, VerdictKept, UNCHANGED <<pc, loc, persisted, session, progress>>
    PROVE  LifeInv'
<1>1. StoreLife'
  BY StoreLives
<1>2. ASSUME NEW u \in Threads PROVE StageLife(u)'
  <2>1. StageLife(u)
    BY DEF LifeInv
  <2>2. pc[u] \in EndPcs => terminal' = terminal
    BY <2>1, Kinds DEF IndInv, HandlerInv, VerdictKept, StageLife, EndPcs, FinalPcs
  <2> QED BY <2>1, <2>2 DEF StageLife, EndPcs
<1> QED BY <1>1, <1>2 DEF LifeInv

-----------------------------------------------------------------------------
(* The steps that leave the life of the snapshot alone. *)

LEMMA WrapperLives ==
    ASSUME IndInv, LifeInv, NEW t \in Threads,
           \/ ResumeFinalizer(t) \/ StartOverdue(t) \/ Complete(t) \/ RethrowStageError(t)
           \/ AnnounceTerminal(t) \/ MarkHandled(t)
           \/ AssertOverdue(t) \/ AssertStopped(t) \/ LockLost(t) \/ ConsentInactive(t)
           \/ Throw(t) \/ Shutdown(t) \/ Crash(t)
    PROVE  LifeInv' /\ LifeStep
<1> DEFINE To == {"idle", "done", "fatal", "threw", "unconverged", "shutdown", "term.mark"}
<1>0. ThreadTypeOK
  BY DEF IndInv, TypeOK
<1>1. SameLife /\ UNCHANGED progress
  BY DEF ResumeFinalizer, StartOverdue, Complete, RethrowStageError, AnnounceTerminal, MarkHandled,
         AssertOverdue, AssertStopped, LockLost, ConsentInactive, Throw, Shutdown, Crash,
         SameLife, store, outcome
<1>2. OthersStay(t) /\ pc'[t] \in To
  <2>1. CASE ResumeFinalizer(t)
    BY <1>0, <2>1, GotoMoves DEF ResumeFinalizer
  <2>2. CASE StartOverdue(t) \/ AssertOverdue(t) \/ AssertStopped(t) \/ LockLost(t) \/ ConsentInactive(t)
    BY <1>0, <2>2, RaiseMoves, FinishMoves
       DEF StartOverdue, AssertOverdue, AssertStopped, LockLost, ConsentInactive
  <2>3. CASE Complete(t) \/ RethrowStageError(t) \/ MarkHandled(t)
    BY <1>0, <2>3, RestMoves DEF Complete, RethrowStageError, MarkHandled
  <2>4. CASE AnnounceTerminal(t)
    BY <1>0, <2>4, GotoMoves, FinishMoves, RestMoves DEF AnnounceTerminal
  <2>5. CASE Throw(t) \/ Shutdown(t) \/ Crash(t)
    BY <1>0, <2>5, RaiseMoves, RestMoves DEF Throw, Shutdown, Crash
  <2> QED BY <2>1, <2>2, <2>3, <2>4, <2>5
<1>3. Quiet(t)
  BY <1>1, <1>2 DEF Quiet, SameLife, EndPcs, RowPcs, ClaimPcs
<1> QED BY <1>1, <1>3, QuietLives, SameLifeStutters

LEMMA StageLives ==
    ASSUME IndInv, LifeInv, NEW t \in Threads,
           \/ BeginIndex(t) \/ ReadCatalogIndex(t) \/ PutIndex(t) \/ IndexCheck(t) \/ IndexNext(t)
           \/ BeginPlan(t) \/ PutPassPlan(t) \/ PlanNext(t)
           \/ BeginChunk(t) \/ DeferChunk(t) \/ DeferOverdue(t) \/ ReadReleases(t) \/ AllRead(t)
           \/ PutOutcomes(t) \/ ChunkCheck(t) \/ MarkChunkComplete(t) \/ ChunkNext(t)
           \/ BeginRetry(t) \/ RetryNext(t)
    PROVE  LifeInv' /\ LifeStep
<1> DEFINE To == {"idle", "done", "fatal", "threw", "index.read", "index.put", "index.check",
                  "index.progress", "plan.put", "plan.check", "chunk.read", "chunk.checkpoint",
                  "chunk.put", "chunk.check", "chunk.mark", "chunk.tally", "retry.put", "retry.next"}
<1>0. ThreadTypeOK
  BY DEF IndInv, TypeOK
<1>1. SameLife /\ UNCHANGED progress
  BY DEF BeginIndex, ReadCatalogIndex, PutIndex, IndexCheck, IndexNext, BeginPlan, PutPassPlan,
         PlanNext, BeginChunk, DeferChunk, DeferOverdue, ReadReleases, AllRead, PutOutcomes,
         ChunkCheck, MarkChunkComplete, ChunkNext, BeginRetry, RetryNext, SameLife, store, outcome
<1>2. OthersStay(t) /\ pc'[t] \in To
  <2>1. CASE BeginIndex(t) \/ IndexNext(t)
    BY <1>0, <2>1, GotoMoves, RaiseMoves, FinishMoves DEF BeginIndex, IndexNext
  <2>2. CASE ReadCatalogIndex(t) \/ PutIndex(t) \/ IndexCheck(t)
    BY <1>0, <2>2, GotoMoves DEF ReadCatalogIndex, PutIndex, IndexCheck
  <2>3. CASE BeginPlan(t)
    BY <1>0, <2>3, GotoMoves DEF BeginPlan, PlanFrom
  <2>4. CASE PutPassPlan(t)
    BY <1>0, <2>4, GotoMoves DEF PutPassPlan
  <2>5. CASE PlanNext(t) \/ RetryNext(t) \/ ChunkNext(t) \/ DeferChunk(t) \/ DeferOverdue(t)
    BY <1>0, <2>5, FinishMoves, RaiseMoves DEF PlanNext, RetryNext, ChunkNext, DeferChunk, DeferOverdue
  <2>6. CASE BeginChunk(t) \/ AllRead(t) \/ ChunkCheck(t) \/ MarkChunkComplete(t)
    BY <1>0, <2>6, GotoMoves DEF BeginChunk, AllRead, ChunkCheck, MarkChunkComplete
  <2>7. CASE ReadReleases(t)
    BY <1>0, <2>7, GotoMoves DEF ReadReleases
  <2>8. CASE PutOutcomes(t)
    BY <1>0, <2>8, GotoMoves DEF PutOutcomes
  <2>9. CASE BeginRetry(t)
    BY <1>0, <2>9, GotoMoves, FinishMoves DEF BeginRetry
  <2> QED BY <2>1, <2>2, <2>3, <2>4, <2>5, <2>6, <2>7, <2>8, <2>9
<1>3. Quiet(t)
  BY <1>1, <1>2 DEF Quiet, SameLife, EndPcs, RowPcs, ClaimPcs
<1> QED BY <1>1, <1>3, QuietLives, SameLifeStutters

LEMMA SweepLives ==
    ASSUME IndInv, LifeInv, NEW t \in Threads,
           \/ ListEnvelope(t) \/ SweepRestart(t) \/ SweepResume(t)
           \/ \E j \in JobIds : Fetch(t, j)
    PROVE  LifeInv' /\ LifeStep
<1>0. ThreadTypeOK
  BY DEF IndInv, TypeOK
<1>1. SameLife /\ UNCHANGED progress
  BY DEF ListEnvelope, SweepRestart, SweepResume, Fetch, SameLife, store, outcome
<1>2. OthersStay(t) /\ pc'[t] \in {"idle", "start", "sweep.listed", "plan.put", "plan.check"}
  <2>1. CASE ListEnvelope(t) \/ SweepRestart(t)
    BY <1>0, <2>1, GotoMoves, RestMoves DEF ListEnvelope, SweepRestart
  <2>2. CASE SweepResume(t)
    BY <1>0, <2>2, GotoMoves DEF SweepResume, PlanFrom
  <2>3. CASE \E j \in JobIds : Fetch(t, j)
    BY <1>0, <2>3 DEF Fetch, OthersStay, ThreadTypeOK
  <2> QED BY <2>1, <2>2, <2>3
<1>3. Quiet(t)
  BY <1>1, <1>2 DEF Quiet, SameLife, EndPcs, RowPcs, ClaimPcs
<1> QED BY <1>1, <1>3, QuietLives, SameLifeStutters

-----------------------------------------------------------------------------
(* The steps that prepare or write a progress row, or propose a verdict. *)

LEMMA RowLives ==
    ASSUME IndInv, LifeInv, NEW t \in Threads, PlanCheck(t) \/ ChunkTally(t)
    PROVE  LifeInv' /\ LifeStep
<1>0. ThreadTypeOK /\ loc[t] \in Locals /\ progress \in Progress
  BY DEF IndInv, TypeOK, ThreadTypeOK, StoreTypeOK
<1>1. SameLife /\ UNCHANGED progress
  BY DEF PlanCheck, ChunkTally, SameLife, store, outcome
<1>2. VerdictKept
  BY <1>1 DEF SameLife, VerdictKept
<1>3. StoreLife' /\ LifeStep
  BY <1>1, <1>2, StoreLives, SameLifeStutters DEF SameLife
<1>4. terminal = Open => progress.status \notin SnapshotStatuses
  BY Kinds DEF LifeInv, StoreLife
<1>5. CASE PlanCheck(t)
  <2> DEFINE row == [progress EXCEPT !.status = "RUNNING"]
  <2>1. Goto(t, "plan.next", loc[t]) \/ Goto(t, "plan.progress", [loc[t] EXCEPT !.prog = row])
    BY <1>5 DEF PlanCheck
  <2>2. row.status \notin SnapshotStatuses
    BY <1>0 DEF Progress, SnapshotStatuses
  <2>3. [loc[t] EXCEPT !.prog = row].prog = row
    BY <1>0 DEF Locals
  <2> HIDE DEF row
  <2>4. CASE Goto(t, "plan.next", loc[t])
    <3>1. OthersStay(t) /\ pc'[t] = "plan.next"
      BY <1>0, <2>4, GotoMoves
    <3>2. Quiet(t)
      BY <1>1, <3>1 DEF Quiet, SameLife, EndPcs, RowPcs, ClaimPcs
    <3> QED BY <1>3, <3>2, QuietLives
  <2>5. CASE Goto(t, "plan.progress", [loc[t] EXCEPT !.prog = row])
    <3>1. OthersStay(t) /\ pc'[t] = "plan.progress" /\ loc'[t] = [loc[t] EXCEPT !.prog = row]
      BY <1>0, <2>5, GotoMoves
    <3>2. StageLife(t)'
      BY <2>2, <2>3, <3>1 DEF StageLife
    <3>3. \A u \in Threads \ {t} : StageLife(u)'
      BY <1>1, <1>2, <3>1, OthersLive DEF SameLife
    <3> QED BY <1>3, <3>2, <3>3 DEF LifeInv
  <2> QED BY <2>1, <2>4, <2>5
<1>6. CASE ChunkTally(t)
  <2> DEFINE read == [loc[t] EXCEPT !.complete = done[job[t].pass]]
             row  == [progress EXCEPT !.completed = Cardinality(CompletedIds(outs)),
                                      !.failed = Cardinality(FailedIds(outs))]
  <2>1. \/ Goto(t, "chunk.next", read)
        \/ terminal = Open /\ Goto(t, "chunk.progress", [read EXCEPT !.prog = row])
    BY <1>6 DEF ChunkTally, CanContinue
  <2>2. row.status = progress.status
    BY <1>0 DEF Progress
  <2>3. [read EXCEPT !.prog = row].prog = row
    <3> HIDE DEF row
    <3> QED BY <1>0 DEF Locals
  <2> HIDE DEF row, read
  <2>4. CASE Goto(t, "chunk.next", read)
    <3>1. OthersStay(t) /\ pc'[t] = "chunk.next"
      BY <1>0, <2>4, GotoMoves
    <3>2. Quiet(t)
      BY <1>1, <3>1 DEF Quiet, SameLife, EndPcs, RowPcs, ClaimPcs
    <3> QED BY <1>3, <3>2, QuietLives
  <2>5. CASE terminal = Open /\ Goto(t, "chunk.progress", [read EXCEPT !.prog = row])
    <3>1. OthersStay(t) /\ pc'[t] = "chunk.progress" /\ loc'[t] = [read EXCEPT !.prog = row]
      BY <1>0, <2>5, GotoMoves
    <3>2. StageLife(t)'
      BY <1>4, <2>2, <2>3, <2>5, <3>1 DEF StageLife
    <3>3. \A u \in Threads \ {t} : StageLife(u)'
      BY <1>1, <1>2, <3>1, OthersLive DEF SameLife
    <3> QED BY <1>3, <3>2, <3>3 DEF LifeInv
  <2> QED BY <2>1, <2>4, <2>5
<1> QED BY <1>5, <1>6

\* A prepared row is written: it is never a terminal one, however late it lands.
LEMMA PutRowLives ==
    ASSUME IndInv, LifeInv, NEW t \in Threads, IndexProgress(t) \/ PutProgress(t)
    PROVE  LifeInv' /\ LifeStep
<1>0. ThreadTypeOK /\ loc[t] \in Locals
  BY DEF IndInv, TypeOK, ThreadTypeOK
<1>1. SameLife
  BY DEF IndexProgress, PutProgress, SameLife, outcome
<1>2. progress'.status \notin SnapshotStatuses
  <2>1. CASE IndexProgress(t)
    BY <2>1 DEF IndexProgress, NoProgress, ProgressOf, SnapshotStatuses
  <2>2. CASE PutProgress(t)
    BY <2>2 DEF PutProgress, LifeInv, StageLife
  <2> QED BY <2>1, <2>2
<1>3. OthersStay(t) /\ pc'[t] \in {"index.next", "plan.next", "chunk.next"}
  BY <1>0, GotoMoves DEF IndexProgress, PutProgress
<1>4. VerdictKept
  BY <1>1 DEF SameLife, VerdictKept
<1>5. StageLife(t)'
  BY <1>3 DEF StageLife
<1>6. \A u \in Threads \ {t} : StageLife(u)'
  BY <1>1, <1>3, <1>4, OthersLive DEF SameLife
<1>7. StoreLife'
  BY <1>1, <1>2 DEF SameLife, StoreLife, LifeInv
<1> QED BY <1>1, <1>5, <1>6, <1>7, SameLifeStutters DEF LifeInv

\* A verdict is computed from the checkpoint.
LEMMA ProposalLives ==
    ASSUME IndInv, LifeInv, NEW t \in Threads,
           \/ TerminalizeStage(t) \/ SweepExpired(t) \/ BeginReconcile(t)
           \/ \E j \in JobIds : TerminalizeFailedJob(t, j)
    PROVE  LifeInv' /\ LifeStep
<1>0. ThreadTypeOK /\ StoreTypeOK /\ loc[t] \in Locals /\ job[t] \in JobIds \cup {NoJob}
  BY DEF IndInv, TypeOK, ThreadTypeOK
<1>1. SameLife /\ UNCHANGED progress
  BY DEF TerminalizeStage, SweepExpired, BeginReconcile, TerminalizeFailedJob, SameLife, store, outcome
<1>2. VerdictKept
  BY <1>1 DEF SameLife, VerdictKept
<1>3. StoreLife' /\ LifeStep
  BY <1>1, <1>2, StoreLives, SameLifeStutters DEF SameLife
<1>4. ASSUME OthersStay(t), pc'[t] \in ClaimPcs, loc'[t].prop \in Verdict PROVE LifeInv'
  <2>1. StageLife(t)'
    BY <1>4 DEF StageLife, ClaimPcs
  <2>2. \A u \in Threads \ {t} : StageLife(u)'
    BY <1>1, <1>2, <1>4, OthersLive DEF SameLife
  <2> QED BY <1>3, <2>1, <2>2 DEF LifeInv
<1>5. \A l \in Locals : \A v : [l EXCEPT !.prop = v].prop = v
  BY DEF Locals
<1>6. CASE TerminalizeStage(t)
  <2> DEFINE v == FailureProposal(job[t])
  <2>1. v \in Verdict
    BY <1>0, FailureProposalType
  <2>2. Goto(t, "term.claim", [loc[t] EXCEPT !.prop = v])
    BY <1>6 DEF TerminalizeStage
  <2> HIDE DEF v
  <2>3. OthersStay(t) /\ pc'[t] = "term.claim" /\ loc'[t] = [loc[t] EXCEPT !.prop = v]
    BY <1>0, <2>2, GotoMoves
  <2> QED BY <1>0, <1>3, <1>4, <1>5, <2>1, <2>3 DEF ClaimPcs
<1>7. CASE SweepExpired(t)
  <2> DEFINE v == FailureProposal(NoJob)
  <2>1. v \in Verdict
    BY <1>0, FailureProposalType
  <2>2. Goto(t, "term.claim", [loc[t] EXCEPT !.prop = v])
    BY <1>7 DEF SweepExpired
  <2> HIDE DEF v
  <2>3. OthersStay(t) /\ pc'[t] = "term.claim" /\ loc'[t] = [loc[t] EXCEPT !.prop = v]
    BY <1>0, <2>2, GotoMoves
  <2> QED BY <1>0, <1>3, <1>4, <1>5, <2>1, <2>3 DEF ClaimPcs
<1>8. CASE BeginReconcile(t)
  <2> DEFINE c == Reconcile(index, outs)
             v == Proposal(DeriveStatus(c), c, job[t].pass)
  <2>1. job[t].pass \in Passes
    BY <1>0, <1>8, JobIdShape DEF BeginReconcile, Running
  <2>2. v \in Verdict
    BY <1>0, <2>1, DeriveStatusType, ProposalType
  <2>3. Finish(t) \/ Goto(t, "claim", [loc[t] EXCEPT !.prop = v])
    BY <1>8 DEF BeginReconcile
  <2> HIDE DEF v
  <2>4. CASE Finish(t)
    <3>1. Quiet(t)
      BY <1>0, <1>1, <2>4, FinishMoves DEF Quiet, SameLife, EndPcs, RowPcs, ClaimPcs
    <3> QED BY <1>3, <3>1, QuietLives
  <2>5. CASE Goto(t, "claim", [loc[t] EXCEPT !.prop = v])
    <3>1. OthersStay(t) /\ pc'[t] = "claim" /\ loc'[t] = [loc[t] EXCEPT !.prop = v]
      BY <1>0, <2>5, GotoMoves
    <3> QED BY <1>0, <1>3, <1>4, <1>5, <2>2, <3>1 DEF ClaimPcs
  <2> QED BY <2>3, <2>4, <2>5
<1>9. ASSUME NEW j \in JobIds, TerminalizeFailedJob(t, j) PROVE LifeInv' /\ LifeStep
  <2> DEFINE v == FailureProposal(j)
  <2>1. v \in Verdict
    BY <1>0, FailureProposalType
  <2>2. /\ pc' = [pc EXCEPT ![t] = "term.claim"]
        /\ loc' = [loc EXCEPT ![t] = [NoLocals EXCEPT !.prop = v]]
    BY <1>9 DEF TerminalizeFailedJob
  <2> HIDE DEF v
  <2>3. OthersStay(t) /\ pc'[t] = "term.claim" /\ loc'[t] = [NoLocals EXCEPT !.prop = v]
    BY <1>0, <2>2 DEF OthersStay, ThreadTypeOK
  <2> QED BY <1>3, <1>4, <1>5, <2>1, <2>3, NoLocalsType DEF ClaimPcs
<1> QED BY <1>6, <1>7, <1>8, <1>9

-----------------------------------------------------------------------------
(* The steps that decide, publish, release and forget. *)

\* claimTerminal: the first proposal decides, every later one changes nothing.
LEMMA ClaimDecides ==
    ASSUME IndInv, LifeInv, NEW t \in Threads, ClaimTerminal(t)
    PROVE  LifeInv' /\ LifeStep
<1>0. ThreadTypeOK
  BY DEF IndInv, TypeOK
<1>1. UNCHANGED <<persisted, session, envelope, progress>>
  BY DEF ClaimTerminal, outcome
<1>2. loc[t].prop \in Verdict
  BY DEF ClaimTerminal, LifeInv, StageLife
<1>3. OthersStay(t) /\ pc'[t] \in {"announce", "term.announce"}
  BY <1>0, GotoMoves DEF ClaimTerminal
<1>4. terminal' = terminal \/ (terminal = Open /\ terminal' \in Verdict)
  BY <1>2 DEF ClaimTerminal
<1>5. VerdictKept
  BY <1>4 DEF VerdictKept
<1>6. StageLife(t)'
  BY <1>3 DEF StageLife
<1>7. \A u \in Threads \ {t} : StageLife(u)'
  BY <1>1, <1>3, <1>5, OthersLive
<1>8. StoreLife'
  BY <1>1, <1>5, StoreLives
<1>9. LifeStep
  BY <1>1, <1>4 DEF LifeStep, Lifecycle!vars, Lifecycle!Next, Lifecycle!Decide
<1> QED BY <1>6, <1>7, <1>8, <1>9 DEF LifeInv

\* The finalizer starts: a terminal progress row tells it that the verdict is published.
LEMMA FinalizerResumes ==
    ASSUME IndInv, LifeInv, NEW t \in Threads, BeginFinalize(t)
    PROVE  LifeInv' /\ LifeStep
<1>0. ThreadTypeOK /\ terminal \in Verdict \cup {Open, Cancelled}
  BY DEF IndInv, TypeOK, StoreTypeOK
<1>1. SameLife /\ UNCHANGED progress
  BY DEF BeginFinalize, SameLife, store, outcome
<1>2. VerdictKept
  BY <1>1 DEF SameLife, VerdictKept
<1>3. StoreLife' /\ LifeStep
  BY <1>1, <1>2, StoreLives, SameLifeStutters DEF SameLife
<1>4. \/ Finish(t) \/ Goto(t, "final.persist", [loc[t] EXCEPT !.view = outs])
      \/ /\ terminal.kind = "TERMINAL" /\ progress = FinalProgress(terminal)
         /\ Goto(t, "final.release", loc[t])
  BY DEF BeginFinalize
<1>5. CASE Finish(t) \/ Goto(t, "final.persist", [loc[t] EXCEPT !.view = outs])
  <2>1. OthersStay(t) /\ pc'[t] \in {"idle", "done", "final.persist"}
    BY <1>0, <1>5, GotoMoves, FinishMoves
  <2>2. Quiet(t)
    BY <1>1, <2>1 DEF Quiet, SameLife, EndPcs, RowPcs, ClaimPcs
  <2> QED BY <1>3, <2>2, QuietLives
<1>6. CASE /\ terminal.kind = "TERMINAL" /\ progress = FinalProgress(terminal)
           /\ Goto(t, "final.release", loc[t])
  <2>1. OthersStay(t) /\ pc'[t] = "final.release"
    BY <1>0, <1>6, GotoMoves
  <2>2. progress.status \in SnapshotStatuses
    BY <1>0, <1>6, Kinds DEF FinalProgress, ProgressOf
  <2>3. persisted.verdict = terminal
    BY <2>2 DEF LifeInv, StoreLife
  <2>4. StageLife(t)'
    BY <1>1, <2>1, <2>3 DEF StageLife, SameLife
  <2>5. \A u \in Threads \ {t} : StageLife(u)'
    BY <1>1, <1>2, <2>1, OthersLive DEF SameLife
  <2> QED BY <1>3, <2>4, <2>5 DEF LifeInv
<1> QED BY <1>4, <1>5, <1>6

\* persistSnapshot publishes the tombstone's verdict.
LEMMA PersistPublishes ==
    ASSUME IndInv, LifeInv, NEW t \in Threads, PersistSnapshot(t)
    PROVE  LifeInv' /\ LifeStep
<1>0. ThreadTypeOK /\ terminal \in Verdict \cup {Open, Cancelled}
  BY DEF IndInv, TypeOK, StoreTypeOK
<1>1. UNCHANGED <<terminal, session, envelope, progress>>
  BY DEF PersistSnapshot, store
<1>2. CASE consent
  <2>1. persisted' = [verdict |-> terminal, outs |-> loc[t].view] /\ Goto(t, "final.progress", loc[t])
    BY <1>2 DEF PersistSnapshot
  <2>2. persisted'.verdict = terminal
    BY <2>1
  <2>3. OthersStay(t) /\ pc'[t] = "final.progress"
    BY <1>0, <2>1, GotoMoves
  <2>4. terminal \in Verdict
    BY <1>0, Kinds DEF PersistSnapshot, IndInv, HandlerInv, FinalPcs
  <2>5. VerdictKept
    BY <1>1 DEF VerdictKept
  <2>6. StageLife(t)'
    BY <1>1, <2>2, <2>3 DEF StageLife
  <2>7. \A u \in Threads \ {t} : StageLife(u)'
    BY <1>1, <2>2, <2>3, <2>5, OthersLive
  <2>8. StoreLife'
    BY <1>1, <2>2, <2>4, Kinds DEF StoreLife
  <2>9. LifeStep
    BY <1>1, <2>2, <2>4 DEF LifeStep, Lifecycle!Next, Lifecycle!Publish
  <2> QED BY <2>6, <2>7, <2>8, <2>9 DEF LifeInv
<1>3. CASE ~consent
  <2>1. Raise(t, "threw") /\ SameLife
    BY <1>1, <1>3 DEF PersistSnapshot, SameLife
  <2>2. Quiet(t)
    BY <1>0, <1>1, <2>1, RaiseMoves DEF Quiet, SameLife, EndPcs, RowPcs, ClaimPcs
  <2> QED BY <2>1, <2>2, QuietLives, SameLifeStutters
<1> QED BY <1>2, <1>3

LEMMA FinalRowLives ==
    ASSUME IndInv, LifeInv, NEW t \in Threads, PutFinalProgress(t)
    PROVE  LifeInv' /\ LifeStep
<1>0. ThreadTypeOK
  BY DEF IndInv, TypeOK
<1>1. SameLife
  BY DEF PutFinalProgress, SameLife, outcome
<1>2. terminal.kind = "TERMINAL" /\ persisted.verdict = terminal
  BY DEF PutFinalProgress, IndInv, HandlerInv, FinalPcs, LifeInv, StageLife
<1>3. OthersStay(t) /\ pc'[t] = "final.release"
  BY <1>0, GotoMoves DEF PutFinalProgress
<1>4. VerdictKept
  BY <1>1 DEF SameLife, VerdictKept
<1>5. StageLife(t)' /\ StoreLife'
  BY <1>1, <1>2, <1>3 DEF StageLife, StoreLife, SameLife
<1>6. \A u \in Threads \ {t} : StageLife(u)'
  BY <1>1, <1>3, <1>4, OthersLive DEF SameLife
<1> QED BY <1>1, <1>5, <1>6, SameLifeStutters DEF LifeInv

\* releaseSession, from a finalizer or from the sweep of a cancelled snapshot.
LEMMA ReleaseReleases ==
    ASSUME IndInv, LifeInv, NEW t \in Threads, ReleaseSession(t)
    PROVE  LifeInv' /\ LifeStep
<1>0. ThreadTypeOK
  BY DEF IndInv, TypeOK
<1>1. UNCHANGED <<terminal, persisted, envelope, progress>> /\ session' = "released"
  BY DEF ReleaseSession, store
<1>2. VerdictKept
  BY <1>1 DEF VerdictKept
<1>3. \/ pc[t] = "final.release" /\ pc'[t] = "final.clear"
      \/ pc[t] = "cancel.release" /\ pc'[t] = "cancel.clear"
  BY <1>0, GotoMoves DEF ReleaseSession
<1>4. OthersStay(t)
  BY <1>0, GotoMoves DEF ReleaseSession
<1>5. StageLife(t)
  BY DEF LifeInv
<1>6. StageLife(t)'
  BY <1>1, <1>3, <1>5 DEF StageLife
<1>7. \A u \in Threads \ {t} : StageLife(u)'
  BY <1>1, <1>2, <1>4, OthersLive
<1>8. StoreLife'
  BY <1>1, <1>2, StoreLives
<1>9. terminal # Open /\ (persisted.verdict = terminal \/ terminal = Cancelled)
  BY <1>3, <1>5, Kinds DEF StageLife, IndInv, HandlerInv, FinalPcs
<1>10. LifeStep
  BY <1>1, <1>9 DEF LifeStep, Lifecycle!Next, Lifecycle!Release
<1> QED BY <1>6, <1>7, <1>8, <1>10 DEF LifeInv

\* The envelope is cleared after the session was released.
LEMMA ClearForgets ==
    ASSUME IndInv, LifeInv, NEW t \in Threads, ClearEnvelope(t)
    PROVE  LifeInv' /\ LifeStep
<1>0. ThreadTypeOK
  BY DEF IndInv, TypeOK
<1>1. UNCHANGED <<terminal, persisted, session, progress>> /\ envelope' = FALSE
  BY DEF ClearEnvelope, store
<1>2. session = "released"
  BY DEF ClearEnvelope, LifeInv, StageLife
<1>3. Quiet(t)
  BY <1>0, <1>1, FinishMoves DEF ClearEnvelope, Quiet, EndPcs, RowPcs, ClaimPcs
<1>4. LifeStep
  BY <1>1, <1>2 DEF LifeStep, Lifecycle!Next, Lifecycle!Forget
<1> QED BY <1>3, <1>4, QuietLives

LEMMA SweepDecidedLives ==
    ASSUME IndInv, LifeInv, NEW t \in Threads, SweepDecided(t)
    PROVE  LifeInv' /\ LifeStep
<1>0. ThreadTypeOK /\ terminal \in Verdict \cup {Open, Cancelled}
  BY DEF IndInv, TypeOK, StoreTypeOK
<1>1. SameLife /\ UNCHANGED progress
  BY DEF SweepDecided, SameLife, store, outcome
<1>2. VerdictKept
  BY <1>1 DEF SameLife, VerdictKept
<1>3. CASE terminal.kind = "TERMINAL"
  <2>1. Quiet(t)
    BY <1>0, <1>1, <1>3, RestMoves DEF SweepDecided, Quiet, SameLife, EndPcs, RowPcs, ClaimPcs
  <2> QED BY <1>1, <2>1, QuietLives, SameLifeStutters
<1>4. CASE terminal.kind # "TERMINAL"
  <2>1. OthersStay(t) /\ pc'[t] = "cancel.release"
    BY <1>0, <1>4, GotoMoves DEF SweepDecided
  <2>2. terminal = Cancelled
    BY <1>0, <1>4, Kinds DEF SweepDecided
  <2>3. StageLife(t)'
    BY <1>1, <2>1, <2>2 DEF StageLife, SameLife
  <2>4. \A u \in Threads \ {t} : StageLife(u)'
    BY <1>1, <1>2, <2>1, OthersLive DEF SameLife
  <2>5. StoreLife'
    BY <1>1, <1>2, StoreLives DEF SameLife
  <2> QED BY <1>1, <2>3, <2>4, <2>5, SameLifeStutters DEF LifeInv
<1> QED BY <1>3, <1>4

-----------------------------------------------------------------------------
(* The producer, the queues and the environment. *)

LEMMA BackgroundStepLives ==
    ASSUME IndInv, LifeInv,
           \/ Prepare \/ Produce \/ DeadlinePasses \/ DeadLockExpires \/ OtherAcquires
           \/ OtherReleases \/ RedisLoss \/ RevokeConsent \/ CancelSnapshot
           \/ \E t \in Threads : LoseLock(t)
           \/ \E j \in JobIds : StallAlive(j) \/ Evict(j) \/ RetryFailedJob(j) \/ StalledCheck(j)
           \/ UNCHANGED vars
    PROVE  LifeInv' /\ LifeStep
<1>1. UNCHANGED <<pc, loc, persisted, session, progress>>
  BY DEF Prepare, Produce, DeadlinePasses, DeadLockExpires, OtherAcquires, OtherReleases,
         RedisLoss, RevokeConsent, CancelSnapshot, LoseLock, StallAlive, Evict, RetryFailedJob,
         StalledCheck, vars, store, outcome, thread
<1>2. VerdictKept
  BY DEF Prepare, Produce, DeadlinePasses, DeadLockExpires, OtherAcquires, OtherReleases,
         RedisLoss, RevokeConsent, CancelSnapshot, LoseLock, StallAlive, Evict, RetryFailedJob,
         StalledCheck, vars, store, VerdictKept
<1>3. LifeInv'
  BY <1>1, <1>2, BackgroundLives
<1>4. LifeStep
  <2>1. CASE Prepare
    <3>1. UNCHANGED <<terminal, persisted, session>>
      BY <2>1 DEF Prepare, store
    <3>2. envelope \in BOOLEAN /\ (UNCHANGED envelope \/ (envelope' = TRUE /\ (envelope \/ terminal = Open)))
      BY <2>1 DEF Prepare, IndInv, TypeOK, OutcomeTypeOK
    <3> QED BY <3>1, <3>2 DEF LifeStep, Lifecycle!vars, Lifecycle!Next, Lifecycle!Grant
  <2>2. CASE CancelSnapshot
    BY <2>2 DEF CancelSnapshot, outcome, LifeStep, Lifecycle!Next, Lifecycle!Decide
  <2>3. CASE ~Prepare /\ ~CancelSnapshot
    <3>1. SameLife
      BY <2>3 DEF Produce, DeadlinePasses, DeadLockExpires, OtherAcquires, OtherReleases,
             RedisLoss, RevokeConsent, LoseLock, StallAlive, Evict, RetryFailedJob,
             StalledCheck, vars, store, outcome, SameLife
    <3> QED BY <3>1, SameLifeStutters
  <2> QED BY <2>1, <2>2, <2>3
<1> QED BY <1>3, <1>4

-----------------------------------------------------------------------------
(* Every step. *)

LEMMA LifeInvInit == Init => LifeInv
BY DEF Init, LifeInv, StageLife, StoreLife, NoProgress, ProgressOf, SnapshotStatuses

LEMMA LifeInvNext ==
    ASSUME IndInv, LifeInv, [Next]_vars
    PROVE  LifeInv' /\ LifeStep
<1>1. CASE QueueStep
  BY <1>1, SweepLives, ProposalLives, BackgroundStepLives DEF QueueStep
<1>2. CASE Environment
  BY <1>2, WrapperLives, BackgroundStepLives DEF Environment
<1>3. ASSUME NEW t \in Threads, HandlerStep(t) PROVE LifeInv' /\ LifeStep
  BY <1>3, WrapperLives, StageLives, SweepLives, RowLives, PutRowLives, ProposalLives, ClaimDecides,
     FinalizerResumes, PersistPublishes, FinalRowLives, ReleaseReleases, ClearForgets,
     SweepDecidedLives DEF HandlerStep
<1> QED BY <1>1, <1>2, <1>3, BackgroundStepLives DEF Next

\* The pipeline implements the lifecycle contract, whatever the workers, sweeps and faults do (lost
\* Redis, lost locks, stalled processors, crashes between any two writes included): the first
\* claimTerminal decides and is never replaced, finalizers publish only that verdict, the session
\* is released only after the publication or a cancellation, and the recovery envelope is cleared
\* only after the release and never granted again.
THEOREM LifecycleRefined == Spec => LifecycleSpec
<1>1. Init => Lifecycle!Init
  BY DEF Init, Lifecycle!Init
<1>2. IndInv /\ LifeInv /\ [Next]_vars => LifeInv' /\ [Lifecycle!Next]_(Lifecycle!vars)
  BY LifeInvNext DEF LifeStep
<1> QED BY <1>1, <1>2, InitInv, NextInv, LifeInvInit, PTL DEF Spec, LifecycleSpec, Lifecycle!Spec

\* Every reading of the catalogue index lists the same releases.
FixedCatalogue == \A c, d \in Catalogues : c = d

-----------------------------------------------------------------------------
(* The plan of a pass. *)

\* Dividing n things into groups of c, rounding up, leaves room for each of them.
LEMMA RoundUp ==
    ASSUME NEW a \in Nat, NEW n \in Nat, NEW c \in Nat \ {0}, a < n
    PROVE  a \div c + 1 \in 1 .. ((n + c - 1) \div c)
<1> DEFINE q == a \div c
           m == (n + c - 1) \div c
<1>1. q \in Nat /\ c * q <= a
  BY Z3
<1>2. m \in Int /\ n + c - 1 < c * (m + 1)
  BY Z3
<1>3. c * q + c < c * (m + 1)
  <2> HIDE DEF q, m
  <2> QED BY <1>1, <1>2
<1>4. c * (q + 1) < c * (m + 1)
  <2> HIDE DEF q, m
  <2> QED BY <1>1, <1>2, <1>3
<1>5. q + 1 < m + 1
  <2> HIDE DEF q, m
  <2> QED BY <1>1, <1>2, <1>4
<1> QED BY <1>1, <1>2, <1>5

\* chunkReleases loses no release and invents none.
LEMMA ChunkReleasesCover ==
    ASSUME NEW S \in SUBSET Releases
    PROVE  /\ \A i \in DOMAIN ChunkReleases(S) : ChunkReleases(S)[i] \subseteq S
           /\ \A r \in S : \E i \in DOMAIN ChunkReleases(S) : r \in ChunkReleases(S)[i]
<1> DEFINE Before(r) == {q \in S : Position[q] < Position[r]}
           Rank(r) == Cardinality(Before(r))
           m == (Cardinality(S) + ChunkSize - 1) \div ChunkSize
<1>1. ChunkReleases(S) = [i \in 1 .. m |-> {r \in S : Rank(r) \div ChunkSize = i - 1}]
  BY DEF ChunkReleases
<1>2. ASSUME NEW r \in S PROVE \E i \in 1 .. m : Rank(r) \div ChunkSize = i - 1
  <2>1. Before(r) \in SUBSET S /\ Before(r) # S
    BY PipelineAssumption
  <2>2. IsFiniteSet(S) /\ Cardinality(S) \in Nat /\ Cardinality(Before(r)) \in Nat
    BY <2>1, ReleaseCount
  <2>3. Cardinality(Before(r)) < Cardinality(S)
    <3> HIDE DEF Before
    <3>1. Cardinality(Before(r)) <= Cardinality(S) /\ Cardinality(Before(r)) # Cardinality(S)
      BY <2>1, <2>2, FS_Subset
    <3> QED BY <2>2, <3>1
  <2>4. ChunkSize \in Nat \ {0}
    BY PipelineAssumption
  <2> HIDE DEF Before
  <2>5. Rank(r) \div ChunkSize + 1 \in 1 .. m
    BY <2>2, <2>3, <2>4, RoundUp
  <2>6. Rank(r) \div ChunkSize \in Nat
    BY <2>2, <2>4
  <2>7. Rank(r) \div ChunkSize = (Rank(r) \div ChunkSize + 1) - 1
    BY <2>6
  <2> QED BY <2>5, <2>7
<1> HIDE DEF Rank, m
<1> QED BY <1>1, <1>2

\* There is no next chunk exactly when every chunk of the plan is complete.
LEMMA NextChunkNone ==
    ASSUME NEW c \in Plans, NEW complete, NextChunk(c, complete) = 0
    PROVE  DOMAIN c \subseteq complete
<1> SUFFICES ASSUME ~(DOMAIN c \subseteq complete) PROVE FALSE
  OBVIOUS
<1> DEFINE T == DOMAIN c \ complete
           R == {ss \in Nat \X Nat : ss[1] < ss[2]}
<1>1. T # {} /\ T \subseteq Nat /\ 0 \notin DOMAIN c
  BY DEF Plans
<1>2. IsWellFoundedOn(R, Nat)
  BY NatLessThanWellFounded DEF OpToRel
<1>3. PICK i \in T : \A k \in T : ~(<<k, i>> \in R)
  <2> HIDE DEF T, R
  <2> QED BY <1>1, <1>2, WFMin
<1>4. ASSUME NEW k \in T PROVE i <= k
  <2>1. i \in Nat /\ k \in Nat
    BY <1>1
  <2>2. ~(k < i)
    BY <1>3, <2>1
  <2> QED BY <2>1, <2>2
<1>5. i \in DOMAIN c /\ i \notin complete
  BY <1>3
<1>6. NextChunk(c, complete) \in DOMAIN c
  BY <1>4, <1>5 DEF NextChunk
<1> QED BY <1>1, <1>6

-----------------------------------------------------------------------------
(* The invariant.  What is queued and what runs is backed by the store: a   *)
(* planner by the index, a chunk of the first pass by the stored plan, and  *)
(* everything that comes after the first pass by an outcome of every        *)
(* release of the index.                                                    *)

Indexed == index \in Catalogues

FirstPlan == ChunkReleases(DOMAIN index)

Planned == Indexed /\ plan[1] = FirstPlan

Resolved == Planned /\ \A r \in DOMAIN index : outs[r] # NoOutcome

FirstChunk(j) == j.stage = "chunk" /\ j.pass = 1

LateJob(j) == j.stage \in {"retry", "reconcile"} \/ (j.stage = "chunk" /\ j.pass # 1)

JobBacked(j) ==
    /\ j.stage = "plan" => Indexed
    /\ FirstChunk(j) => Planned /\ j.chunk \in DOMAIN plan[1]
    /\ LateJob(j) => Resolved

QueueBacked ==
    \A j \in JobIds :
        jobs[j].st # "none" => JobBacked(j) /\ (FirstChunk(j) => jobs[j].rel = plan[1][j.chunk])

\* A chunk: every release of it is still to be written or has an outcome.
ChunkBacked(t) ==
    /\ FirstChunk(job[t]) =>
          \A r \in plan[1][job[t].chunk] : r \in loc[t].todo \/ outs[r] # NoOutcome
    /\ pc[t] = "chunk.checkpoint" => \A r \in loc[t].batch : loc[t].got[r] # NoOutcome
    /\ pc[t] = "chunk.put" => Unread(t) = {}
    /\ pc[t] \in {"chunk.check", "chunk.mark"} => \A r \in loc[t].todo : outs[r] # NoOutcome
    /\ pc[t] \in {"chunk.progress", "chunk.next"} => loc[t].complete \subseteq done[job[t].pass]

IndexedPcs == {"index.check", "index.progress", "index.next"}

StageBacked(t) ==
    /\ JobBacked(job[t])
    /\ pc[t] = "start" /\ FirstChunk(job[t]) => loc[t].todo = plan[1][job[t].chunk]
    /\ pc[t] = "index.put" => loc[t].cat \in Catalogues
    /\ pc[t] \in IndexedPcs => Indexed
    /\ pc[t] \in PlanPcs => Indexed /\ loc[t].pl = FirstPlan /\ loc[t].complete \subseteq done[1]
    /\ pc[t] \in PlanPcs \ {"plan.put"} => Planned
    /\ pc[t] \in RetryPcs => job[t].stage = "retry"
    /\ pc[t] \in ChunkPcs => ChunkBacked(t)

PlansBacked == plan[1] = <<>> \/ Planned

ProgressBacked == progress # NoProgress /\ terminal = Open => Indexed

MarksBacked ==
    \A i \in done[1] :
        Planned /\ i \in DOMAIN plan[1] /\ \A r \in plan[1][i] : outs[r] # NoOutcome

LatePassesBacked == \A p \in Passes \ {1} : plan[p] # <<>> \/ done[p] # {} => Resolved

StoreBacked == PlansBacked /\ ProgressBacked /\ MarksBacked /\ LatePassesBacked

BackedInv == StoreBacked /\ QueueBacked /\ \A t \in Threads : StageBacked(t)

-----------------------------------------------------------------------------
(* What no step takes back. *)

Grows ==
    /\ Indexed => index' = index
    /\ Planned => plan'[1] = plan[1]
    /\ \A r \in Releases : outs[r] # NoOutcome => outs'[r] # NoOutcome
    /\ \A p \in Passes : done[p] \subseteq done'[p]

LEMMA FirstPass == 1 \in Passes
BY PipelineAssumption DEF Passes

LEMMA IndexOfReleases == ASSUME IndInv PROVE DOMAIN index \in SUBSET Releases
BY PipelineAssumption DEF IndInv, TypeOK, StoreTypeOK, EmptyIndex

LEMMA GrowsKeeps ==
    ASSUME IndInv, Grows
    PROVE  /\ Indexed => Indexed' /\ index' = index /\ FirstPlan' = FirstPlan
           /\ Planned => Planned' /\ plan'[1] = plan[1]
           /\ Resolved => Resolved'
           /\ \A j : JobBacked(j) => JobBacked(j)'
<1>1. Indexed => Indexed' /\ index' = index /\ FirstPlan' = FirstPlan
  BY DEF Grows, Indexed, FirstPlan
<1>2. Planned => Planned' /\ plan'[1] = plan[1]
  BY <1>1 DEF Grows, Planned
<1>3. Resolved => Resolved'
  BY <1>1, <1>2, IndexOfReleases DEF Resolved, Planned, Grows
<1>4. ASSUME NEW j, JobBacked(j) PROVE JobBacked(j)'
  BY <1>1, <1>2, <1>3, <1>4 DEF JobBacked, FirstChunk, LateJob
<1> QED BY <1>1, <1>2, <1>3, <1>4

\* The releases of a chunk of the first plan are releases of the index, and each is in a chunk.
LEMMA FirstPlanCovers ==
    ASSUME IndInv, Planned
    PROVE  /\ \A i \in DOMAIN plan[1] : plan[1][i] \subseteq DOMAIN index
           /\ \A r \in DOMAIN index : \E i \in DOMAIN plan[1] : r \in plan[1][i]
BY IndexOfReleases, ChunkReleasesCover DEF Planned, FirstPlan

\* Once every chunk of the first plan is marked, every release of the index has an outcome.
LEMMA FirstPassResolves ==
    ASSUME IndInv, StoreBacked, Planned, NEW complete \in SUBSET done[1],
           NextChunk(plan[1], complete) = 0
    PROVE  Resolved
<1>1. plan[1] \in Plans
  BY FirstPass DEF IndInv, TypeOK, StoreTypeOK
<1>2. DOMAIN plan[1] \subseteq done[1]
  BY <1>1, NextChunkNone
<1>3. ASSUME NEW r \in DOMAIN index PROVE outs[r] # NoOutcome
  <2>1. PICK i \in DOMAIN plan[1] : r \in plan[1][i]
    BY FirstPlanCovers
  <2> QED BY <1>2, <2>1 DEF StoreBacked, MarksBacked
<1> QED BY <1>3 DEF Resolved

-----------------------------------------------------------------------------
(* How a step moves threads, the store and the queues. *)

OthersHold(t) == \A u \in Threads \ {t} : pc'[u] = pc[u] /\ loc'[u] = loc[u] /\ job'[u] = job[u]

LEMMA GotoHolds ==
    ASSUME ThreadTypeOK, NEW t \in Threads, NEW to, NEW l, Goto(t, to, l)
    PROVE  OthersHold(t) /\ pc'[t] = to /\ loc'[t] = l /\ job'[t] = job[t]
BY DEF ThreadTypeOK, Goto, OthersHold

LEMMA RestHolds ==
    ASSUME ThreadTypeOK, NEW t \in Threads, Rest(t)
    PROVE  OthersHold(t) /\ pc'[t] = "idle" /\ job'[t] = NoJob
BY DEF ThreadTypeOK, Rest, OthersHold

LEMMA FinishHolds ==
    ASSUME ThreadTypeOK, NEW t \in Threads, Finish(t)
    PROVE  OthersHold(t) /\ pc'[t] \in {"idle", "done"} /\ job'[t] \in {job[t], NoJob}
BY GotoHolds, RestHolds DEF Finish

LEMMA RaiseHolds ==
    ASSUME ThreadTypeOK, NEW t \in Threads, NEW how, Raise(t, how)
    PROVE  OthersHold(t) /\ pc'[t] \in {"idle", how} /\ job'[t] \in {job[t], NoJob}
BY GotoHolds, RestHolds DEF Raise

\* A thread that does not move stays backed.
LEMMA StayingBacked ==
    ASSUME IndInv, Grows, NEW u \in Threads, StageBacked(u),
           pc'[u] = pc[u], loc'[u] = loc[u], job'[u] = job[u]
    PROVE  StageBacked(u)'
<1>1. JobBacked(job[u]) /\ JobBacked(job[u])'
  BY GrowsKeeps DEF StageBacked
<1>2. FirstChunk(job[u]) => plan'[1] = plan[1]
  BY <1>1, GrowsKeeps DEF JobBacked
<1>3. done[1] \subseteq done'[1]
  BY FirstPass DEF Grows
<1>4. pc[u] \in PlanPcs =>
        Indexed' /\ loc'[u].pl = FirstPlan' /\ loc'[u].complete \subseteq done'[1]
  BY <1>3, GrowsKeeps DEF StageBacked
<1>5. ASSUME pc[u] \in ChunkPcs PROVE ChunkBacked(u)'
  <2>1. ChunkBacked(u)
    BY <1>5 DEF StageBacked
  <2>2. job[u].pass \in Passes /\ loc[u] \in Locals /\ job[u] \in JobIds \cup {NoJob}
    BY <1>5, JobIdShape DEF IndInv, TypeOK, ThreadTypeOK, HandlerInv
  <2>3. done[job[u].pass] \subseteq done'[job[u].pass]
    BY <2>2 DEF Grows
  <2>4. loc[u].todo \subseteq Releases
    BY <2>2 DEF Locals
  <2>5. FirstChunk(job[u]) => plan[1][job[u].chunk] \subseteq Releases
    <3>1. plan[1] \in Plans
      BY FirstPass DEF IndInv, TypeOK, StoreTypeOK
    <3> QED BY <1>1, <3>1 DEF JobBacked, Plans
  <2>6. FirstChunk(job[u]) =>
          \A r \in plan'[1][job[u].chunk] : r \in loc[u].todo \/ outs'[r] # NoOutcome
    BY <1>2, <2>1, <2>5 DEF ChunkBacked, Grows
  <2>7. pc[u] \in {"chunk.check", "chunk.mark"} => \A r \in loc[u].todo : outs'[r] # NoOutcome
    BY <2>1, <2>4 DEF ChunkBacked, Grows
  <2> QED BY <2>1, <2>3, <2>6, <2>7 DEF ChunkBacked, FirstChunk, Unread
<1>6. pc[u] = "start" /\ FirstChunk(job[u]) => loc'[u].todo = plan'[1][job[u].chunk]
  BY <1>2 DEF StageBacked
<1>7. /\ pc[u] \in IndexedPcs => Indexed'
      /\ pc[u] \in PlanPcs \ {"plan.put"} => Planned'
      /\ pc[u] = "index.put" => loc'[u].cat \in Catalogues
      /\ pc[u] \in RetryPcs => job'[u].stage = "retry"
  BY GrowsKeeps DEF StageBacked
<1> QED BY <1>1, <1>4, <1>5, <1>6, <1>7 DEF StageBacked, FirstChunk

\* A step of t.
LEMMA MoveBacked ==
    ASSUME IndInv, BackedInv, Grows, StoreBacked', QueueBacked', NEW t \in Threads, OthersHold(t),
           StageBacked(t)'
    PROVE  BackedInv'
<1>1. ASSUME NEW u \in Threads \ {t} PROVE StageBacked(u)'
  BY StayingBacked DEF OthersHold, BackedInv
<1> QED BY <1>1 DEF BackedInv

\* The program counters of which the invariant says nothing but what their job says.
FreePcs == {"idle", "claim", "announce", "done", "threw", "fatal", "shutdown", "unconverged",
            "index.read"} \cup TermPcs \cup FinalPcs \cup SweepPcs

LEMMA FreeFacts ==
    /\ FreePcs \cap ({"start", "index.put"} \cup IndexedPcs \cup PlanPcs \cup RetryPcs \cup ChunkPcs) = {}
    /\ PlanPcs \cap (RetryPcs \cup ChunkPcs \cup IndexedPcs \cup {"start", "index.put"}) = {}
    /\ ChunkPcs \cap (RetryPcs \cup IndexedPcs \cup {"start", "index.put"}) = {}
    /\ RetryPcs \cap (IndexedPcs \cup {"start", "index.put"}) = {}
BY DEF FreePcs, IndexedPcs, PlanPcs, RetryPcs, ChunkPcs, TermPcs, FinalPcs, SweepPcs

LEMMA NoJobBacked == JobBacked(NoJob)
BY DEF JobBacked, FirstChunk, LateJob, NoJob, JobId

LEMMA FreeBacked ==
    ASSUME IndInv, BackedInv, Grows, StoreBacked', QueueBacked', NEW t \in Threads, OthersHold(t),
           pc'[t] \in FreePcs, job'[t] \in {job[t], NoJob}
    PROVE  BackedInv'
<1>1. PICK j \in {job[t], NoJob} : j = job'[t]
  OBVIOUS
<1>2. JobBacked(j)'
  BY GrowsKeeps, NoJobBacked DEF BackedInv, StageBacked
<1>3. JobBacked(job[t])'
  BY <1>1, <1>2
<1>4. StageBacked(t)'
  BY <1>3, FreeFacts DEF StageBacked
<1> QED BY <1>4, MoveBacked

\* A step that moves no thread.
LEMMA BackgroundBacked ==
    ASSUME IndInv, BackedInv, Grows, StoreBacked', QueueBacked', UNCHANGED thread
    PROVE  BackedInv'
<1>1. ASSUME NEW u \in Threads PROVE StageBacked(u)'
  BY StayingBacked DEF thread, BackedInv
<1> QED BY <1>1 DEF BackedInv

\* The store grows while plans and marks stay.
LEMMA StoreGrows ==
    ASSUME IndInv, StoreBacked, Grows, UNCHANGED <<plan, done>>, ProgressBacked'
    PROVE  StoreBacked'
<1>1. PlansBacked'
  BY GrowsKeeps DEF StoreBacked, PlansBacked
<1>2. MarksBacked'
  <2> SUFFICES ASSUME NEW i \in done[1]
               PROVE  Planned' /\ i \in DOMAIN plan[1] /\ \A r \in plan[1][i] : outs'[r] # NoOutcome
    BY DEF MarksBacked
  <2>1. Planned /\ i \in DOMAIN plan[1] /\ \A r \in plan[1][i] : outs[r] # NoOutcome
    BY DEF StoreBacked, MarksBacked
  <2>2. plan[1][i] \subseteq Releases
    BY <2>1, FirstPlanCovers, IndexOfReleases
  <2> QED BY <2>1, <2>2, GrowsKeeps DEF Grows
<1>3. LatePassesBacked'
  BY GrowsKeeps DEF StoreBacked, LatePassesBacked
<1> QED BY <1>1, <1>2, <1>3 DEF StoreBacked

LEMMA StoreStays ==
    ASSUME IndInv, BackedInv, UNCHANGED store
    PROVE  Grows /\ StoreBacked'
<1>1. Grows
  BY DEF store, Grows
<1>2. ProgressBacked'
  BY <1>1, GrowsKeeps DEF BackedInv, StoreBacked, ProgressBacked, store
<1> QED BY <1>1, <1>2, StoreGrows DEF BackedInv, store

\* The queues keep at most what they had, with the payloads it had.
QueueStays ==
    \A j \in JobIds : jobs'[j].st # "none" => jobs[j].st # "none" /\ jobs'[j].rel = jobs[j].rel

LEMMA QueueStaysBacked ==
    ASSUME IndInv, BackedInv, Grows, QueueStays
    PROVE  QueueBacked'
<1> SUFFICES ASSUME NEW j \in JobIds, jobs'[j].st # "none"
             PROVE  JobBacked(j)' /\ (FirstChunk(j) => jobs'[j].rel = plan'[1][j.chunk])
  BY DEF QueueBacked, FirstChunk
<1>1. JobBacked(j) /\ (FirstChunk(j) => jobs'[j].rel = plan[1][j.chunk])
  BY DEF QueueStays, BackedInv, QueueBacked
<1>2. JobBacked(j)'
  BY <1>1, GrowsKeeps
<1>3. FirstChunk(j) => plan'[1] = plan[1]
  BY <1>1, GrowsKeeps DEF JobBacked
<1> QED BY <1>1, <1>2, <1>3

\* Queue.add of a job that the store backs.
LEMMA EnqueuedBacked ==
    ASSUME IndInv, BackedInv, Grows, NEW j, NEW ids \in SUBSET Releases, jobs' = Enqueued(j, ids),
           JobBacked(j)', FirstChunk(j) => ids = plan'[1][j.chunk]
    PROVE  QueueBacked'
<1> DEFINE new == [NotQueued EXCEPT !.st = "waiting", !.rel = ids]
<1>0. jobs \in [JobIds -> JobRecord]
  BY DEF IndInv, TypeOK, QueueTypeOK
<1>1. jobs' \in {jobs, [jobs EXCEPT ![j] = new]}
  BY DEF Enqueued
<1>2. new.rel = ids
  BY DEF NotQueued
<1> HIDE DEF new
<1> SUFFICES ASSUME NEW k \in JobIds, jobs'[k].st # "none"
             PROVE  JobBacked(k)' /\ (FirstChunk(k) => jobs'[k].rel = plan'[1][k.chunk])
  BY DEF QueueBacked, FirstChunk
<1>3. CASE jobs'[k] = jobs[k]
  <2>1. JobBacked(k) /\ (FirstChunk(k) => jobs'[k].rel = plan[1][k.chunk])
    BY <1>3 DEF BackedInv, QueueBacked
  <2>2. JobBacked(k)'
    BY <2>1, GrowsKeeps
  <2>3. FirstChunk(k) => plan'[1] = plan[1]
    BY <2>1, GrowsKeeps DEF JobBacked
  <2> QED BY <2>1, <2>2, <2>3
<1>4. CASE jobs'[k] # jobs[k]
  <2>1. k = j /\ jobs'[k] = new
    BY <1>0, <1>1, <1>4
  <2> QED BY <1>2, <2>1
<1> QED BY <1>3, <1>4

\* A processor that threw, a stalled job, a retried job: the payload stays.
LEMMA AttemptedStays ==
    ASSUME IndInv, NEW t, NEW shut, NEW handled, jobs' = Attempted(t, shut, handled)
    PROVE  QueueStays
<1> DEFINE j == job[t]
           rec == [jobs[j] EXCEPT !.handled = @ \/ handled]
           tried == [rec EXCEPT !.owner = "none", !.shut = shut,
                                !.made = IF @ < JobAttempts THEN @ + 1 ELSE @,
                                !.st = IF rec.made + 1 >= JobAttempts
                                       THEN "failed" ELSE "waiting"]
<1>0. jobs \in [JobIds -> JobRecord]
  BY DEF IndInv, TypeOK, QueueTypeOK
<1>1. \/ jobs' = jobs
      \/ rec.st # "none" /\ jobs' \in {[jobs EXCEPT ![j] = tried], [jobs EXCEPT ![j] = rec]}
  BY DEF Attempted
<1>2. j \in JobIds => rec.st = jobs[j].st /\ rec.rel = jobs[j].rel /\ tried.rel = jobs[j].rel
  BY <1>0 DEF JobRecord
<1> HIDE DEF j, rec, tried
<1> QED BY <1>0, <1>1, <1>2 DEF QueueStays

\* An unchanged queue.
LEMMA SameQueueStays == ASSUME UNCHANGED jobs PROVE QueueStays
BY DEF QueueStays

\* A step of t that writes nothing and ends outside planning and reading.
LEMMA FreeStepBacked ==
    ASSUME IndInv, BackedInv, UNCHANGED store, QueueBacked', NEW t \in Threads, OthersHold(t),
           pc'[t] \in FreePcs, job'[t] \in {job[t], NoJob}
    PROVE  BackedInv'
BY StoreStays, FreeBacked

\* Jobs that need nothing of the store.
LEMMA PlainJobBacked ==
    ASSUME NEW j, j.stage \in {"index", "finalize"}
    PROVE  JobBacked(j)' /\ ~FirstChunk(j)
BY DEF JobBacked, FirstChunk, LateJob

LEMMA PlainJobStages == IndexJob.stage = "index" /\ \A p : FinalizeJob(p).stage = "finalize"
BY DEF IndexJob, FinalizeJob, JobId

LEMMA PlainEnqueueBacked ==
    ASSUME IndInv, BackedInv, Grows, NEW j, j.stage \in {"index", "finalize"}, Enqueue(j)
    PROVE  QueueBacked'
BY PlainJobBacked, EnqueuedBacked DEF Enqueue

-----------------------------------------------------------------------------
(* Stages that neither plan nor read. *)

LEMMA SilentStepsBacked ==
    ASSUME IndInv, BackedInv, NEW t \in Threads,
           \/ StartOverdue(t) \/ TerminalizeStage(t)
           \/ AssertOverdue(t) \/ AssertStopped(t) \/ LockLost(t) \/ ConsentInactive(t)
           \/ BeginIndex(t) \/ DeferOverdue(t)
           \/ BeginFinalize(t) \/ PersistSnapshot(t) \/ ReleaseSession(t) \/ ClearEnvelope(t)
           \/ ListEnvelope(t) \/ SweepExpired(t)
           \/ Throw(t) \/ Shutdown(t) \/ Crash(t)
    PROVE  BackedInv'
<1>0. ThreadTypeOK
  BY DEF IndInv, TypeOK
<1>1. UNCHANGED <<store, jobs>>
  BY DEF StartOverdue, TerminalizeStage, AssertOverdue, AssertStopped, LockLost, ConsentInactive,
         BeginIndex, DeferOverdue, BeginFinalize, PersistSnapshot, ReleaseSession, ClearEnvelope,
         ListEnvelope, SweepExpired, Throw, Shutdown, Crash
<1>2. QueueBacked'
  BY <1>1, StoreStays, SameQueueStays, QueueStaysBacked
<1> DEFINE To == {"idle", "done", "fatal", "threw", "shutdown", "unconverged", "term.claim",
                  "index.read", "final.persist", "final.progress", "final.release", "final.clear",
                  "cancel.clear", "sweep.listed"}
<1>3. To \subseteq FreePcs
  BY DEF FreePcs, TermPcs, FinalPcs, SweepPcs
<1>4. OthersHold(t) /\ pc'[t] \in To /\ job'[t] \in {job[t], NoJob}
  <2>1. CASE StartOverdue(t) \/ AssertOverdue(t) \/ LockLost(t) \/ ConsentInactive(t) \/ DeferOverdue(t)
    BY <1>0, <2>1, RaiseHolds DEF StartOverdue, AssertOverdue, LockLost, ConsentInactive, DeferOverdue
  <2>2. CASE AssertStopped(t) \/ ClearEnvelope(t)
    BY <1>0, <2>2, RaiseHolds, FinishHolds DEF AssertStopped, ClearEnvelope
  <2>3. CASE TerminalizeStage(t) \/ ReleaseSession(t) \/ ListEnvelope(t) \/ SweepExpired(t)
    BY <1>0, <2>3, GotoHolds DEF TerminalizeStage, ReleaseSession, ListEnvelope, SweepExpired
  <2>4. CASE BeginIndex(t) \/ BeginFinalize(t)
    BY <1>0, <2>4, GotoHolds, RaiseHolds, FinishHolds DEF BeginIndex, BeginFinalize
  <2>5. CASE PersistSnapshot(t)
    BY <1>0, <2>5, GotoHolds, RaiseHolds DEF PersistSnapshot
  <2>6. CASE Throw(t) \/ Shutdown(t) \/ Crash(t)
    BY <1>0, <2>6, RaiseHolds, RestHolds DEF Throw, Shutdown, Crash
  <2> QED BY <2>1, <2>2, <2>3, <2>4, <2>5, <2>6
<1> HIDE DEF To
<1> QED BY <1>1, <1>2, <1>3, <1>4, FreeStepBacked

LEMMA QueueingStepsBacked ==
    ASSUME IndInv, BackedInv, NEW t \in Threads,
           \/ ResumeFinalizer(t) \/ AnnounceTerminal(t) \/ SweepDecided(t) \/ SweepRestart(t)
           \/ Complete(t) \/ RethrowStageError(t) \/ MarkHandled(t)
    PROVE  BackedInv'
<1>0. ThreadTypeOK
  BY DEF IndInv, TypeOK
<1>1. UNCHANGED store
  BY DEF ResumeFinalizer, AnnounceTerminal, SweepDecided, SweepRestart, Complete,
         RethrowStageError, MarkHandled
<1>2. Grows
  BY <1>1, StoreStays
<1>3. QueueBacked'
  <2>1. CASE ResumeFinalizer(t) \/ AnnounceTerminal(t) \/ SweepDecided(t) \/ SweepRestart(t)
    <3>1. UNCHANGED jobs \/ Enqueue(FinalizeJob(terminal.pass)) \/ Enqueue(IndexJob)
      BY <2>1 DEF ResumeFinalizer, AnnounceTerminal, SweepDecided, SweepRestart
    <3> QED BY <1>2, <3>1, PlainJobStages, PlainEnqueueBacked, SameQueueStays, QueueStaysBacked
  <2>2. CASE Complete(t)
    <3>1. QueueStays
      BY <2>2 DEF Complete, QueueStays, IndInv, TypeOK, QueueTypeOK, JobRecord
    <3> QED BY <1>2, <3>1, QueueStaysBacked
  <2>3. CASE RethrowStageError(t)
    BY <1>2, <2>3, AttemptedStays, QueueStaysBacked DEF RethrowStageError
  <2>4. CASE MarkHandled(t)
    <3>1. CASE jobs' = Attempted(t, FALSE, TRUE)
      BY <1>2, <3>1, AttemptedStays, QueueStaysBacked
    <3>2. CASE UNCHANGED jobs
      BY <1>2, <3>2, SameQueueStays, QueueStaysBacked
    <3>3. CASE jobs[job[t]].st # "none" /\ jobs' = [jobs EXCEPT ![job[t]].handled = TRUE]
      <4>1. QueueStays
        BY <3>3 DEF QueueStays, IndInv, TypeOK, QueueTypeOK, JobRecord
      <4> QED BY <1>2, <4>1, QueueStaysBacked
    <3> QED BY <2>4, <3>1, <3>2, <3>3 DEF MarkHandled
  <2> QED BY <2>1, <2>2, <2>3, <2>4
<1>4. {"idle", "done", "term.mark", "cancel.release"} \subseteq FreePcs
  BY DEF FreePcs, TermPcs, SweepPcs
<1>5. /\ OthersHold(t) /\ pc'[t] \in {"idle", "done", "term.mark", "cancel.release"}
      /\ job'[t] \in {job[t], NoJob}
  <2>1. CASE ResumeFinalizer(t) \/ AnnounceTerminal(t)
    BY <1>0, <2>1, GotoHolds, FinishHolds, RestHolds DEF ResumeFinalizer, AnnounceTerminal
  <2>2. CASE SweepDecided(t) \/ SweepRestart(t)
    BY <1>0, <2>2, GotoHolds, RestHolds DEF SweepDecided, SweepRestart
  <2>3. CASE Complete(t) \/ RethrowStageError(t) \/ MarkHandled(t)
    BY <1>0, <2>3, RestHolds DEF Complete, RethrowStageError, MarkHandled
  <2> QED BY <2>1, <2>2, <2>3
<1> QED BY <1>1, <1>3, <1>4, <1>5, FreeStepBacked

\* The tombstone and the final progress row.
LEMMA FinalWritesBacked ==
    ASSUME IndInv, BackedInv, NEW t \in Threads, ClaimTerminal(t) \/ PutFinalProgress(t)
    PROVE  BackedInv'
<1>0. ThreadTypeOK
  BY DEF IndInv, TypeOK
<1>1. UNCHANGED <<index, outs, plan, done, jobs>>
  BY DEF ClaimTerminal, PutFinalProgress
<1>2. Grows
  BY <1>1 DEF Grows
<1>3. ProgressBacked'
  <2>1. CASE ClaimTerminal(t)
    <3>1. terminal' = Open => terminal = Open
      BY <2>1 DEF ClaimTerminal
    <3>2. progress' = progress
      BY <2>1 DEF ClaimTerminal
    <3> QED BY <1>2, <3>1, <3>2, GrowsKeeps DEF BackedInv, StoreBacked, ProgressBacked
  <2>2. CASE PutFinalProgress(t)
    <3>1. terminal' = terminal /\ terminal # Open
      BY <2>2, Kinds DEF PutFinalProgress, IndInv, HandlerInv, FinalPcs
    <3> QED BY <3>1 DEF ProgressBacked
  <2> QED BY <2>1, <2>2
<1>4. StoreBacked'
  BY <1>1, <1>2, <1>3, StoreGrows DEF BackedInv
<1>5. QueueBacked'
  BY <1>1, <1>2, SameQueueStays, QueueStaysBacked
<1>6. /\ OthersHold(t) /\ pc'[t] \in {"announce", "term.announce", "final.release"}
      /\ job'[t] = job[t]
  BY <1>0, GotoHolds DEF ClaimTerminal, PutFinalProgress
<1>7. pc'[t] \in FreePcs
  BY <1>6 DEF FreePcs, TermPcs, FinalPcs
<1> QED BY <1>2, <1>4, <1>5, <1>6, <1>7, FreeBacked

-----------------------------------------------------------------------------
(* 1. The index stage. *)

LEMMA IndexStageBacked ==
    ASSUME FixedCatalogue, IndInv, BackedInv, NEW t \in Threads,
           ReadCatalogIndex(t) \/ PutIndex(t) \/ IndexCheck(t) \/ IndexProgress(t) \/ IndexNext(t)
    PROVE  BackedInv'
<1>0. ThreadTypeOK /\ loc[t] \in Locals /\ StageBacked(t)
  BY DEF IndInv, TypeOK, ThreadTypeOK, BackedInv
<1>1. CASE IndexNext(t)
  <2>1. UNCHANGED store /\ Finish(t) /\ jobs' = Enqueued(PlanJob, {})
    BY <1>1 DEF IndexNext, Enqueue
  <2>2. Grows
    BY <2>1, StoreStays
  <2>3. Indexed'
    BY <1>0, <1>1, <2>2, GrowsKeeps DEF StageBacked, IndexNext, IndexedPcs
  <2>4. JobBacked(PlanJob)' /\ ~FirstChunk(PlanJob)
    BY <2>3 DEF JobBacked, FirstChunk, LateJob, PlanJob, JobId
  <2>5. QueueBacked'
    BY <2>1, <2>2, <2>4, EnqueuedBacked
  <2>6. OthersHold(t) /\ pc'[t] \in {"idle", "done"} /\ job'[t] \in {job[t], NoJob}
    BY <1>0, <2>1, FinishHolds
  <2>7. pc'[t] \in FreePcs
    BY <2>6 DEF FreePcs
  <2> QED BY <2>1, <2>5, <2>6, <2>7, FreeStepBacked
<1>2. CASE ReadCatalogIndex(t) \/ PutIndex(t) \/ IndexCheck(t) \/ IndexProgress(t)
  <2>1. UNCHANGED <<outs, plan, done, terminal, jobs>>
    BY <1>2 DEF ReadCatalogIndex, PutIndex, IndexCheck, IndexProgress, store
  <2>2. IF PutIndex(t) THEN index' \in Catalogues ELSE index' = index
    BY <1>0, <1>2 DEF ReadCatalogIndex, PutIndex, IndexCheck, IndexProgress, store, StageBacked
  <2>3. Grows
    BY <2>1, <2>2 DEF Grows, Indexed, FixedCatalogue
  <2>4. IndexCheck(t) \/ IndexProgress(t) => Indexed
    BY <1>0 DEF StageBacked, IndexCheck, IndexProgress, IndexedPcs
  <2>5. ~ReadCatalogIndex(t) => Indexed'
    BY <1>2, <2>2, <2>3, <2>4, GrowsKeeps DEF Indexed, PutIndex
  <2>6. ProgressBacked'
    <3>1. UNCHANGED progress \/ IndexProgress(t)
      BY <1>2 DEF ReadCatalogIndex, PutIndex, IndexCheck, store
    <3>2. CASE UNCHANGED progress
      BY <2>1, <2>3, <3>2, GrowsKeeps DEF BackedInv, StoreBacked, ProgressBacked
    <3>3. CASE IndexProgress(t)
      BY <2>3, <2>4, <3>3, GrowsKeeps DEF ProgressBacked
    <3> QED BY <3>1, <3>2, <3>3
  <2>7. StoreBacked'
    BY <2>1, <2>3, <2>6, StoreGrows DEF BackedInv
  <2>8. QueueBacked'
    BY <2>1, <2>3, SameQueueStays, QueueStaysBacked
  <2>9. /\ OthersHold(t) /\ job'[t] = job[t]
        /\ \/ pc'[t] \in IndexedPcs /\ ~ReadCatalogIndex(t)
           \/ pc'[t] = "index.put" /\ loc'[t].cat \in Catalogues
    <3>1. CASE ReadCatalogIndex(t)
      <4>1. PICK c \in Catalogues : Goto(t, "index.put", [loc[t] EXCEPT !.cat = c])
        BY <3>1 DEF ReadCatalogIndex
      <4>2. [loc[t] EXCEPT !.cat = c].cat = c
        BY <1>0 DEF Locals
      <4> QED BY <1>0, <4>1, <4>2, GotoHolds
    <3>2. CASE PutIndex(t) \/ IndexCheck(t) \/ IndexProgress(t)
      <4>1. /\ OthersHold(t) /\ job'[t] = job[t] /\ pc'[t] \in IndexedPcs
            /\ pc[t] # "index.read"
        BY <1>0, <3>2, GotoHolds DEF PutIndex, IndexCheck, IndexProgress, IndexedPcs
      <4> QED BY <4>1 DEF ReadCatalogIndex
    <3> QED BY <1>2, <3>1, <3>2
  <2>10. JobBacked(job[t])'
    BY <1>0, <2>3, <2>9, GrowsKeeps DEF StageBacked
  <2>11. StageBacked(t)'
    <3>1. pc'[t] \notin PlanPcs \cup RetryPcs \cup ChunkPcs \cup {"start"}
      BY <2>9, FreeFacts DEF IndexedPcs
    <3>2. pc'[t] = "index.put" => loc'[t].cat \in Catalogues
      BY <2>9 DEF IndexedPcs
    <3>3. pc'[t] \in IndexedPcs => Indexed'
      BY <2>5, <2>9 DEF IndexedPcs
    <3> QED BY <2>10, <3>1, <3>2, <3>3 DEF StageBacked
  <2> QED BY <2>3, <2>7, <2>8, <2>9, <2>11, MoveBacked
<1> QED BY <1>1, <1>2

-----------------------------------------------------------------------------
(* 2. The planner. *)

\* Continuing a pass.
LEMMA EnqueueNextBacked ==
    ASSUME IndInv, BackedInv, UNCHANGED store, NEW p \in Passes, NEW pl \in Plans, NEW complete,
           EnqueueNext(p, pl, complete),
           p = 1 => Planned /\ pl = plan[1] /\ complete \in SUBSET done[1],
           p # 1 => Resolved
    PROVE  QueueBacked'
<1> DEFINE i == NextChunk(pl, complete)
<1>1. Grows
  BY StoreStays
<1>2. CASE i = 0
  <2>1. jobs' = Enqueued(ReconcileJob(p), {})
    BY <1>2 DEF EnqueueNext, Enqueue
  <2>2. Resolved
    BY <1>2, FirstPassResolves DEF BackedInv
  <2>3. JobBacked(ReconcileJob(p))' /\ ~FirstChunk(ReconcileJob(p))
    BY <1>1, <2>2, GrowsKeeps DEF JobBacked, FirstChunk, LateJob, ReconcileJob, JobId
  <2> QED BY <1>1, <2>1, <2>3, EnqueuedBacked
<1>3. CASE i # 0
  <2>1. i \in DOMAIN pl /\ pl[i] \in SUBSET Releases
    BY <1>3, NextChunkOfPlan DEF Plans
  <2>2. jobs' = Enqueued(ChunkJob(p, i, 0), pl[i])
    BY <1>3 DEF EnqueueNext, EnqueueChunk
  <2> HIDE DEF i
  <2> DEFINE j == ChunkJob(p, i, 0)
  <2>3. j.stage = "chunk" /\ j.pass = p /\ j.chunk = i
    BY DEF ChunkJob, JobId
  <2>4. plan' = plan
    BY DEF store
  <2> HIDE DEF j
  <2>5. CASE p = 1
    <3>1. Planned' /\ i \in DOMAIN plan'[1]
      BY <1>1, <2>1, <2>4, <2>5, GrowsKeeps
    <3>2. JobBacked(j)'
      BY <2>3, <2>5, <3>1 DEF JobBacked, LateJob, FirstChunk
    <3> QED BY <1>1, <2>1, <2>2, <2>3, <2>4, <2>5, <3>2, EnqueuedBacked DEF j
  <2>6. CASE p # 1
    <3>1. JobBacked(j)' /\ ~FirstChunk(j)
      BY <1>1, <2>3, <2>6, GrowsKeeps DEF JobBacked, LateJob, FirstChunk
    <3> QED BY <1>1, <2>1, <2>2, <3>1, EnqueuedBacked DEF j
  <2> QED BY <2>5, <2>6
<1> QED BY <1>2, <1>3

\* The planner reads the index, the plan and the marks.
LEMMA PlanStartBacked ==
    ASSUME IndInv, BackedInv, NEW t \in Threads, BeginPlan(t) \/ SweepResume(t)
    PROVE  BackedInv'
<1>0. ThreadTypeOK /\ loc[t] \in Locals /\ StageBacked(t) /\ PlansBacked /\ ProgressBacked
  BY DEF IndInv, TypeOK, ThreadTypeOK, BackedInv, StoreBacked
<1>1. UNCHANGED <<store, jobs>> /\ PlanFrom(t)
  BY DEF BeginPlan, SweepResume
<1>2. Grows /\ StoreBacked' /\ QueueBacked'
  BY <1>1, StoreStays, SameQueueStays, QueueStaysBacked
<1>3. Indexed
  <2>1. CASE BeginPlan(t)
    BY <1>0, <2>1 DEF BeginPlan, Running, StageBacked, JobBacked
  <2>2. CASE SweepResume(t)
    <3>1. index \in Catalogues \cup {EmptyIndex} /\ DOMAIN EmptyIndex = {}
      BY DEF IndInv, TypeOK, StoreTypeOK, EmptyIndex
    <3> QED BY <1>0, <2>2, <3>1 DEF SweepResume, CanContinue, ProgressBacked, Indexed
  <2> QED BY <2>1, <2>2
<1>4. /\ OthersHold(t) /\ job'[t] = job[t]
      /\ loc'[t].pl = FirstPlan /\ loc'[t].complete = done[1]
      /\ pc'[t] \in {"plan.put", "plan.check"} /\ (pc'[t] = "plan.check" => Planned)
  <2>1. CASE plan[1] = <<>>
    <3> DEFINE l == [loc[t] EXCEPT !.pl = ChunkReleases(DOMAIN index), !.complete = done[1]]
    <3>1. l.pl = FirstPlan /\ l.complete = done[1]
      BY <1>0 DEF Locals, FirstPlan
    <3>2. Goto(t, "plan.put", l)
      BY <1>1, <2>1 DEF PlanFrom
    <3> HIDE DEF l
    <3> QED BY <1>0, <3>1, <3>2, GotoHolds
  <2>2. CASE plan[1] # <<>>
    <3> DEFINE l == [loc[t] EXCEPT !.pl = plan[1], !.complete = done[1]]
    <3>1. l.pl = plan[1] /\ l.complete = done[1]
      BY <1>0 DEF Locals
    <3>2. Goto(t, "plan.check", l)
      BY <1>1, <2>2 DEF PlanFrom
    <3>3. Planned
      BY <1>0, <2>2 DEF PlansBacked
    <3> HIDE DEF l
    <3> QED BY <1>0, <3>1, <3>2, <3>3, GotoHolds DEF Planned
  <2> QED BY <2>1, <2>2
<1>5. StageBacked(t)'
  <2>1. JobBacked(job[t])'
    BY <1>0, <1>2, <1>4, GrowsKeeps DEF StageBacked
  <2>2. pc'[t] \in PlanPcs /\ pc'[t] \notin {"start", "index.put"} \cup IndexedPcs \cup RetryPcs \cup ChunkPcs
    BY <1>4, FreeFacts DEF PlanPcs
  <2>3. Indexed' /\ loc'[t].pl = FirstPlan' /\ loc'[t].complete \subseteq done'[1]
    BY <1>1, <1>2, <1>3, <1>4, GrowsKeeps DEF store
  <2>4. pc'[t] = "plan.check" => Planned'
    BY <1>2, <1>4, GrowsKeeps
  <2> QED BY <1>4, <2>1, <2>2, <2>3, <2>4 DEF StageBacked
<1> QED BY <1>2, <1>4, <1>5, MoveBacked

\* Retry jobs are those of later passes.
LEMMA RetryPass ==
    ASSUME NEW j \in JobIds \cup {NoJob}, j.stage = "retry"
    PROVE  j.pass \in Passes \ {1}
<1>1. MaxPass \in Nat
  BY PipelineAssumption
<1>2. PICK p \in 2 .. MaxPass : j = RetryJob(p)
  BY DEF JobIds, NoJob, IndexJob, PlanJob, ChunkJob, ReconcileJob, FinalizeJob, JobId
<1> QED BY <1>1, <1>2 DEF RetryJob, JobId, Passes

\* The plan of a pass is stored.
LEMMA PutPassPlanBacked ==
    ASSUME IndInv, BackedInv, NEW t \in Threads, PutPassPlan(t)
    PROVE  BackedInv'
<1>0. /\ ThreadTypeOK /\ loc[t] \in Locals /\ StageBacked(t) /\ plan \in [Passes -> Plans]
      /\ job[t] \in JobIds \cup {NoJob}
      /\ PlansBacked /\ MarksBacked /\ LatePassesBacked /\ ProgressBacked
  BY DEF IndInv, TypeOK, ThreadTypeOK, StoreTypeOK, BackedInv, StoreBacked
<1> DEFINE q == IF pc[t] = "plan.put" THEN 1 ELSE job[t].pass
<1>1. /\ UNCHANGED <<index, outs, progress, done, terminal, jobs>>
      /\ plan' = [plan EXCEPT ![q] = loc[t].pl]
      /\ pc[t] \in {"plan.put", "retry.put"}
  BY DEF PutPassPlan
<1>2. pc[t] = "plan.put" => q = 1 /\ Indexed /\ loc[t].pl = FirstPlan
  BY <1>0 DEF StageBacked, PlanPcs
<1>3. pc[t] = "retry.put" => job[t].stage = "retry" /\ q \in Passes \ {1} /\ Resolved
  BY <1>0, RetryPass DEF StageBacked, RetryPcs, JobBacked, LateJob
<1>4. q \in Passes
  BY <1>1, <1>2, <1>3, FirstPass
<1> HIDE DEF q
<1>5. \A p \in Passes : plan'[p] = IF p = q THEN loc[t].pl ELSE plan[p]
  BY <1>0, <1>1, <1>4
<1>6. Grows
  BY <1>1, <1>2, <1>3, <1>5, FirstPass DEF Grows, Planned
<1>7. pc[t] = "plan.put" => Planned'
  BY <1>1, <1>2, <1>5, FirstPass DEF Planned, Indexed, FirstPlan
<1>8. PlansBacked'
  <2>1. CASE pc[t] = "plan.put"
    BY <1>7, <2>1 DEF PlansBacked
  <2>2. CASE pc[t] = "retry.put"
    BY <1>3, <1>6, <2>2, GrowsKeeps DEF PlansBacked, Resolved
  <2> QED BY <1>1, <2>1, <2>2
<1>9. MarksBacked'
  BY <1>0, <1>1, <1>6, GrowsKeeps DEF MarksBacked
<1>10. LatePassesBacked'
  <2> SUFFICES ASSUME NEW p \in Passes \ {1}, plan'[p] # <<>> \/ done'[p] # {}
               PROVE  Resolved'
    BY DEF LatePassesBacked
  <2>1. CASE p = q
    BY <1>1, <1>2, <1>3, <1>6, <2>1, GrowsKeeps
  <2>2. CASE p # q
    BY <1>0, <1>1, <1>5, <1>6, <2>2, GrowsKeeps DEF LatePassesBacked
  <2> QED BY <2>1, <2>2
<1>11. ProgressBacked'
  BY <1>0, <1>1, <1>6, GrowsKeeps DEF ProgressBacked
<1>12. QueueBacked'
  BY <1>1, <1>6, SameQueueStays, QueueStaysBacked
<1>13. /\ OthersHold(t) /\ job'[t] = job[t] /\ loc'[t] = loc[t]
       /\ pc'[t] = IF pc[t] = "plan.put" THEN "plan.check" ELSE "retry.next"
  BY <1>0, GotoHolds DEF PutPassPlan
<1>14. StageBacked(t)'
  <2>1. JobBacked(job[t])'
    BY <1>0, <1>6, <1>13, GrowsKeeps DEF StageBacked
  <2>2. CASE pc[t] = "plan.put"
    <3>1. pc'[t] = "plan.check" /\ pc'[t] \in PlanPcs
      BY <1>13, <2>2 DEF PlanPcs
    <3>2. loc'[t].pl = FirstPlan' /\ loc'[t].complete \subseteq done'[1]
      BY <1>0, <1>1, <1>2, <1>6, <1>13, <2>2, GrowsKeeps DEF StageBacked, PlanPcs
    <3> QED BY <1>7, <2>1, <2>2, <3>1, <3>2, FreeFacts DEF StageBacked, Planned
  <2>3. CASE pc[t] = "retry.put"
    <3>1. pc'[t] = "retry.next" /\ pc'[t] \in RetryPcs /\ job'[t].stage = "retry"
      BY <1>3, <1>13, <2>3 DEF RetryPcs
    <3> QED BY <2>1, <3>1, FreeFacts DEF StageBacked
  <2> QED BY <1>1, <2>2, <2>3
<1> QED BY <1>6, <1>8, <1>9, <1>10, <1>11, <1>12, <1>13, <1>14, MoveBacked DEF StoreBacked

\* The planner goes on.
LEMMA PlanStageBacked ==
    ASSUME IndInv, BackedInv, NEW t \in Threads,
           PlanCheck(t) \/ PlanNext(t) \/ (PutProgress(t) /\ pc[t] = "plan.progress")
    PROVE  BackedInv'
<1>0. /\ ThreadTypeOK /\ loc[t] \in Locals /\ StageBacked(t) /\ pc[t] \in PlanPcs \ {"plan.put"}
      /\ ProgressBacked
  BY DEF IndInv, TypeOK, ThreadTypeOK, BackedInv, StoreBacked, PlanCheck, PlanNext, PutProgress, PlanPcs
<1>1. /\ Planned /\ Indexed /\ loc[t].pl = FirstPlan /\ loc[t].complete \subseteq done[1]
  BY <1>0 DEF StageBacked
<1>2. CASE PlanNext(t)
  <2>1. UNCHANGED store /\ EnqueueNext(1, loc[t].pl, loc[t].complete) /\ Finish(t)
    BY <1>2 DEF PlanNext
  <2>2. loc[t].pl \in Plans
    BY <1>0 DEF Locals
  <2>3. loc[t].pl = plan[1]
    BY <1>1 DEF Planned
  <2>4. QueueBacked'
    BY <1>1, <2>1, <2>2, <2>3, FirstPass, EnqueueNextBacked
  <2>5. OthersHold(t) /\ pc'[t] \in {"idle", "done"} /\ job'[t] \in {job[t], NoJob}
    BY <1>0, <2>1, FinishHolds
  <2>6. pc'[t] \in FreePcs
    BY <2>5 DEF FreePcs
  <2> QED BY <2>1, <2>4, <2>5, <2>6, FreeStepBacked
<1>3. CASE ~PlanNext(t)
  <2>1. UNCHANGED <<index, outs, plan, done, terminal, jobs>>
    BY <1>3 DEF PlanCheck, PutProgress, store
  <2>2. Grows
    BY <2>1 DEF Grows
  <2>3. Indexed' /\ Planned' /\ FirstPlan' = FirstPlan
    BY <1>1, <2>2, GrowsKeeps
  <2>4. StoreBacked'
    BY <2>1, <2>2, <2>3, StoreGrows DEF BackedInv, ProgressBacked
  <2>5. QueueBacked'
    BY <2>1, <2>2, SameQueueStays, QueueStaysBacked
  <2>6. /\ OthersHold(t) /\ job'[t] = job[t] /\ pc'[t] \in {"plan.next", "plan.progress"}
        /\ loc'[t].pl = loc[t].pl /\ loc'[t].complete = loc[t].complete
    <3>1. CASE PutProgress(t)
      BY <1>0, <3>1, GotoHolds DEF PutProgress, PlanPcs
    <3>2. CASE PlanCheck(t) /\ progress = NoProgress
      BY <1>0, <3>2, GotoHolds DEF PlanCheck
    <3>3. CASE PlanCheck(t) /\ progress # NoProgress
      <4> DEFINE l == [loc[t] EXCEPT !.prog = [progress EXCEPT !.status = "RUNNING"]]
      <4>1. l.pl = loc[t].pl /\ l.complete = loc[t].complete
        BY <1>0 DEF Locals
      <4>2. Goto(t, "plan.progress", l)
        BY <3>3 DEF PlanCheck
      <4> HIDE DEF l
      <4> QED BY <1>0, <4>1, <4>2, GotoHolds
    <3> QED BY <1>3, <3>1, <3>2, <3>3
  <2>7. StageBacked(t)'
    <3>1. JobBacked(job[t])'
      BY <1>0, <2>2, <2>6, GrowsKeeps DEF StageBacked
    <3>2. pc'[t] \in PlanPcs
      BY <2>6 DEF PlanPcs
    <3>3. loc'[t].pl = FirstPlan' /\ loc'[t].complete \subseteq done'[1]
      BY <1>1, <2>1, <2>3, <2>6
    <3> QED BY <2>3, <3>1, <3>2, <3>3, FreeFacts DEF StageBacked
  <2> QED BY <2>2, <2>4, <2>5, <2>6, <2>7, MoveBacked
<1> QED BY <1>2, <1>3

-----------------------------------------------------------------------------
(* 3. The chunk stage. *)

\* An outcome is not the absence of one.
LEMMA OutcomeIsSome == NoOutcome \notin Outcome /\ \A o : FullyComplete(o) => o # NoOutcome
<1>1. \A o \in Outcome : o.kind # "NONE"
  BY DEF Outcome, Completed, Failed
<1>2. NoOutcome.kind = "NONE"
  BY DEF NoOutcome
<1>3. \A o : FullyComplete(o) => o.kind = "COMPLETED"
  BY DEF FullyComplete
<1> QED BY <1>1, <1>2, <1>3

\* What a thread that runs a chunk knows.
LEMMA ChunkFacts ==
    ASSUME IndInv, BackedInv, NEW t \in Threads, pc[t] \in ChunkPcs \/ Running(t, "chunk")
    PROVE  /\ ThreadTypeOK /\ loc[t] \in Locals /\ job[t] \in JobIds \cup {NoJob}
           /\ job[t].stage = "chunk" /\ job[t].pass \in Passes /\ job[t].chunk \in Nat
           /\ StageBacked(t) /\ JobBacked(job[t])
           /\ Indexed /\ Planned
           /\ FirstChunk(job[t]) <=> job[t].pass = 1
           /\ job[t].pass # 1 => Resolved
           /\ FirstChunk(job[t]) => job[t].chunk \in DOMAIN plan[1]
           /\ pc[t] \in ChunkPcs => ChunkBacked(t)
<1>1. /\ ThreadTypeOK /\ loc[t] \in Locals /\ job[t] \in JobIds \cup {NoJob}
      /\ job[t].stage = "chunk" /\ StageBacked(t) /\ JobBacked(job[t])
  BY DEF IndInv, TypeOK, ThreadTypeOK, HandlerInv, Running, BackedInv, StageBacked
<1>2. job[t].pass \in Passes /\ job[t].chunk \in Nat
  BY <1>1, JobIdShape
<1> QED BY <1>1, <1>2 DEF JobBacked, FirstChunk, LateJob, Resolved, Planned, StageBacked

\* Entering or staying in the chunk stage.
LEMMA ChunkMoves ==
    ASSUME IndInv, BackedInv, Grows, StoreBacked', QueueBacked', NEW t \in Threads, OthersHold(t),
           job'[t] = job[t], pc'[t] \in ChunkPcs, ChunkBacked(t)'
    PROVE  BackedInv'
<1>1. JobBacked(job[t])'
  BY GrowsKeeps DEF BackedInv, StageBacked
<1>2. StageBacked(t)'
  BY <1>1, FreeFacts DEF StageBacked
<1> QED BY <1>2, MoveBacked

LEMMA BeginChunkBacked ==
    ASSUME IndInv, BackedInv, NEW t \in Threads, BeginChunk(t)
    PROVE  BackedInv'
<1> DEFINE l == [loc[t] EXCEPT !.view = outs,
                               !.todo = {r \in loc[t].todo \cap DOMAIN index :
                                            ~FullyComplete(outs[r])}]
<1>0. /\ UNCHANGED <<store, jobs>> /\ Goto(t, "chunk.read", l)
      /\ pc[t] = "start" /\ Running(t, "chunk")
  BY DEF BeginChunk, Running
<1>1. /\ ThreadTypeOK /\ loc[t] \in Locals /\ StageBacked(t) /\ Planned
      /\ FirstChunk(job[t]) => job[t].chunk \in DOMAIN plan[1]
  BY <1>0, ChunkFacts
<1>2. l.todo = {r \in loc[t].todo \cap DOMAIN index : ~FullyComplete(outs[r])}
  BY <1>1 DEF Locals
<1>3. ASSUME FirstChunk(job[t]), NEW r \in plan[1][job[t].chunk]
      PROVE  r \in l.todo \/ outs[r] # NoOutcome
  <2>1. loc[t].todo = plan[1][job[t].chunk]
    BY <1>0, <1>1, <1>3 DEF StageBacked
  <2>2. r \in DOMAIN index
    BY <1>1, <1>3, FirstPlanCovers
  <2> QED BY <1>2, <1>3, <2>1, <2>2, OutcomeIsSome
<1> HIDE DEF l
<1>4. Grows /\ StoreBacked' /\ QueueBacked'
  BY <1>0, StoreStays, SameQueueStays, QueueStaysBacked
<1>5. OthersHold(t) /\ pc'[t] = "chunk.read" /\ loc'[t] = l /\ job'[t] = job[t]
  BY <1>0, <1>1, GotoHolds
<1>6. pc'[t] \in ChunkPcs
  BY <1>5 DEF ChunkPcs
<1>7. plan' = plan /\ outs' = outs
  BY <1>0 DEF store
<1>8. ChunkBacked(t)'
  BY <1>3, <1>5, <1>7 DEF ChunkBacked, FirstChunk
<1> QED BY <1>4, <1>5, <1>6, <1>8, ChunkMoves

LEMMA DeferChunkBacked ==
    ASSUME IndInv, BackedInv, NEW t \in Threads, DeferChunk(t)
    PROVE  BackedInv'
<1> PICK j : j = ChunkJob(job[t].pass, job[t].chunk, job[t].defer + 1)
  OBVIOUS
<1>0. /\ UNCHANGED store /\ jobs' = Enqueued(j, loc[t].todo) /\ Finish(t)
      /\ pc[t] = "start" /\ Running(t, "chunk")
  BY DEF DeferChunk, EnqueueChunk, Running
<1>1. /\ ThreadTypeOK /\ loc[t] \in Locals /\ StageBacked(t) /\ JobBacked(job[t])
      /\ job[t].stage = "chunk"
  BY <1>0, ChunkFacts
<1>2. Grows
  BY <1>0, StoreStays
<1>3. j.stage = job[t].stage /\ j.pass = job[t].pass /\ j.chunk = job[t].chunk
  BY <1>1 DEF ChunkJob, JobId
<1>4. JobBacked(j) /\ FirstChunk(j) = FirstChunk(job[t])
  BY <1>1, <1>3 DEF JobBacked, FirstChunk, LateJob
<1>5. JobBacked(j)'
  BY <1>2, <1>4, GrowsKeeps
<1>6. FirstChunk(j) => loc[t].todo = plan'[1][j.chunk]
  BY <1>0, <1>1, <1>3, <1>4 DEF StageBacked, store
<1>7. loc[t].todo \in SUBSET Releases
  BY <1>1 DEF Locals
<1>8. QueueBacked'
  BY <1>0, <1>2, <1>5, <1>6, <1>7, EnqueuedBacked
<1>9. OthersHold(t) /\ pc'[t] \in {"idle", "done"} /\ job'[t] \in {job[t], NoJob}
  BY <1>0, <1>1, FinishHolds
<1>10. pc'[t] \in FreePcs
  BY <1>9 DEF FreePcs
<1> QED BY <1>0, <1>8, <1>9, <1>10, FreeStepBacked

\* Reading a batch, ending the reads, and the assertion after the checkpoint.
LEMMA ChunkReadBacked ==
    ASSUME IndInv, BackedInv, NEW t \in Threads, ReadReleases(t) \/ AllRead(t) \/ ChunkCheck(t)
    PROVE  BackedInv'
<1>0. UNCHANGED <<store, jobs>> /\ pc[t] \in ChunkPcs
  BY DEF ReadReleases, AllRead, ChunkCheck, ChunkPcs
<1>1. ThreadTypeOK /\ loc[t] \in Locals /\ ChunkBacked(t)
  BY <1>0, ChunkFacts
<1>2. Grows /\ StoreBacked' /\ QueueBacked'
  BY <1>0, StoreStays, SameQueueStays, QueueStaysBacked
<1>3. /\ OthersHold(t) /\ job'[t] = job[t] /\ loc'[t].todo = loc[t].todo
      /\ \/ pc'[t] = "chunk.checkpoint" /\ \A r \in loc'[t].batch : loc'[t].got[r] # NoOutcome
         \/ pc'[t] = "chunk.put" /\ Unread(t)' = {}
         \/ pc'[t] = "chunk.mark" /\ \A r \in loc[t].todo : outs[r] # NoOutcome
  <2>1. CASE ReadReleases(t)
    <3>0. PICK b \in SUBSET Unread(t) \ {{}} : \E reading \in [b -> Readings] :
             Goto(t, "chunk.checkpoint",
                  [loc[t] EXCEPT !.batch = b,
                      !.got = [r \in Releases |-> IF r \in b THEN reading[r] ELSE @[r]]])
      BY <2>1 DEF ReadReleases
    <3>1. PICK reading \in [b -> Readings] :
             Goto(t, "chunk.checkpoint",
                  [loc[t] EXCEPT !.batch = b,
                      !.got = [r \in Releases |-> IF r \in b THEN reading[r] ELSE @[r]]])
      BY <3>0
    <3> DEFINE l == [loc[t] EXCEPT !.batch = b,
                        !.got = [r \in Releases |-> IF r \in b THEN reading[r] ELSE @[r]]]
    <3>2. b \subseteq Releases
      BY <1>1 DEF Unread, Locals
    <3>3. l.todo = loc[t].todo /\ l.batch = b
      BY <1>1 DEF Locals
    <3>4. \A r \in b : l.got[r] = reading[r]
      BY <1>1, <3>2 DEF Locals
    <3>5. \A r \in b : reading[r] # NoOutcome
      BY OutcomeIsSome, PipelineAssumption
    <3>6. Goto(t, "chunk.checkpoint", l)
      BY <3>1
    <3> HIDE DEF l
    <3> QED BY <1>1, <3>3, <3>4, <3>5, <3>6, GotoHolds
  <2>2. CASE AllRead(t)
    <3>1. OthersHold(t) /\ job'[t] = job[t] /\ loc'[t] = loc[t] /\ pc'[t] = "chunk.put"
      BY <1>1, <2>2, GotoHolds DEF AllRead
    <3>2. Unread(t)' = {}
      BY <2>2, <3>1 DEF AllRead, Unread
    <3> QED BY <3>1, <3>2
  <2>3. CASE ChunkCheck(t)
    <3>1. OthersHold(t) /\ job'[t] = job[t] /\ loc'[t] = loc[t] /\ pc'[t] = "chunk.mark"
      BY <1>1, <2>3, GotoHolds DEF ChunkCheck
    <3> QED BY <1>1, <2>3, <3>1 DEF ChunkBacked, ChunkCheck
  <2> QED BY <2>1, <2>2, <2>3
<1>4. pc'[t] \in ChunkPcs
  BY <1>3 DEF ChunkPcs
<1>5. plan' = plan /\ outs' = outs
  BY <1>0 DEF store
<1>6. ChunkBacked(t)'
  BY <1>1, <1>3, <1>5 DEF ChunkBacked, FirstChunk
<1> QED BY <1>2, <1>3, <1>4, <1>6, ChunkMoves

\* putOutcomes gives every release it writes an outcome.
LEMMA PutOutcomesBacked ==
    ASSUME IndInv, BackedInv, NEW t \in Threads, PutOutcomes(t)
    PROVE  BackedInv'
<1> DEFINE b == IF pc[t] = "chunk.checkpoint" THEN loc[t].batch ELSE loc[t].todo
           merged == Converged(t, b)
           l == [loc[t] EXCEPT !.view = merged, !.batch = {}]
<1>0. /\ UNCHANGED <<index, progress, plan, done, terminal, jobs>>
      /\ outs' = [r \in Releases |-> IF r \in b THEN merged[r] ELSE outs[r]]
      /\ Goto(t, IF pc[t] = "chunk.checkpoint" THEN "chunk.read" ELSE "chunk.check", l)
      /\ pc[t] \in {"chunk.checkpoint", "chunk.put"} /\ pc[t] \in ChunkPcs
  BY DEF PutOutcomes, ChunkPcs
<1>1. ThreadTypeOK /\ loc[t] \in Locals /\ ChunkBacked(t)
  BY <1>0, ChunkFacts
<1>2. /\ b \subseteq Releases
      /\ loc[t].view \in [Releases -> Outcome \cup {NoOutcome}]
      /\ loc[t].got \in [Releases -> Outcome \cup {NoOutcome}]
  BY <1>1 DEF Locals
<1>3. ASSUME NEW r \in b PROVE merged[r] # NoOutcome
  <2>1. loc[t].got[r] # NoOutcome
    BY <1>0, <1>1, <1>2 DEF ChunkBacked, Unread
  <2>2. Converge(loc[t].view[r], loc[t].got[r]) \in Outcome
    BY <1>2, <2>1, ConvergeType
  <2>3. merged[r] = Converge(loc[t].view[r], loc[t].got[r])
    BY <1>2 DEF Converged
  <2> QED BY <2>2, <2>3, OutcomeIsSome
<1>4. l.todo = loc[t].todo
  BY <1>1 DEF Locals
<1>5. pc[t] = "chunk.put" => b = loc[t].todo
  OBVIOUS
<1> HIDE DEF b, merged, l
<1>6. /\ \A r \in Releases : outs[r] # NoOutcome => outs'[r] # NoOutcome
      /\ \A r \in b : outs'[r] # NoOutcome
  BY <1>0, <1>2, <1>3
<1>7. Grows
  BY <1>0, <1>6 DEF Grows
<1>8. ProgressBacked'
  BY <1>0, <1>7, GrowsKeeps DEF BackedInv, StoreBacked, ProgressBacked
<1>9. StoreBacked' /\ QueueBacked'
  BY <1>0, <1>7, <1>8, StoreGrows, SameQueueStays, QueueStaysBacked DEF BackedInv
<1>10. /\ OthersHold(t) /\ job'[t] = job[t] /\ loc'[t].todo = loc[t].todo
       /\ pc'[t] = IF pc[t] = "chunk.checkpoint" THEN "chunk.read" ELSE "chunk.check"
  BY <1>0, <1>1, <1>4, GotoHolds
<1>11. pc'[t] \in ChunkPcs
  BY <1>10 DEF ChunkPcs
<1>12. ASSUME FirstChunk(job[t]), NEW r \in plan[1][job[t].chunk]
       PROVE  r \in loc[t].todo \/ outs'[r] # NoOutcome
  <2>1. r \in Releases
    BY <1>0, <1>12, ChunkFacts, FirstPlanCovers, IndexOfReleases
  <2> QED BY <1>1, <1>6, <1>12, <2>1 DEF ChunkBacked
<1>13. pc'[t] = "chunk.check" => \A r \in loc[t].todo : outs'[r] # NoOutcome
  BY <1>0, <1>5, <1>6, <1>10
<1>14. ChunkBacked(t)'
  BY <1>0, <1>10, <1>12, <1>13 DEF ChunkBacked, FirstChunk
<1> QED BY <1>7, <1>9, <1>10, <1>11, <1>14, ChunkMoves

\* markChunkComplete: every release of the chunk has an outcome by now.
LEMMA MarkChunkBacked ==
    ASSUME IndInv, BackedInv, NEW t \in Threads, MarkChunkComplete(t)
    PROVE  BackedInv'
<1> DEFINE p == job[t].pass
<1>0. /\ UNCHANGED <<index, outs, progress, plan, terminal, jobs>>
      /\ done' = [done EXCEPT ![p] = @ \cup {job[t].chunk}]
      /\ Goto(t, "chunk.tally", loc[t])
      /\ pc[t] = "chunk.mark" /\ pc[t] \in ChunkPcs
  BY DEF MarkChunkComplete, ChunkPcs
<1>1. /\ ThreadTypeOK /\ ChunkBacked(t) /\ Planned /\ p \in Passes
      /\ p # 1 => Resolved
      /\ FirstChunk(job[t]) <=> p = 1
      /\ FirstChunk(job[t]) => job[t].chunk \in DOMAIN plan[1]
      /\ done \in [Passes -> SUBSET Nat] /\ StoreBacked
  BY <1>0, ChunkFacts DEF IndInv, TypeOK, StoreTypeOK, BackedInv
<1> HIDE DEF p
<1>2. \A q \in Passes : done'[q] = IF q = p THEN done[q] \cup {job[t].chunk} ELSE done[q]
  BY <1>0, <1>1
<1>3. Grows
  BY <1>0, <1>2 DEF Grows
<1>4. ASSUME NEW i \in done'[1]
      PROVE  i \in DOMAIN plan[1] /\ \A r \in plan[1][i] : outs[r] # NoOutcome
  <2>1. CASE i \in done[1]
    BY <1>1, <2>1 DEF StoreBacked, MarksBacked
  <2>2. CASE i \notin done[1]
    <3>1. p = 1 /\ i = job[t].chunk
      BY <1>2, <1>4, <2>2, FirstPass
    <3> QED BY <1>0, <1>1, <3>1 DEF ChunkBacked
  <2> QED BY <2>1, <2>2
<1>5. MarksBacked'
  BY <1>0, <1>1, <1>3, <1>4, GrowsKeeps DEF MarksBacked
<1>6. LatePassesBacked'
  BY <1>0, <1>1, <1>2, <1>3, GrowsKeeps DEF StoreBacked, LatePassesBacked
<1>7. PlansBacked' /\ ProgressBacked'
  BY <1>0, <1>1, <1>3, GrowsKeeps DEF StoreBacked, PlansBacked, ProgressBacked
<1>8. QueueBacked'
  BY <1>0, <1>3, SameQueueStays, QueueStaysBacked
<1>9. OthersHold(t) /\ job'[t] = job[t] /\ loc'[t] = loc[t] /\ pc'[t] = "chunk.tally"
  BY <1>0, <1>1, GotoHolds
<1>10. pc'[t] \in ChunkPcs
  BY <1>9 DEF ChunkPcs
<1>11. ChunkBacked(t)'
  BY <1>0, <1>1, <1>9 DEF ChunkBacked, FirstChunk
<1> QED BY <1>3, <1>5, <1>6, <1>7, <1>8, <1>9, <1>10, <1>11, ChunkMoves DEF StoreBacked

\* The chunk's progress row and what is queued after it.
LEMMA ChunkEndBacked ==
    ASSUME IndInv, BackedInv, NEW t \in Threads,
           ChunkTally(t) \/ ChunkNext(t) \/ (PutProgress(t) /\ pc[t] = "chunk.progress")
    PROVE  BackedInv'
<1> DEFINE p == job[t].pass
<1>0. pc[t] \in {"chunk.tally", "chunk.next", "chunk.progress"} /\ pc[t] \in ChunkPcs
  BY DEF ChunkTally, ChunkNext, ChunkPcs
<1>1. /\ ThreadTypeOK /\ loc[t] \in Locals /\ ChunkBacked(t) /\ Planned /\ Indexed
      /\ p \in Passes
      /\ p # 1 => Resolved
      /\ plan \in [Passes -> Plans]
  BY <1>0, ChunkFacts DEF IndInv, TypeOK, StoreTypeOK
<1>2. CASE ChunkNext(t)
  <2>1. UNCHANGED store /\ EnqueueNext(p, plan[p], loc[t].complete) /\ Finish(t)
    BY <1>2 DEF ChunkNext
  <2>2. loc[t].complete \in SUBSET done[p]
    BY <1>1, <1>2 DEF ChunkBacked, ChunkNext
  <2>3. plan[p] \in Plans
    BY <1>1
  <2> HIDE DEF p
  <2>4. QueueBacked'
    BY <1>1, <2>1, <2>2, <2>3, EnqueueNextBacked
  <2>5. OthersHold(t) /\ pc'[t] \in {"idle", "done"} /\ job'[t] \in {job[t], NoJob}
    BY <1>1, <2>1, FinishHolds
  <2>6. pc'[t] \in FreePcs
    BY <2>5 DEF FreePcs
  <2> QED BY <2>1, <2>4, <2>5, <2>6, FreeStepBacked
<1>3. CASE ~ChunkNext(t)
  <2>1. UNCHANGED <<index, outs, plan, done, terminal, jobs>>
    BY <1>3 DEF ChunkTally, PutProgress, store
  <2>2. Grows
    BY <2>1 DEF Grows
  <2>3. StoreBacked' /\ QueueBacked'
    BY <1>1, <2>1, <2>2, GrowsKeeps, StoreGrows, SameQueueStays, QueueStaysBacked
       DEF BackedInv, ProgressBacked
  <2>4. /\ OthersHold(t) /\ job'[t] = job[t] /\ loc'[t].todo = loc[t].todo
        /\ pc'[t] \in {"chunk.progress", "chunk.next"} /\ loc'[t].complete \subseteq done[p]
    <3>1. CASE PutProgress(t) /\ pc[t] = "chunk.progress"
      BY <1>1, <3>1, GotoHolds DEF PutProgress, ChunkBacked
    <3>2. CASE ChunkTally(t)
      <4> DEFINE read == [loc[t] EXCEPT !.complete = done[p]]
                 row == [read EXCEPT !.prog = [progress EXCEPT
                                                 !.completed = Cardinality(CompletedIds(outs)),
                                                 !.failed = Cardinality(FailedIds(outs))]]
      <4>1. /\ read.complete = done[p] /\ read.todo = loc[t].todo
            /\ row.complete = done[p] /\ row.todo = loc[t].todo
        BY <1>1 DEF Locals
      <4>2. Goto(t, "chunk.next", read) \/ Goto(t, "chunk.progress", row)
        BY <3>2 DEF ChunkTally
      <4> HIDE DEF read, row
      <4> QED BY <1>1, <4>1, <4>2, GotoHolds
    <3> QED BY <1>3, <3>1, <3>2
  <2>5. pc'[t] \in ChunkPcs
    BY <2>4 DEF ChunkPcs
  <2>6. ChunkBacked(t)'
    BY <1>1, <2>1, <2>4 DEF ChunkBacked, FirstChunk
  <2> QED BY <2>2, <2>3, <2>4, <2>5, <2>6, ChunkMoves
<1> QED BY <1>2, <1>3

-----------------------------------------------------------------------------
(* 4 and 5. Retry and reconciliation. *)

LEMMA RetryStageBacked ==
    ASSUME IndInv, BackedInv, NEW t \in Threads, BeginRetry(t) \/ RetryNext(t)
    PROVE  BackedInv'
<1> DEFINE p == job[t].pass
           ids == RetryableReleaseIds(index, outs)
<1>0. /\ ThreadTypeOK /\ loc[t] \in Locals /\ StageBacked(t) /\ job[t] \in JobIds \cup {NoJob}
      /\ plan \in [Passes -> Plans]
  BY DEF IndInv, TypeOK, ThreadTypeOK, StoreTypeOK, BackedInv
<1>1. UNCHANGED store /\ job[t].stage = "retry"
  BY <1>0 DEF BeginRetry, RetryNext, Running, StageBacked, RetryPcs
<1>2. Resolved /\ p \in Passes \ {1}
  BY <1>0, <1>1, RetryPass DEF StageBacked, JobBacked, LateJob
<1>3. Grows /\ StoreBacked'
  BY <1>1, StoreStays
<1>4. CASE RetryNext(t)
  <2>1. EnqueueNext(p, loc[t].pl, done[p]) /\ Finish(t) /\ loc[t].pl \in Plans
    BY <1>0, <1>4 DEF RetryNext, Locals
  <2> HIDE DEF p
  <2>2. QueueBacked'
    BY <1>1, <1>2, <2>1, EnqueueNextBacked
  <2>3. OthersHold(t) /\ pc'[t] \in {"idle", "done"} /\ job'[t] \in {job[t], NoJob}
    BY <1>0, <2>1, FinishHolds
  <2>4. pc'[t] \in FreePcs
    BY <2>3 DEF FreePcs
  <2> QED BY <1>1, <2>2, <2>3, <2>4, FreeStepBacked
<1>5. CASE BeginRetry(t) /\ ids = {}
  <2>1. jobs' = Enqueued(ReconcileJob(p), {}) /\ Finish(t)
    BY <1>5 DEF BeginRetry, Enqueue
  <2> HIDE DEF p
  <2>2. PICK j : j = ReconcileJob(p)
    OBVIOUS
  <2>3. j.stage = "reconcile"
    BY <2>2 DEF ReconcileJob, JobId
  <2>4. JobBacked(j)' /\ ~FirstChunk(j)
    BY <1>2, <1>3, <2>3, GrowsKeeps DEF JobBacked, FirstChunk, LateJob
  <2>5. QueueBacked'
    BY <1>3, <2>1, <2>2, <2>4, EnqueuedBacked
  <2>6. OthersHold(t) /\ pc'[t] \in {"idle", "done"} /\ job'[t] \in {job[t], NoJob}
    BY <1>0, <2>1, FinishHolds
  <2>7. pc'[t] \in FreePcs
    BY <2>6 DEF FreePcs
  <2> QED BY <1>1, <2>5, <2>6, <2>7, FreeStepBacked
<1>6. CASE BeginRetry(t) /\ ids # {}
  <2>1. UNCHANGED jobs
    BY <1>6 DEF BeginRetry
  <2>2. OthersHold(t) /\ job'[t] = job[t] /\ pc'[t] \in RetryPcs
    BY <1>0, <1>6, GotoHolds DEF BeginRetry, RetryPcs
  <2>3. QueueBacked'
    BY <1>3, <2>1, SameQueueStays, QueueStaysBacked
  <2>4. JobBacked(job[t])'
    BY <1>0, <1>3, <2>2, GrowsKeeps DEF StageBacked
  <2>5. StageBacked(t)'
    BY <1>1, <2>2, <2>4, FreeFacts DEF StageBacked
  <2> QED BY <1>3, <2>2, <2>3, <2>5, MoveBacked
<1> QED BY <1>4, <1>5, <1>6

LEMMA ReconcileStageBacked ==
    ASSUME IndInv, BackedInv, NEW t \in Threads, BeginReconcile(t)
    PROVE  BackedInv'
<1>0. ThreadTypeOK /\ StageBacked(t)
  BY DEF IndInv, TypeOK, BackedInv
<1>1. UNCHANGED store /\ Resolved
  BY <1>0 DEF BeginReconcile, Running, StageBacked, JobBacked, LateJob
<1>2. Grows
  BY <1>1, StoreStays
<1>3. QueueBacked'
  <2>1. CASE UNCHANGED jobs
    BY <1>2, <2>1, SameQueueStays, QueueStaysBacked
  <2>2. CASE jobs' = Enqueued(RetryJob(job[t].pass + 1), {})
    <3>1. PICK j : j = RetryJob(job[t].pass + 1)
      OBVIOUS
    <3>2. j.stage = "retry"
      BY <3>1 DEF RetryJob, JobId
    <3>3. JobBacked(j)' /\ ~FirstChunk(j)
      BY <1>1, <1>2, <3>2, GrowsKeeps DEF JobBacked, FirstChunk, LateJob
    <3> QED BY <1>2, <2>2, <3>1, <3>3, EnqueuedBacked
  <2> QED BY <2>1, <2>2 DEF BeginReconcile, Enqueue
<1>4. OthersHold(t) /\ pc'[t] \in {"idle", "done", "claim"} /\ job'[t] \in {job[t], NoJob}
  BY <1>0, GotoHolds, FinishHolds DEF BeginReconcile
<1>5. pc'[t] \in FreePcs
  BY <1>4 DEF FreePcs
<1> QED BY <1>1, <1>3, <1>4, <1>5, FreeStepBacked

-----------------------------------------------------------------------------
(* Queues and environment. *)

LEMMA FetchBacked ==
    ASSUME IndInv, BackedInv, NEW t \in Threads, NEW j \in JobIds, Fetch(t, j)
    PROVE  BackedInv'
<1> DEFINE l == [NoLocals EXCEPT !.tries = jobs[j].made, !.todo = jobs[j].rel]
<1>0. /\ ThreadTypeOK /\ jobs \in [JobIds -> JobRecord]
      /\ UNCHANGED store /\ jobs[j].st # "none"
      /\ jobs' = [jobs EXCEPT ![j].st = "active", ![j].owner = t]
  BY DEF IndInv, TypeOK, QueueTypeOK, Fetch
<1>1. Grows /\ StoreBacked'
  BY <1>0, StoreStays
<1>2. QueueStays
  BY <1>0 DEF QueueStays, JobRecord
<1>3. QueueBacked'
  BY <1>1, <1>2, QueueStaysBacked
<1>4. JobBacked(j) /\ (FirstChunk(j) => jobs[j].rel = plan[1][j.chunk])
  BY <1>0 DEF BackedInv, QueueBacked
<1>5. l.todo = jobs[j].rel
  BY DEF NoLocals
<1>6. OthersHold(t) /\ pc'[t] = "start" /\ job'[t] = j /\ loc'[t] = l
  BY <1>0 DEF Fetch, ThreadTypeOK, OthersHold
<1> HIDE DEF l
<1>7. JobBacked(j)'
  BY <1>1, <1>4, GrowsKeeps
<1>8. JobBacked(job[t])'
  BY <1>6, <1>7
<1>9. FirstChunk(job[t])' => loc'[t].todo = plan'[1][job'[t].chunk]
  BY <1>0, <1>4, <1>5, <1>6 DEF FirstChunk, store
<1>10. /\ pc'[t] = "start"
       /\ pc'[t] \notin {"index.put"} \cup IndexedPcs \cup PlanPcs \cup RetryPcs \cup ChunkPcs
  BY <1>6 DEF IndexedPcs, PlanPcs, RetryPcs, ChunkPcs
<1>11. StageBacked(t)'
  BY <1>8, <1>9, <1>10 DEF StageBacked, FirstChunk
<1> QED BY <1>1, <1>3, <1>6, <1>11, MoveBacked

LEMMA TerminalizeFailedBacked ==
    ASSUME IndInv, BackedInv, NEW t \in Threads, NEW j \in JobIds, TerminalizeFailedJob(t, j)
    PROVE  BackedInv'
<1>0. ThreadTypeOK /\ UNCHANGED <<store, jobs>> /\ jobs[j].st # "none"
  BY DEF IndInv, TypeOK, TerminalizeFailedJob
<1>1. Grows /\ StoreBacked' /\ QueueBacked'
  BY <1>0, StoreStays, SameQueueStays, QueueStaysBacked
<1>2. OthersHold(t) /\ pc'[t] = "term.claim" /\ job'[t] = j
  BY <1>0 DEF TerminalizeFailedJob, ThreadTypeOK, OthersHold
<1>3. JobBacked(j)'
  BY <1>0, <1>1, GrowsKeeps DEF BackedInv, QueueBacked
<1>4. JobBacked(job[t])'
  BY <1>2, <1>3
<1>5. pc'[t] \in FreePcs
  BY <1>2 DEF FreePcs, TermPcs
<1>6. StageBacked(t)'
  BY <1>4, <1>5, FreeFacts DEF StageBacked
<1> QED BY <1>1, <1>2, <1>6, MoveBacked

LEMMA BackgroundStepBacked ==
    ASSUME IndInv, BackedInv,
           \/ Prepare \/ Produce \/ DeadlinePasses \/ DeadLockExpires \/ OtherAcquires
           \/ OtherReleases \/ RedisLoss \/ RevokeConsent \/ CancelSnapshot
           \/ \E t \in Threads : LoseLock(t)
           \/ \E j \in JobIds : StallAlive(j) \/ Evict(j) \/ RetryFailedJob(j) \/ StalledCheck(j)
           \/ UNCHANGED vars
    PROVE  BackedInv'
<1>0. jobs \in [JobIds -> JobRecord]
  BY DEF IndInv, TypeOK, QueueTypeOK
<1>1. UNCHANGED <<index, outs, progress, plan, done, thread>>
  BY DEF Prepare, Produce, DeadlinePasses, DeadLockExpires, OtherAcquires, OtherReleases,
         RedisLoss, RevokeConsent, CancelSnapshot, LoseLock, StallAlive, Evict, RetryFailedJob,
         StalledCheck, vars, store
<1>2. Grows
  BY <1>1 DEF Grows
<1>3. terminal' = Open => terminal = Open
  BY Kinds DEF Prepare, Produce, DeadlinePasses, DeadLockExpires, OtherAcquires, OtherReleases,
         RedisLoss, RevokeConsent, CancelSnapshot, LoseLock, StallAlive, Evict, RetryFailedJob,
         StalledCheck, vars, store
<1>4. StoreBacked'
  BY <1>1, <1>2, <1>3, GrowsKeeps, StoreGrows DEF BackedInv, StoreBacked, ProgressBacked
<1>5. QueueBacked'
  <2>1. CASE Produce
    BY <1>2, <2>1, PlainJobStages, PlainEnqueueBacked, SameQueueStays, QueueStaysBacked DEF Produce
  <2>2. CASE \E j \in JobIds : StallAlive(j) \/ StalledCheck(j) \/ Evict(j) \/ RetryFailedJob(j)
    <3>1. PICK j \in JobIds : StallAlive(j) \/ StalledCheck(j) \/ Evict(j) \/ RetryFailedJob(j)
      BY <2>2
    <3>2. PICK rec : jobs' = [jobs EXCEPT ![j] = rec] /\ (rec.st # "none" => rec.rel = jobs[j].rel)
      <4>1. jobs[j] \in JobRecord /\ NotQueued.st = "none"
        BY <1>0 DEF NotQueued
      <4>2. CASE Evict(j)
        BY <4>1, <4>2 DEF Evict
      <4>3. CASE RetryFailedJob(j)
        <5> DEFINE again == [jobs[j] EXCEPT !.st = "waiting", !.shut = FALSE]
        <5>1. again.rel = jobs[j].rel
          BY <4>1 DEF JobRecord
        <5>2. jobs' = [jobs EXCEPT ![j] = again]
          BY <4>3 DEF RetryFailedJob
        <5> HIDE DEF again
        <5> QED BY <5>1, <5>2
      <4>4. CASE StallAlive(j) \/ StalledCheck(j)
        <5> DEFINE freed == IF jobs[j].stalls = 0
                            THEN [jobs[j] EXCEPT !.owner = "none", !.stalls = 1, !.st = "waiting"]
                            ELSE [jobs[j] EXCEPT !.owner = "none", !.shut = FALSE, !.st = "failed"]
        <5>1. freed.rel = jobs[j].rel
          BY <4>1 DEF JobRecord
        <5>2. jobs' = [jobs EXCEPT ![j] = freed]
          BY <4>4 DEF StallAlive, StalledCheck, Stalled
        <5> HIDE DEF freed
        <5> QED BY <5>1, <5>2
      <4> QED BY <3>1, <4>2, <4>3, <4>4
    <3>3. jobs[j].st # "none"
      BY <3>1 DEF StallAlive, StalledCheck, Evict, RetryFailedJob
    <3>4. QueueStays
      BY <1>0, <3>2, <3>3 DEF QueueStays
    <3> QED BY <1>2, <3>4, QueueStaysBacked
  <2>3. CASE RedisLoss
    <3>1. QueueStays
      BY <2>3 DEF RedisLoss, QueueStays, NotQueued
    <3> QED BY <1>2, <3>1, QueueStaysBacked
  <2>4. CASE UNCHANGED jobs
    BY <1>2, <2>4, SameQueueStays, QueueStaysBacked
  <2> QED BY <2>1, <2>2, <2>3, <2>4
        DEF Prepare, DeadlinePasses, DeadLockExpires, OtherAcquires, OtherReleases,
            RevokeConsent, CancelSnapshot, LoseLock, vars
<1> QED BY <1>1, <1>2, <1>4, <1>5, BackgroundBacked

-----------------------------------------------------------------------------
(* Every step. *)

LEMMA BackedInvInit == Init => BackedInv
<1> SUFFICES ASSUME Init PROVE BackedInv
  OBVIOUS
<1>1. StoreBacked
  BY FirstPass DEF Init, StoreBacked, PlansBacked, ProgressBacked, MarksBacked, LatePassesBacked
<1>2. QueueBacked
  BY DEF Init, QueueBacked, NotQueued
<1>3. ASSUME NEW t \in Threads PROVE StageBacked(t)
  <2>1. pc[t] = "idle" /\ job[t] = NoJob
    BY DEF Init
  <2>2. pc[t] \in FreePcs
    BY <2>1 DEF FreePcs
  <2> QED BY <2>1, <2>2, NoJobBacked, FreeFacts DEF StageBacked
<1> QED BY <1>1, <1>2, <1>3 DEF BackedInv

LEMMA BackedInvNext ==
    ASSUME FixedCatalogue, IndInv, BackedInv, [Next]_vars
    PROVE  BackedInv'
<1>1. CASE QueueStep
  BY <1>1, FetchBacked, TerminalizeFailedBacked, BackgroundStepBacked, SilentStepsBacked DEF QueueStep
<1>2. CASE Environment
  BY <1>2, SilentStepsBacked, BackgroundStepBacked DEF Environment
<1>3. ASSUME NEW t \in Threads, HandlerStep(t) PROVE BackedInv'
  <2>1. CASE PutProgress(t)
    <3>1. pc[t] \in {"plan.progress", "chunk.progress"}
      BY <2>1 DEF PutProgress
    <3> QED BY <2>1, <3>1, PlanStageBacked, ChunkEndBacked
  <2>2. CASE ~PutProgress(t)
    BY <1>3, <2>2, SilentStepsBacked, QueueingStepsBacked, FinalWritesBacked, IndexStageBacked,
       PlanStartBacked, PutPassPlanBacked, PlanStageBacked, BeginChunkBacked, DeferChunkBacked,
       ChunkReadBacked, PutOutcomesBacked, MarkChunkBacked, ChunkEndBacked, RetryStageBacked,
       ReconcileStageBacked DEF HandlerStep
  <2> QED BY <2>1, <2>2
<1> QED BY <1>1, <1>2, <1>3, BackgroundStepBacked DEF Next

-----------------------------------------------------------------------------
(* Marked chunks. *)

LEMMA BackedMarks == ASSUME IndInv, BackedInv PROVE MarkedChunksAccounted
<1> SUFFICES ASSUME NEW p \in Passes, NEW i \in done[p] \cap DOMAIN plan[p],
                    NEW r \in plan[p][i] \cap DOMAIN index
             PROVE  outs[r] # NoOutcome
  BY DEF MarkedChunksAccounted
<1>1. CASE p = 1
  BY <1>1 DEF BackedInv, StoreBacked, MarksBacked
<1>2. CASE p # 1
  BY <1>2 DEF BackedInv, StoreBacked, LatePassesBacked, Resolved
<1> QED BY <1>1, <1>2

\* A chunk is marked only when each of its indexed releases has a checkpointed outcome: for every
\* chunk size and number of passes, with any number of workers and sweeps and under every fault,
\* lost Redis and lost account locks included (putOutcomes before markChunkComplete in
\* extractDistroKidReleaseChunk; what the planner and the retry stage take a chunk to contain).
THEOREM MarkedAccounted ==
    ASSUME FixedCatalogue
    PROVE  Spec => []MarkedChunksAccounted
<1>1. IndInv /\ BackedInv => MarkedChunksAccounted
  BY BackedMarks
<1>2. IndInv /\ BackedInv /\ [Next]_vars => BackedInv'
  BY BackedInvNext
<1> QED BY <1>1, <1>2, InitInv, NextInv, BackedInvInit, PTL DEF Spec

-----------------------------------------------------------------------------
(* COMPLETE verdicts.  A proposal of COMPLETE, and the tombstone it becomes, *)
(* says that the checkpoint holds every release of the index, fully read;    *)
(* so do the outcomes that a finalizer loaded after the verdict.             *)

Finds(v) == v.kind = "TERMINAL" /\ v.status \in CompleteStatuses

FullyRead(o) == \A r \in DOMAIN index : FullyComplete(o[r])

StageSound(t) ==
    /\ pc[t] \in ClaimPcs /\ Finds(loc[t].prop) => Indexed /\ FullyRead(outs)
    /\ pc[t] = "final.persist" /\ Finds(terminal) => FullyRead(loc[t].view)

VerdictSound ==
    Finds(terminal) =>
        /\ Indexed /\ FullyRead(outs)
        /\ persisted.verdict # Open => FullyRead(persisted.outs)

SoundInv == VerdictSound /\ \A t \in Threads : StageSound(t)

\* The program counters of which the invariant says something.
VerdictPcs == ClaimPcs \cup {"final.persist"}

\* What no step takes back: the index and the completed releases.
ReadingsStay == CompletedStays /\ (Indexed => index' = index)

\* deriveStatus says COMPLETE only if every release of the index was fully read.
LEMMA CompleteMeansRead ==
    ASSUME IndInv, DeriveStatus(Reconcile(index, outs)) \in CompleteStatuses
    PROVE  FullyRead(outs)
<1>1. DOMAIN index \in SUBSET Releases /\ outs \in [Releases -> Outcome \cup {NoOutcome}]
  BY IndexOfReleases DEF IndInv, TypeOK, StoreTypeOK
<1> QED BY <1>1, CompleteVerdict, PipelineAssumption DEF StatusOf, FullyRead

\* The FAILED verdict of a terminalized stage finds nothing complete.
LEMMA FailureFindsNothing == \A j : ~Finds(FailureProposal(j))
BY DEF FailureProposal, Proposal, Finds, CompleteStatuses

LEMMA FullyReadStays ==
    ASSUME IndInv, ReadingsStay, Indexed, FullyRead(outs)
    PROVE  Indexed' /\ FullyRead(outs)'
<1>1. index' = index
  BY DEF ReadingsStay
<1>2. ASSUME NEW r \in DOMAIN index PROVE FullyComplete(outs'[r])
  BY IndexOfReleases DEF FullyRead, ReadingsStay, CompletedStays, FullyComplete
<1> QED BY <1>1, <1>2 DEF FullyRead, Indexed

\* The threads that do not move.
LEMMA OthersSound ==
    ASSUME IndInv, SoundInv, ReadingsStay, NEW u \in Threads, pc'[u] = pc[u], loc'[u] = loc[u],
           ~Finds(terminal') \/ terminal' = terminal \/ pc[u] # "final.persist"
    PROVE  StageSound(u)'
<1>1. pc[u] \in ClaimPcs /\ Finds(loc[u].prop) => Indexed' /\ FullyRead(outs)'
  BY FullyReadStays DEF SoundInv, StageSound
<1>2. ASSUME pc[u] = "final.persist", Finds(terminal')
      PROVE  \A r \in DOMAIN index' : FullyComplete(loc[u].view[r])
  <2>1. Finds(terminal) /\ Indexed /\ FullyRead(loc[u].view)
    BY <1>2 DEF SoundInv, StageSound, VerdictSound
  <2> QED BY <2>1 DEF FullyRead, ReadingsStay
<1> QED BY <1>1, <1>2 DEF StageSound, Finds, FullyRead

LEMMA VerdictStays ==
    ASSUME IndInv, SoundInv, ReadingsStay, ~Finds(terminal') \/ terminal' = terminal,
           UNCHANGED persisted
    PROVE  VerdictSound'
<1> SUFFICES ASSUME Finds(terminal')
             PROVE  /\ Indexed' /\ FullyRead(outs)'
                    /\ persisted.verdict # Open => \A r \in DOMAIN index' : FullyComplete(persisted.outs[r])
  BY DEF VerdictSound, Finds, FullyRead
<1>1. /\ Indexed /\ FullyRead(outs)
      /\ persisted.verdict # Open => FullyRead(persisted.outs)
  BY DEF SoundInv, VerdictSound
<1> QED BY <1>1, FullyReadStays DEF FullyRead, ReadingsStay

\* A step of t.
LEMMA MoveSound ==
    ASSUME IndInv, SoundInv, ReadingsStay, NEW t \in Threads, OthersStay(t), VerdictSound',
           StageSound(t)', ~Finds(terminal') \/ terminal' = terminal
    PROVE  SoundInv'
<1>1. ASSUME NEW u \in Threads \ {t} PROVE StageSound(u)'
  BY OthersSound DEF OthersStay
<1> QED BY <1>1 DEF SoundInv

LEMMA VerdictPcsFacts ==
    ASSUME NEW t \in Threads, pc'[t] \notin VerdictPcs
    PROVE  StageSound(t)'
BY DEF StageSound, VerdictPcs

\* A step of t that decides nothing, publishes nothing and is about to do neither.
Undeciding(t) == UNCHANGED <<terminal, persisted>> /\ OthersStay(t) /\ pc'[t] \notin VerdictPcs

LEMMA UndecidingSound ==
    ASSUME IndInv, SoundInv, ReadingsStay, NEW t \in Threads, Undeciding(t)
    PROVE  SoundInv'
BY MoveSound, VerdictStays, VerdictPcsFacts DEF Undeciding

LEMMA WrapperUndeciding ==
    ASSUME ThreadTypeOK, NEW t \in Threads,
           \/ ResumeFinalizer(t) \/ StartOverdue(t) \/ Complete(t) \/ RethrowStageError(t)
           \/ AnnounceTerminal(t) \/ MarkHandled(t)
           \/ AssertOverdue(t) \/ AssertStopped(t) \/ LockLost(t) \/ ConsentInactive(t)
           \/ PutFinalProgress(t) \/ ReleaseSession(t) \/ ClearEnvelope(t)
           \/ SweepDecided(t) \/ SweepRestart(t) \/ ListEnvelope(t)
           \/ Throw(t) \/ Shutdown(t) \/ Crash(t)
    PROVE  Undeciding(t)
<1>1. UNCHANGED <<terminal, persisted>>
  BY DEF ResumeFinalizer, StartOverdue, Complete, RethrowStageError, AnnounceTerminal, MarkHandled,
         AssertOverdue, AssertStopped, LockLost, ConsentInactive, PutFinalProgress, ReleaseSession,
         ClearEnvelope, SweepDecided, SweepRestart, ListEnvelope, Throw, Shutdown, Crash, store, outcome
<1>2. OthersStay(t) /\ pc'[t] \notin VerdictPcs
  <2>1. CASE StartOverdue(t) \/ AssertOverdue(t) \/ LockLost(t) \/ ConsentInactive(t)
    BY <2>1, RaiseMoves
       DEF StartOverdue, AssertOverdue, LockLost, ConsentInactive, VerdictPcs, ClaimPcs
  <2>2. CASE Throw(t) \/ Shutdown(t) \/ Crash(t) \/ AssertStopped(t) \/ ClearEnvelope(t)
    BY <2>2, RaiseMoves, RestMoves, FinishMoves
       DEF Throw, Shutdown, Crash, AssertStopped, ClearEnvelope, VerdictPcs, ClaimPcs
  <2>3. CASE ResumeFinalizer(t) \/ AnnounceTerminal(t)
    BY <2>3, GotoMoves, RestMoves, FinishMoves
       DEF ResumeFinalizer, AnnounceTerminal, VerdictPcs, ClaimPcs
  <2>4. CASE PutFinalProgress(t) \/ ReleaseSession(t) \/ ListEnvelope(t) \/ SweepDecided(t)
    BY <2>4, GotoMoves, RestMoves
       DEF PutFinalProgress, ReleaseSession, ListEnvelope, SweepDecided, VerdictPcs, ClaimPcs
  <2>5. CASE SweepRestart(t) \/ Complete(t) \/ RethrowStageError(t) \/ MarkHandled(t)
    BY <2>5, RestMoves
       DEF SweepRestart, Complete, RethrowStageError, MarkHandled, VerdictPcs, ClaimPcs
  <2> QED BY <2>1, <2>2, <2>3, <2>4, <2>5
<1> QED BY <1>1, <1>2 DEF Undeciding

LEMMA StageUndeciding ==
    ASSUME ThreadTypeOK, NEW t \in Threads,
           \/ BeginIndex(t) \/ ReadCatalogIndex(t) \/ PutIndex(t) \/ IndexCheck(t)
           \/ IndexProgress(t) \/ IndexNext(t)
           \/ BeginPlan(t) \/ PutPassPlan(t) \/ PlanCheck(t) \/ PutProgress(t) \/ PlanNext(t)
           \/ BeginChunk(t) \/ DeferChunk(t) \/ DeferOverdue(t) \/ ReadReleases(t) \/ AllRead(t)
           \/ PutOutcomes(t) \/ ChunkCheck(t) \/ MarkChunkComplete(t) \/ ChunkTally(t) \/ ChunkNext(t)
           \/ BeginRetry(t) \/ RetryNext(t) \/ SweepResume(t)
    PROVE  Undeciding(t)
<1>1. UNCHANGED <<terminal, persisted>>
  BY DEF BeginIndex, ReadCatalogIndex, PutIndex, IndexCheck, IndexProgress, IndexNext, BeginPlan,
         PutPassPlan, PlanCheck, PutProgress, PlanNext, BeginChunk, DeferChunk, DeferOverdue,
         ReadReleases, AllRead, PutOutcomes, ChunkCheck, MarkChunkComplete, ChunkTally, ChunkNext,
         BeginRetry, RetryNext, SweepResume, store, outcome
<1>2. OthersStay(t) /\ pc'[t] \notin VerdictPcs
  <2>1. CASE BeginIndex(t) \/ PutIndex(t) \/ IndexCheck(t) \/ IndexProgress(t)
    BY <2>1, GotoMoves, RaiseMoves
       DEF BeginIndex, PutIndex, IndexCheck, IndexProgress, VerdictPcs, ClaimPcs
  <2>2. CASE IndexNext(t) \/ PlanNext(t) \/ DeferChunk(t) \/ DeferOverdue(t) \/ ChunkNext(t) \/ RetryNext(t)
    BY <2>2, FinishMoves, RaiseMoves
       DEF IndexNext, PlanNext, DeferChunk, DeferOverdue, ChunkNext, RetryNext, VerdictPcs, ClaimPcs
  <2>3. CASE BeginPlan(t) \/ SweepResume(t) \/ PutPassPlan(t) \/ PlanCheck(t) \/ PutProgress(t)
    BY <2>3, GotoMoves
       DEF BeginPlan, SweepResume, PlanFrom, PutPassPlan, PlanCheck, PutProgress, VerdictPcs, ClaimPcs
  <2>4. CASE BeginChunk(t) \/ AllRead(t) \/ ChunkCheck(t) \/ MarkChunkComplete(t)
    BY <2>4, GotoMoves
       DEF BeginChunk, AllRead, ChunkCheck, MarkChunkComplete, VerdictPcs, ClaimPcs
  <2>5. CASE ReadCatalogIndex(t) \/ ReadReleases(t) \/ PutOutcomes(t) \/ ChunkTally(t)
    <3>1. \E to \in {"index.put", "chunk.checkpoint", "chunk.read", "chunk.check", "chunk.next",
                   "chunk.progress"} : \E l : Goto(t, to, l)
      <4>1. CASE ReadCatalogIndex(t)
        BY <4>1 DEF ReadCatalogIndex
      <4>2. CASE ReadReleases(t)
        BY <4>2, Zenon DEF ReadReleases
      <4>3. CASE PutOutcomes(t)
        BY <4>3 DEF PutOutcomes
      <4>4. CASE ChunkTally(t)
        BY <4>4 DEF ChunkTally
      <4> QED BY <2>5, <4>1, <4>2, <4>3, <4>4
    <3> QED BY <3>1, GotoMoves DEF VerdictPcs, ClaimPcs
  <2>6. CASE BeginRetry(t)
    BY <2>6, GotoMoves, FinishMoves DEF BeginRetry, VerdictPcs, ClaimPcs
  <2> QED BY <2>1, <2>2, <2>3, <2>4, <2>5, <2>6
<1> QED BY <1>1, <1>2 DEF Undeciding

\* A FAILED verdict is proposed.
LEMMA FailureProposalSound ==
    ASSUME IndInv, SoundInv, ReadingsStay, NEW t \in Threads,
           TerminalizeStage(t) \/ SweepExpired(t) \/ \E j \in JobIds : TerminalizeFailedJob(t, j)
    PROVE  SoundInv'
<1>0. ThreadTypeOK /\ loc[t] \in Locals
  BY DEF IndInv, TypeOK, ThreadTypeOK
<1>1. UNCHANGED <<terminal, persisted>>
  BY DEF TerminalizeStage, SweepExpired, TerminalizeFailedJob, store, outcome
<1>2. OthersStay(t) /\ pc'[t] = "term.claim" /\ ~Finds(loc'[t].prop)
  <2>1. CASE TerminalizeStage(t) \/ SweepExpired(t)
    <3>1. PICK j \in {job[t], NoJob} :
             Goto(t, "term.claim", [loc[t] EXCEPT !.prop = FailureProposal(j)])
      BY <2>1 DEF TerminalizeStage, SweepExpired
    <3> DEFINE l == [loc[t] EXCEPT !.prop = FailureProposal(j)]
    <3>2. l.prop = FailureProposal(j)
      BY <1>0 DEF Locals
    <3>3. Goto(t, "term.claim", l)
      BY <3>1
    <3> HIDE DEF l
    <3> QED BY <1>0, <3>2, <3>3, GotoMoves, FailureFindsNothing
  <2>2. CASE \E j \in JobIds : TerminalizeFailedJob(t, j)
    <3>1. PICK j \in JobIds : TerminalizeFailedJob(t, j)
      BY <2>2
    <3> DEFINE l == [NoLocals EXCEPT !.prop = FailureProposal(j)]
    <3>2. l.prop = FailureProposal(j)
      BY DEF NoLocals
    <3>3. pc' = [pc EXCEPT ![t] = "term.claim"] /\ loc' = [loc EXCEPT ![t] = l]
      BY <3>1 DEF TerminalizeFailedJob
    <3> HIDE DEF l
    <3> QED BY <1>0, <3>2, <3>3, FailureFindsNothing DEF ThreadTypeOK, OthersStay
  <2> QED BY <2>1, <2>2
<1>3. StageSound(t)'
  BY <1>2 DEF StageSound, Finds
<1> QED BY <1>1, <1>2, <1>3, MoveSound, VerdictStays

\* Reconciliation proposes COMPLETE only for what was fully read.
LEMMA ReconcileSound ==
    ASSUME IndInv, BackedInv, SoundInv, ReadingsStay, NEW t \in Threads, BeginReconcile(t)
    PROVE  SoundInv'
<1> DEFINE c == Reconcile(index, outs)
           l == [loc[t] EXCEPT !.prop = Proposal(DeriveStatus(c), c, job[t].pass)]
<1>0. ThreadTypeOK /\ loc[t] \in Locals /\ UNCHANGED <<terminal, persisted, index, outs>>
  BY DEF IndInv, TypeOK, ThreadTypeOK, BeginReconcile, store, outcome
<1>1. Indexed
  BY DEF BeginReconcile, Running, BackedInv, StageBacked, JobBacked, LateJob, Resolved, Planned
<1>2. Finish(t) \/ Goto(t, "claim", l)
  BY DEF BeginReconcile
<1>3. l.prop.status = DeriveStatus(c)
  BY <1>0 DEF Locals, Proposal
<1>4. Finds(l.prop) => FullyRead(outs)
  <2> HIDE DEF l
  <2> QED BY <1>3, CompleteMeansRead DEF Finds
<1> HIDE DEF l, c
<1>5. CASE Finish(t)
  <2>1. OthersStay(t) /\ pc'[t] \notin VerdictPcs
    BY <1>0, <1>5, FinishMoves DEF VerdictPcs, ClaimPcs
  <2> QED BY <1>0, <2>1, UndecidingSound DEF Undeciding
<1>6. CASE Goto(t, "claim", l)
  <2>1. OthersStay(t) /\ pc'[t] = "claim" /\ loc'[t] = l
    BY <1>0, <1>6, GotoMoves
  <2>2. StageSound(t)'
    BY <1>0, <1>1, <1>4, <2>1 DEF StageSound, Finds, FullyRead, Indexed
  <2> QED BY <1>0, <2>1, <2>2, MoveSound, VerdictStays
<1> QED BY <1>2, <1>5, <1>6

\* claimTerminal: the proposal becomes the tombstone only if there was none, and then nothing has
\* been published and no finalizer is at work.
LEMMA ClaimSound ==
    ASSUME IndInv, LifeInv, SoundInv, ReadingsStay, NEW t \in Threads, ClaimTerminal(t)
    PROVE  SoundInv'
<1>0. /\ ThreadTypeOK /\ UNCHANGED <<persisted, index, outs>>
      /\ terminal' = IF terminal = Open THEN loc[t].prop ELSE terminal
      /\ pc[t] \in ClaimPcs
  BY DEF IndInv, TypeOK, ClaimTerminal, outcome, ClaimPcs
<1>1. OthersStay(t) /\ pc'[t] \notin VerdictPcs
  BY <1>0, GotoMoves DEF ClaimTerminal, VerdictPcs, ClaimPcs
<1>2. CASE terminal # Open
  BY <1>0, <1>1, <1>2, UndecidingSound DEF Undeciding
<1>3. CASE terminal = Open
  <2>1. persisted.verdict = Open
    BY <1>3 DEF LifeInv, StoreLife
  <2>2. \A u \in Threads : pc[u] # "final.persist"
    BY <1>3, Kinds DEF IndInv, HandlerInv, FinalPcs
  <2>3. Finds(terminal') => Indexed /\ FullyRead(outs)
    BY <1>0, <1>3 DEF SoundInv, StageSound
  <2>4. VerdictSound'
    BY <1>0, <2>1, <2>3 DEF VerdictSound, Finds, Indexed, FullyRead
  <2>5. ASSUME NEW u \in Threads \ {t} PROVE StageSound(u)'
    BY <1>1, <2>2, OthersSound DEF OthersStay
  <2> QED BY <1>1, <2>4, <2>5, VerdictPcsFacts DEF SoundInv
<1> QED BY <1>2, <1>3

\* The finalizer loads the outcomes after the verdict, ...
LEMMA BeginFinalizeSound ==
    ASSUME IndInv, SoundInv, ReadingsStay, NEW t \in Threads, BeginFinalize(t)
    PROVE  SoundInv'
<1>0. ThreadTypeOK /\ loc[t] \in Locals /\ UNCHANGED <<terminal, persisted, index, outs>>
  BY DEF IndInv, TypeOK, ThreadTypeOK, BeginFinalize, store, outcome
<1> DEFINE l == [loc[t] EXCEPT !.view = outs]
<1>1. l.view = outs
  BY <1>0 DEF Locals
<1>2. Finish(t) \/ Goto(t, "final.release", loc[t]) \/ Goto(t, "final.persist", l)
  BY DEF BeginFinalize
<1> HIDE DEF l
<1>3. CASE Finish(t) \/ Goto(t, "final.release", loc[t])
  <2>1. OthersStay(t) /\ pc'[t] \notin VerdictPcs
    BY <1>0, <1>3, FinishMoves, GotoMoves DEF VerdictPcs, ClaimPcs
  <2> QED BY <1>0, <2>1, UndecidingSound DEF Undeciding
<1>4. CASE Goto(t, "final.persist", l)
  <2>1. OthersStay(t) /\ pc'[t] = "final.persist" /\ loc'[t] = l
    BY <1>0, <1>4, GotoMoves
  <2>2. Finds(terminal) => FullyRead(outs)
    BY DEF SoundInv, VerdictSound
  <2>3. StageSound(t)'
    BY <1>0, <1>1, <2>1, <2>2 DEF StageSound, Finds, FullyRead, ClaimPcs
  <2> QED BY <1>0, <2>1, <2>3, MoveSound, VerdictStays
<1> QED BY <1>2, <1>3, <1>4

\* ... and publishes them.
LEMMA PersistSound ==
    ASSUME IndInv, SoundInv, ReadingsStay, NEW t \in Threads, PersistSnapshot(t)
    PROVE  SoundInv'
<1>0. ThreadTypeOK /\ UNCHANGED <<terminal, index, outs>> /\ pc[t] = "final.persist"
  BY DEF IndInv, TypeOK, PersistSnapshot, store
<1>1. OthersStay(t) /\ pc'[t] \notin VerdictPcs
  BY <1>0, GotoMoves, RaiseMoves DEF PersistSnapshot, VerdictPcs, ClaimPcs
<1>2. persisted' \in {persisted, [verdict |-> terminal, outs |-> loc[t].view]}
  BY DEF PersistSnapshot
<1>3. VerdictSound'
  <2>1. CASE persisted' = persisted
    BY <1>0, <2>1, VerdictStays
  <2>2. CASE persisted' = [verdict |-> terminal, outs |-> loc[t].view]
    <3>1. Finds(terminal) => Indexed /\ FullyRead(outs) /\ FullyRead(loc[t].view)
      BY <1>0 DEF SoundInv, VerdictSound, StageSound
    <3>2. persisted'.outs = loc[t].view
      BY <2>2
    <3> QED BY <1>0, <3>1, <3>2 DEF VerdictSound, Finds, Indexed, FullyRead
  <2> QED BY <1>2, <2>1, <2>2
<1> QED BY <1>0, <1>1, <1>3, MoveSound, VerdictPcsFacts

LEMMA BackgroundStepSound ==
    ASSUME IndInv, SoundInv, ReadingsStay,
           \/ Prepare \/ Produce \/ DeadlinePasses \/ DeadLockExpires \/ OtherAcquires
           \/ OtherReleases \/ RedisLoss \/ RevokeConsent \/ CancelSnapshot
           \/ \E t \in Threads : LoseLock(t)
           \/ \E j \in JobIds : StallAlive(j) \/ Evict(j) \/ RetryFailedJob(j) \/ StalledCheck(j)
           \/ UNCHANGED vars
    PROVE  SoundInv'
<1>1. UNCHANGED <<pc, loc, persisted>>
  BY DEF Prepare, Produce, DeadlinePasses, DeadLockExpires, OtherAcquires, OtherReleases,
         RedisLoss, RevokeConsent, CancelSnapshot, LoseLock, StallAlive, Evict, RetryFailedJob,
         StalledCheck, vars, outcome, thread
<1>2. terminal' \in {terminal, Cancelled}
  BY DEF Prepare, Produce, DeadlinePasses, DeadLockExpires, OtherAcquires, OtherReleases,
         RedisLoss, RevokeConsent, CancelSnapshot, LoseLock, StallAlive, Evict, RetryFailedJob,
         StalledCheck, vars, store
<1>3. ~Finds(terminal') \/ terminal' = terminal
  BY <1>2, Kinds DEF Finds
<1>4. ASSUME NEW u \in Threads PROVE StageSound(u)'
  BY <1>1, <1>3, OthersSound
<1> QED BY <1>1, <1>3, <1>4, VerdictStays DEF SoundInv

-----------------------------------------------------------------------------
(* Every step, again. *)

\* Only the index stage writes the index, and it reads the same catalogue again.
LEMMA IndexStays ==
    ASSUME FixedCatalogue, BackedInv, [Next]_vars
    PROVE  Indexed => index' = index
<1>1. CASE QueueStep \/ UNCHANGED vars
  BY <1>1 DEF QueueStep, Fetch, TerminalizeFailedJob, RetryFailedJob, StalledCheck, ListEnvelope,
         vars, store
<1>2. CASE Environment
  BY <1>2 DEF Environment, Prepare, Produce, DeadlinePasses, DeadLockExpires, OtherAcquires,
         OtherReleases, RedisLoss, RevokeConsent, CancelSnapshot, Throw, Shutdown, Crash, LoseLock,
         StallAlive, Evict, store
<1>3. ASSUME NEW t \in Threads, HandlerStep(t) PROVE Indexed => index' = index
  <2>1. CASE PutIndex(t)
    BY <2>1 DEF PutIndex, BackedInv, StageBacked, FixedCatalogue, Indexed
  <2>2. CASE \/ ResumeFinalizer(t) \/ StartOverdue(t) \/ Complete(t) \/ RethrowStageError(t)
             \/ TerminalizeStage(t) \/ ClaimTerminal(t) \/ AnnounceTerminal(t) \/ MarkHandled(t)
             \/ AssertOverdue(t) \/ AssertStopped(t) \/ LockLost(t) \/ ConsentInactive(t)
             \/ BeginFinalize(t) \/ PersistSnapshot(t) \/ PutFinalProgress(t)
             \/ ReleaseSession(t) \/ ClearEnvelope(t)
             \/ SweepDecided(t) \/ SweepExpired(t) \/ SweepRestart(t) \/ SweepResume(t)
    BY <2>2 DEF ResumeFinalizer, StartOverdue, Complete, RethrowStageError, TerminalizeStage,
           ClaimTerminal, AnnounceTerminal, MarkHandled, AssertOverdue, AssertStopped, LockLost,
           ConsentInactive, BeginFinalize, PersistSnapshot, PutFinalProgress, ReleaseSession,
           ClearEnvelope, SweepDecided, SweepExpired, SweepRestart, SweepResume, store
  <2>3. CASE \/ BeginIndex(t) \/ ReadCatalogIndex(t) \/ IndexCheck(t) \/ IndexProgress(t)
             \/ IndexNext(t)
             \/ BeginPlan(t) \/ PutPassPlan(t) \/ PlanCheck(t) \/ PutProgress(t) \/ PlanNext(t)
             \/ BeginChunk(t) \/ DeferChunk(t) \/ DeferOverdue(t) \/ ReadReleases(t)
             \/ AllRead(t) \/ PutOutcomes(t) \/ ChunkCheck(t) \/ MarkChunkComplete(t)
             \/ ChunkTally(t) \/ ChunkNext(t)
             \/ BeginRetry(t) \/ RetryNext(t) \/ BeginReconcile(t)
    BY <2>3 DEF BeginIndex, ReadCatalogIndex, IndexCheck, IndexProgress, IndexNext, BeginPlan,
           PutPassPlan, PlanCheck, PutProgress, PlanNext, BeginChunk, DeferChunk, DeferOverdue,
           ReadReleases, AllRead, PutOutcomes, ChunkCheck, MarkChunkComplete, ChunkTally,
           ChunkNext, BeginRetry, RetryNext, BeginReconcile, store
  <2> QED BY <1>3, <2>1, <2>2, <2>3 DEF HandlerStep
<1> QED BY <1>1, <1>2, <1>3 DEF Next

LEMMA SoundInvInit == Init => SoundInv
<1> SUFFICES ASSUME Init PROVE SoundInv
  OBVIOUS
<1>1. ~Finds(terminal)
  BY Kinds DEF Init, Finds
<1>2. \A t \in Threads : pc[t] \notin ClaimPcs
  BY DEF Init, ClaimPcs
<1> QED BY <1>1, <1>2 DEF SoundInv, VerdictSound, StageSound

LEMMA SoundInvNext ==
    ASSUME LockKept, FixedCatalogue, ReadInv, LifeInv, BackedInv, SoundInv, [Next]_vars
    PROVE  SoundInv'
<1>1. IndInv /\ ThreadTypeOK /\ ReadingsStay
  BY ReadInvNext, IndexStays DEF ReadInv, IndInv, TypeOK, ReadingsStay
<1>2. ASSUME NEW t \in Threads, Undeciding(t) PROVE SoundInv'
  BY <1>1, <1>2, UndecidingSound
<1>3. CASE QueueStep
  <2>1. CASE \E t \in Threads, j \in JobIds : Fetch(t, j)
    <3>1. PICK t \in Threads : \E j \in JobIds : Fetch(t, j)
      BY <2>1
    <3>2. Undeciding(t)
      BY <1>1, <3>1 DEF Fetch, ThreadTypeOK, Undeciding, OthersStay, VerdictPcs, ClaimPcs, store,
             outcome
    <3> QED BY <1>2, <3>2
  <2>2. CASE \E t \in Threads, j \in JobIds : TerminalizeFailedJob(t, j)
    BY <1>1, <2>2, FailureProposalSound
  <2>3. CASE \E j \in JobIds : RetryFailedJob(j) \/ StalledCheck(j)
    BY <1>1, <2>3, BackgroundStepSound
  <2>4. CASE \E t \in Threads : ListEnvelope(t)
    BY <1>1, <1>2, <2>4, WrapperUndeciding
  <2> QED BY <1>3, <2>1, <2>2, <2>3, <2>4 DEF QueueStep
<1>4. CASE Environment
  BY <1>1, <1>2, <1>4, WrapperUndeciding, BackgroundStepSound DEF Environment
<1>5. ASSUME NEW t \in Threads, HandlerStep(t) PROVE SoundInv'
  <2>1. CASE Undeciding(t)
    BY <1>2, <2>1
  <2>2. CASE ~Undeciding(t)
    <3>1. \/ TerminalizeStage(t) \/ SweepExpired(t) \/ BeginReconcile(t) \/ ClaimTerminal(t)
          \/ BeginFinalize(t) \/ PersistSnapshot(t)
      BY <1>1, <1>5, <2>2, WrapperUndeciding, StageUndeciding DEF HandlerStep
    <3> QED BY <1>1, <3>1, FailureProposalSound, ReconcileSound, ClaimSound, BeginFinalizeSound,
               PersistSound
  <2> QED BY <2>1, <2>2
<1> QED BY <1>1, <1>3, <1>4, <1>5, BackgroundStepSound DEF Next

\* COMPLETE is never said of a release that was skipped, failed or only partly read: when no live
\* holder loses the account lock, a tombstone that says COMPLETE means that every release of the
\* index is fully read in the checkpoint and in what persistSnapshot published, whatever stages are
\* replayed, swept, stalled or crashed in between (deriveStatus, claimTerminal, persistSnapshot).
THEOREM CompleteSound ==
    ASSUME LockKept, FixedCatalogue
    PROVE  Spec => []CompleteVerdictSound
<1>1. SoundInv => CompleteVerdictSound
  BY DEF SoundInv, VerdictSound, Finds, FullyRead, CompleteStatuses, CompleteVerdictSound
<1>2. ReadInv => IndInv
  BY DEF ReadInv
<1>3. ReadInv /\ [Next]_vars => ReadInv'
  BY ReadInvNext
<1>4. IndInv /\ LifeInv /\ [Next]_vars => LifeInv'
  BY LifeInvNext
<1>5. IndInv /\ BackedInv /\ [Next]_vars => BackedInv'
  BY BackedInvNext
<1>6. ReadInv /\ LifeInv /\ BackedInv /\ SoundInv /\ [Next]_vars => SoundInv'
  BY SoundInvNext
<1> QED BY <1>1, <1>2, <1>3, <1>4, <1>5, <1>6, ReadInvInit, LifeInvInit, BackedInvInit, SoundInvInit,
           PTL DEF Spec

=============================================================================
