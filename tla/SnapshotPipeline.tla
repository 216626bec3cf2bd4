--------------------------- MODULE SnapshotPipeline ---------------------------
(***************************************************************************)
(* The durable DistroKid extraction pipeline of apps/worker for ONE        *)
(* snapshot: the six BullMQ stages (catalog index, plan chunks, release    *)
(* chunk, retry failed, reconcile, finalize), the wrapper that projects an *)
(* exhausted stage to FAILED, the failed-job sweep, the durable recovery   *)
(* sweep that rebuilds queue work from PostgreSQL, and the API producer.   *)
(*                                                                         *)
(* A handler is cut at its durable writes: one step reads the checkpoint   *)
(* and asserts that the snapshot may continue, a later step writes.  Every *)
(* other actor may run in between, so a check can be stale when its write  *)
(* lands.  An `assert; enqueue` pair is one step.                          *)
(***************************************************************************)
EXTENDS Completeness, Sequences

CONSTANTS
    Catalogues,    \* index readings: functions from release ids to announced track counts
    Readings,      \* outcomes one browser reading of a release may produce
    Position,      \* the order in which the catalogue lists the releases
    ChunkSize,     \* DISTROKID_RELEASE_CHUNK_SIZE
    MaxPass,       \* DISTROKID_MAX_ATTEMPTS, as the bound of extraction passes
    JobAttempts,   \* DISTROKID_MAX_ATTEMPTS, as BullMQ's attempts of one job
    Workers,       \* concurrent BullMQ processors
    Sweepers,      \* recovery sweeps (one per worker process)
    FaultKinds,    \* which faults the environment may inject
    MaxFaults,     \* bound: how many faults happen in one behaviour
    MaxDefers,     \* bound: deferrals of one chunk that are followed
    MaxConfirms    \* bound: calls of the API producer

Threads == Workers \cup Sweepers

AllFaults == {"throw", "crash", "stall", "evict", "redis", "lockLoss", "contend",
              "revoke", "cancel", "shutdown"}

ASSUME PipelineAssumption ==
    /\ IsFiniteSet(Releases)
    /\ \A c \in Catalogues : DOMAIN c \subseteq Releases /\ c \in [DOMAIN c -> Nat]
    /\ Readings \subseteq Outcome
    /\ Position \in [Releases -> Nat]
    /\ \A q, r \in Releases : Position[q] = Position[r] => q = r
    /\ ChunkSize \in Nat \ {0}
    /\ MaxPass \in Nat \ {0}
    /\ JobAttempts \in Nat \ {0}
    /\ FaultKinds \subseteq AllFaults
    /\ MaxFaults \in Nat /\ MaxDefers \in Nat /\ MaxConfirms \in Nat
    /\ Workers \cap Sweepers = {}
    /\ Threads \cap {"free", "other", "dead", "none"} = {}

Passes    == 1 .. MaxPass
MaxChunks == Cardinality(Releases)

-----------------------------------------------------------------------------
(* Queue identities.  A BullMQ job id names its stage, pass, chunk and      *)
(* deferral; an add under an id that still exists is dropped.               *)

JobId(stage, pass, chunk, defer) ==
    [stage |-> stage, pass |-> pass, chunk |-> chunk, defer |-> defer]

IndexJob         == JobId("index", 0, 0, 0)
PlanJob          == JobId("plan", 0, 0, 0)
ChunkJob(p, i, d) == JobId("chunk", p, i, d)
RetryJob(p)      == JobId("retry", p, 0, 0)
ReconcileJob(p)  == JobId("reconcile", p, 0, 0)
FinalizeJob(p)   == JobId("finalize", p, 0, 0)

JobIds ==
    {IndexJob, PlanJob}
      \cup {ChunkJob(p, i, d) : p \in Passes, i \in 1 .. MaxChunks, d \in 0 .. MaxDefers}
      \cup {RetryJob(p) : p \in 2 .. MaxPass}
      \cup {ReconcileJob(p) : p \in Passes}
      \cup {FinalizeJob(p) : p \in Passes}

NoJob == JobId("none", 0, 0, 0)

\* st is BullMQ's state, made its attemptsMade, stalls its stalledCounter, owner the processor that
\* holds the job's token, handled and shut the recovery markers, rel the payload's release ids.
JobRecord == [st : {"none", "waiting", "active", "completed", "failed"},
              made : 0 .. JobAttempts, stalls : 0 .. 1, owner : Threads \cup {"none"},
              handled : BOOLEAN, shut : BOOLEAN, rel : SUBSET Releases]

NotQueued == [st |-> "none", made |-> 0, stalls |-> 0, owner |-> "none",
              handled |-> FALSE, shut |-> FALSE, rel |-> {}]

-----------------------------------------------------------------------------
(* Durable values. *)

Progress == [status : SnapshotStatuses \cup {"NONE", "PLANNED", "RUNNING"},
             expected : Nat, completed : Nat, failed : Nat]

ProgressOf(status, c) ==
    [status |-> status, expected |-> c.expected, completed |-> c.completed, failed |-> c.failed]

NoProgress == ProgressOf("NONE", [expected |-> 0, completed |-> 0, failed |-> 0])

\* A terminal tombstone: none yet, an operator's cancellation, or the winning finalizer.
Open      == [kind |-> "OPEN"]
Cancelled == [kind |-> "CANCELLED"]
Verdict   == [kind : {"TERMINAL"}, status : SnapshotStatuses, pass : Passes,
              expected : Nat, completed : Nat, failed : Nat]

\* The finalizer that `status` proposes for what the checkpoint holds.
Proposal(status, c, pass) ==
    [kind |-> "TERMINAL", status |-> status, pass |-> pass,
     expected |-> c.expected, completed |-> c.completed, failed |-> c.failed]

EmptyIndex == [r \in {} |-> 0]
NoOutcomes == [r \in Releases |-> NoOutcome]

Plans == Seq(SUBSET Releases)

\* chunkReleases: consecutive slices of the ids, taken in the order of the index (a retry lists its
\* ids in another order; only the size of the chunks matters to the properties).
ChunkReleases(S) ==
    LET Rank(r) == Cardinality({q \in S : Position[q] < Position[r]})
    IN  [i \in 1 .. ((Cardinality(S) + ChunkSize - 1) \div ChunkSize) |->
            {r \in S : Rank(r) \div ChunkSize = i - 1}]

\* The first chunk of a plan that is not complete; 0 when there is none.
NextChunk(c, complete) ==
    IF DOMAIN c \subseteq complete THEN 0
    ELSE CHOOSE i \in DOMAIN c : i \notin complete /\ \A k \in DOMAIN c \ complete : i <= k

-----------------------------------------------------------------------------
VARIABLES
    \* PostgreSQL: DistroKidCheckpoint* tables and the recovery envelope
    index, outs, progress, plan, done, terminal, envelope,
    persisted,     \* what persistSnapshot published: the verdict and its outcomes
    session,       \* the remote Steel session: "live" or "released"
    \* Redis
    jobs,          \* BullMQ
    lock,          \* the account lock: "free", a thread, "other" snapshot, or a "dead" holder
    \* environment
    expired,       \* the wall-clock deadline has passed
    consent,       \* the principal's consent is active
    faults,        \* faults injected so far
    api,           \* the producer: calls made, and whether it is between prepare and add
    \* threads
    pc, job, loc

store   == <<index, outs, progress, plan, done, terminal>>
outcome == <<persisted, session, envelope>>
env     == <<expired, consent, faults, api>>
thread  == <<pc, job, loc>>
vars    == <<store, outcome, jobs, lock, env, thread>>

\* In-memory state of a handler.
Locals == [view : [Releases -> Outcome \cup {NoOutcome}],  \* `existing` of the chunk stage
           todo : SUBSET Releases,                         \* the payload's ids, then those to read
           got  : [Releases -> Outcome \cup {NoOutcome}],  \* outcomes extracted so far
           batch : SUBSET Releases,                        \* being checkpointed
           cat  : Catalogues \cup {EmptyIndex},            \* the index just read
           pl   : Plans, complete : SUBSET Nat,
           prog : Progress,                                \* progress row to write
           prop : Verdict \cup {Open},                     \* proposed verdict
           tries : 0 .. JobAttempts]                       \* attemptsMade when fetched

NoLocals == [view |-> NoOutcomes, todo |-> {}, got |-> NoOutcomes, batch |-> {},
             cat |-> EmptyIndex, pl |-> <<>>, complete |-> {}, prog |-> NoProgress,
             prop |-> Open, tries |-> 0]

IndexPcs == {"index.read", "index.put", "index.check", "index.progress", "index.next"}
ChunkPcs == {"chunk.read", "chunk.checkpoint", "chunk.put", "chunk.check", "chunk.mark",
             "chunk.tally", "chunk.progress", "chunk.next"}
LockedPcs == IndexPcs \cup ChunkPcs
PlanPcs  == {"plan.put", "plan.check", "plan.progress", "plan.next"}
RetryPcs == {"retry.put", "retry.next"}
TermPcs  == {"term.claim", "term.announce", "term.mark"}
FinalPcs == {"final.persist", "final.progress", "final.release", "final.clear"}
SweepPcs == {"sweep.listed", "cancel.release", "cancel.clear"}
PcSet    == {"idle", "start", "claim", "announce", "done", "threw", "fatal", "shutdown", "unconverged"}
              \cup LockedPcs \cup PlanPcs \cup RetryPcs \cup TermPcs \cup FinalPcs \cup SweepPcs

StoreTypeOK ==
    /\ index \in Catalogues \cup {EmptyIndex}
    /\ outs \in [Releases -> Outcome \cup {NoOutcome}]
    /\ progress \in Progress
    /\ plan \in [Passes -> Plans]
    /\ done \in [Passes -> SUBSET Nat]
    /\ terminal \in Verdict \cup {Open, Cancelled}

OutcomeTypeOK ==
    /\ persisted \in [verdict : Verdict \cup {Open},
                      outs : [Releases -> Outcome \cup {NoOutcome}]]
    /\ session \in {"live", "released"}
    /\ envelope \in BOOLEAN

QueueTypeOK ==
    /\ jobs \in [JobIds -> JobRecord]
    /\ lock \in Threads \cup {"free", "other", "dead"}

EnvTypeOK ==
    /\ expired \in BOOLEAN
    /\ consent \in BOOLEAN
    /\ faults \in 0 .. MaxFaults
    /\ api \in [calls : 0 .. MaxConfirms, preparing : BOOLEAN]

ThreadTypeOK ==
    /\ pc \in [Threads -> PcSet]
    /\ job \in [Threads -> JobIds \cup {NoJob}]
    /\ loc \in [Threads -> Locals]

TypeOK == StoreTypeOK /\ OutcomeTypeOK /\ QueueTypeOK /\ EnvTypeOK /\ ThreadTypeOK

Init ==
    /\ index = EmptyIndex
    /\ outs = NoOutcomes
    /\ progress = NoProgress
    /\ plan = [p \in Passes |-> <<>>]
    /\ done = [p \in Passes |-> {}]
    /\ terminal = Open
    /\ envelope = FALSE
    /\ persisted = [verdict |-> Open, outs |-> NoOutcomes]
    /\ session = "live"
    /\ jobs = [j \in JobIds |-> NotQueued]
    /\ lock = "free"
    /\ expired = FALSE
    /\ consent = TRUE
    /\ faults = 0
    /\ api = [calls |-> 0, preparing |-> FALSE]
    /\ pc = [t \in Threads |-> "idle"]
    /\ job = [t \in Threads |-> NoJob]
    /\ loc = [t \in Threads |-> NoLocals]

-----------------------------------------------------------------------------
(* Helpers. *)

\* Queue.add under an idempotent id: dropped while a job of that id exists in any state.
Enqueued(j, ids) ==
    IF jobs[j].st = "none"
    THEN [jobs EXCEPT ![j] = [NotQueued EXCEPT !.st = "waiting", !.rel = ids]]
    ELSE jobs

Enqueue(j) == jobs' = Enqueued(j, {})

EnqueueChunk(p, i, d, ids) == jobs' = Enqueued(ChunkJob(p, i, d), ids)

\* Continue a pass: the next incomplete chunk, or its reconciliation.
EnqueueNext(p, pl, complete) ==
    LET i == NextChunk(pl, complete)
    IN  IF i = 0 THEN Enqueue(ReconcileJob(p)) ELSE EnqueueChunk(p, i, 0, pl[i])

\* Thread t moves to `to` with the locals l.
Goto(t, to, l) ==
    /\ pc' = [pc EXCEPT ![t] = to]
    /\ loc' = [loc EXCEPT ![t] = l]
    /\ UNCHANGED job

\* Thread t ends: a sweep is over, a processor has nothing left to run.
Rest(t) ==
    /\ pc' = [pc EXCEPT ![t] = "idle"]
    /\ job' = [job EXCEPT ![t] = NoJob]
    /\ loc' = [loc EXCEPT ![t] = NoLocals]

\* The handler returns: BullMQ completes the job later; a sweep goes on to its next row.
Finish(t) == IF t \in Sweepers THEN Rest(t) ELSE Goto(t, "done", NoLocals)

\* The handler throws an error of class `how`; a sweep only counts the failure.
Raise(t, how) ==
    IF t \in Sweepers THEN Rest(t)
    ELSE Goto(t, how, [NoLocals EXCEPT !.tries = loc[t].tries])

Unlocked(t) == IF lock = t THEN "free" ELSE lock

Running(t, stage) == pc[t] = "start" /\ job[t].stage = stage

\* assertSnapshotCanContinue passes (and, at the start of a stage, resumeTerminalFinalizer finds no
\* tombstone and assertPipelineDeadline passes).
CanContinue == ~expired /\ terminal = Open

CountFault(kind) ==
    /\ kind \in FaultKinds
    /\ faults < MaxFaults
    /\ faults' = faults + 1

-----------------------------------------------------------------------------
(* The API producer: prepare the durable envelope, then add the index job. *)

\* Broken variant: the tombstone is not consulted.
PrepareUnrefused ==
    /\ ~api.preparing /\ api.calls < MaxConfirms
    /\ ~expired
    /\ envelope' = TRUE /\ api' = [calls |-> api.calls + 1, preparing |-> TRUE]
    /\ UNCHANGED <<store, persisted, session, jobs, lock, expired, consent, faults, thread>>

\* createDistroKidProducer.startSnapshot up to prepareJob; refused once terminal cleanup is done.
Prepare ==
    /\ ~api.preparing /\ api.calls < MaxConfirms
    /\ ~expired
    /\ IF envelope \/ terminal = Open
       THEN envelope' = TRUE /\ api' = [calls |-> api.calls + 1, preparing |-> TRUE]
       ELSE api' = [api EXCEPT !.calls = @ + 1] /\ UNCHANGED envelope
    /\ UNCHANGED <<store, persisted, session, jobs, lock, expired, consent, faults, thread>>

\* ... and index.add, or an exception because the original deadline has passed.
Produce ==
    /\ api.preparing
    /\ api' = [api EXCEPT !.preparing = FALSE]
    /\ IF expired THEN UNCHANGED jobs ELSE Enqueue(IndexJob)
    /\ UNCHANGED <<store, outcome, lock, expired, consent, faults, thread>>

-----------------------------------------------------------------------------
(* runPipelineStage. *)

\* A worker takes a waiting (or due delayed) job and holds its token.
Fetch(t, j) ==
    /\ t \in Workers /\ pc[t] = "idle"
    /\ jobs[j].st = "waiting"
    /\ jobs' = [jobs EXCEPT ![j].st = "active", ![j].owner = t]
    /\ pc' = [pc EXCEPT ![t] = "start"]
    /\ job' = [job EXCEPT ![t] = j]
    /\ loc' = [loc EXCEPT ![t] = [NoLocals EXCEPT !.tries = jobs[j].made, !.todo = jobs[j].rel]]
    /\ UNCHANGED <<store, outcome, lock, env>>

\* resumeTerminalFinalizer: a stage that finds the tombstone only re-enqueues its finalizer.
ResumeFinalizer(t) ==
    /\ pc[t] = "start" /\ job[t].stage # "finalize"
    /\ terminal # Open
    /\ IF terminal.kind = "TERMINAL" THEN Enqueue(FinalizeJob(terminal.pass)) ELSE UNCHANGED jobs
    /\ Goto(t, "done", NoLocals)
    /\ UNCHANGED <<store, outcome, lock, env>>

\* assertPipelineDeadline at the start of a stage.
StartOverdue(t) ==
    /\ pc[t] = "start" /\ job[t].stage # "finalize"
    /\ terminal = Open /\ expired
    /\ Raise(t, "fatal")
    /\ UNCHANGED <<store, outcome, jobs, lock, env>>

\* The processor returned: BullMQ moves the job to completed if this processor still owns it.
Complete(t) ==
    /\ pc[t] = "done"
    /\ IF jobs[job[t]].st = "active" /\ jobs[job[t]].owner = t
       THEN jobs' = [jobs EXCEPT ![job[t]].st = "completed", ![job[t]].owner = "none"]
       ELSE UNCHANGED jobs
    /\ Rest(t)
    /\ UNCHANGED <<store, outcome, lock, env>>

\* The processor threw: BullMQ counts the attempt and retries the job or moves it to failed.
Attempted(t, shut, handled) ==
    LET j == job[t]
        rec == [jobs[j] EXCEPT !.handled = @ \/ handled]
    IN  IF rec.st = "none" THEN jobs
        ELSE IF rec.st = "active" /\ rec.owner = t
        THEN [jobs EXCEPT ![j] =
                [rec EXCEPT !.owner = "none", !.shut = shut,
                            !.made = IF @ < JobAttempts THEN @ + 1 ELSE @,
                            !.st = IF rec.made + 1 >= JobAttempts THEN "failed" ELSE "waiting"]]
        ELSE [jobs EXCEPT ![j] = rec]

Exhausted(t) == loc[t].tries + 1 >= JobAttempts

\* The stage error is terminalized: a fatal deadline error at once, any other on the last attempt;
\* never a shutdown and never a finalizer.
MustTerminalize(t) ==
    /\ job[t].stage # "finalize"
    /\ pc[t] = "fatal" \/ (pc[t] = "threw" /\ Exhausted(t))

RethrowStageError(t) ==
    /\ pc[t] \in {"threw", "fatal", "shutdown", "unconverged"}
    /\ ~MustTerminalize(t)
    /\ jobs' = Attempted(t, pc[t] = "shutdown", FALSE)
    /\ Rest(t)
    /\ UNCHANGED <<store, outcome, lock, env>>

-----------------------------------------------------------------------------
(* terminalizeDistroKidFailure, from an exhausted stage or from a sweep. *)

\* Broken variant: the pass is read from payloads that carry none.
TerminalPassUnchecked(j) == j.pass

\* Only chunk, reconcile and finalize payloads carry a pass.
TerminalPass(j) == IF j.stage \in {"chunk", "reconcile"} THEN j.pass ELSE 1

FailureProposal(j) == Proposal("FAILED", Reconcile(index, outs), TerminalPass(j))

\* The checkpoint is read and the FAILED finalizer computed.
TerminalizeStage(t) ==
    /\ MustTerminalize(t)
    /\ Goto(t, "term.claim", [loc[t] EXCEPT !.prop = FailureProposal(job[t])])
    /\ UNCHANGED <<store, outcome, jobs, lock, env>>

\* Broken variant: the last writer wins.
ClaimTerminalLast(t) ==
    /\ pc[t] \in {"claim", "term.claim"}
    /\ terminal' = loc[t].prop
    /\ Goto(t, IF pc[t] = "claim" THEN "announce" ELSE "term.announce", loc[t])
    /\ UNCHANGED <<index, outs, progress, plan, done, outcome, jobs, lock, env>>

\* claimTerminal: the first writer wins.
ClaimTerminal(t) ==
    /\ pc[t] \in {"claim", "term.claim"}
    /\ terminal' = IF terminal = Open THEN loc[t].prop ELSE terminal
    /\ Goto(t, IF pc[t] = "claim" THEN "announce" ELSE "term.announce", loc[t])
    /\ UNCHANGED <<index, outs, progress, plan, done, outcome, jobs, lock, env>>

\* The winning finalizer is enqueued.
AnnounceTerminal(t) ==
    /\ pc[t] \in {"announce", "term.announce"}
    /\ IF terminal.kind = "TERMINAL" THEN Enqueue(FinalizeJob(terminal.pass)) ELSE UNCHANGED jobs
    /\ IF pc[t] = "announce" THEN Finish(t)
       ELSE IF job[t] = NoJob THEN Rest(t)
       ELSE Goto(t, "term.mark", loc[t])
    /\ UNCHANGED <<store, outcome, lock, env>>

\* markTerminalFailureHandled, and for a worker the rethrown stage error.
MarkHandled(t) ==
    /\ pc[t] = "term.mark"
    /\ jobs' = IF t \in Workers THEN Attempted(t, FALSE, TRUE)
               ELSE IF jobs[job[t]].st = "none" THEN jobs
               ELSE [jobs EXCEPT ![job[t]].handled = TRUE]
    /\ Rest(t)
    /\ UNCHANGED <<store, outcome, lock, env>>

-----------------------------------------------------------------------------
(* Assertions between two writes (assertSnapshotCanContinue). *)

\* The releases of the chunk that are still to be read.
Unread(t) == {r \in loc[t].todo : loc[t].got[r] = NoOutcome}

\* Where a handler is about to assert.  The planner asserts before writing progress only when a
\* progress row exists, and before queueing only when a chunk is left; its assertion before writing
\* a plan may pass or fail, depending on when it reads the tombstone.
AtAssert(t) ==
    \/ pc[t] \in {"index.read", "index.check", "index.next", "chunk.read", "chunk.check",
                  "chunk.next", "plan.put", "retry.put", "retry.next"}
    \/ pc[t] \in {"plan.check", "chunk.tally"} /\ progress # NoProgress
    \/ pc[t] = "plan.next" /\ NextChunk(loc[t].pl, loc[t].complete) # 0

\* The deadline is tested first: PipelineDeadlineExceededError ends the stage.
AssertOverdue(t) ==
    /\ AtAssert(t) /\ expired
    /\ Raise(t, "fatal")
    /\ lock' = Unlocked(t)
    /\ UNCHANGED <<store, outcome, jobs, env>>

\* SnapshotStoppedError: the browser stages catch it and return, the others fail the attempt.
AssertStopped(t) ==
    /\ AtAssert(t) /\ ~expired /\ terminal # Open
    /\ IF pc[t] \in LockedPcs THEN Finish(t) ELSE Raise(t, "threw")
    /\ lock' = Unlocked(t)
    /\ UNCHANGED <<store, outcome, jobs, env>>

\* The heartbeat has noticed that the lock is gone: LockLostError.
LockLost(t) ==
    /\ AtAssert(t) /\ pc[t] \in LockedPcs
    /\ lock # t
    /\ Raise(t, "threw")
    /\ UNCHANGED <<store, outcome, jobs, lock, env>>

\* assertConsentActive before browser work: the stage throws.
ConsentInactive(t) ==
    /\ pc[t] = "index.read" \/ (pc[t] = "chunk.read" /\ Unread(t) # {})
    /\ ~consent
    /\ Raise(t, "threw")
    /\ lock' = Unlocked(t)
    /\ UNCHANGED <<store, outcome, jobs, env>>

-----------------------------------------------------------------------------
(* 1. extractDistroKidCatalogIndex *)

BeginIndex(t) ==
    /\ Running(t, "index") /\ CanContinue
    /\ IF lock = "free"
       THEN lock' = t /\ Goto(t, "index.read", loc[t])
       ELSE Raise(t, "threw") /\ UNCHANGED lock     \* AccountLockUnavailableError
    /\ UNCHANGED <<store, outcome, jobs, env>>

ReadCatalogIndex(t) ==
    /\ pc[t] = "index.read" /\ CanContinue /\ consent
    /\ \E c \in Catalogues : Goto(t, "index.put", [loc[t] EXCEPT !.cat = c])
    /\ UNCHANGED <<store, outcome, jobs, lock, env>>

PutIndex(t) ==
    /\ pc[t] = "index.put"
    /\ index' = loc[t].cat
    /\ Goto(t, "index.check", loc[t])
    /\ UNCHANGED <<outs, progress, plan, done, terminal, outcome, jobs, lock, env>>

IndexCheck(t) ==
    /\ pc[t] = "index.check" /\ CanContinue
    /\ Goto(t, "index.progress", loc[t])
    /\ UNCHANGED <<store, outcome, jobs, lock, env>>

IndexProgress(t) ==
    /\ pc[t] = "index.progress"
    /\ progress' = [NoProgress EXCEPT !.status = "PLANNED",
                                      !.expected = Cardinality(DOMAIN loc[t].cat)]
    /\ Goto(t, "index.next", loc[t])
    /\ UNCHANGED <<index, outs, plan, done, terminal, outcome, jobs, lock, env>>

IndexNext(t) ==
    /\ pc[t] = "index.next" /\ CanContinue
    /\ Enqueue(PlanJob)
    /\ lock' = Unlocked(t)
    /\ Finish(t)
    /\ UNCHANGED <<store, outcome, env>>

-----------------------------------------------------------------------------
(* 2. planDistroKidReleaseChunks, as a job or called by the durable sweep. *)

\* The planner reads the index, the completed chunks and the plan of pass 1.
PlanFrom(t) ==
    IF plan[1] = <<>>
    THEN Goto(t, "plan.put", [loc[t] EXCEPT !.pl = ChunkReleases(DOMAIN index),
                                            !.complete = done[1]])
    ELSE Goto(t, "plan.check", [loc[t] EXCEPT !.pl = plan[1], !.complete = done[1]])

BeginPlan(t) ==
    /\ Running(t, "plan") /\ CanContinue
    /\ PlanFrom(t)
    /\ UNCHANGED <<store, outcome, jobs, lock, env>>

PutPassPlan(t) ==
    /\ pc[t] \in {"plan.put", "retry.put"}
    /\ plan' = [plan EXCEPT ![IF pc[t] = "plan.put" THEN 1 ELSE job[t].pass] = loc[t].pl]
    /\ Goto(t, IF pc[t] = "plan.put" THEN "plan.check" ELSE "retry.next", loc[t])
    /\ UNCHANGED <<index, outs, progress, done, terminal, outcome, jobs, lock, env>>

PlanCheck(t) ==
    /\ pc[t] = "plan.check"
    /\ IF progress = NoProgress
       THEN Goto(t, "plan.next", loc[t])
       ELSE /\ CanContinue
            /\ Goto(t, "plan.progress", [loc[t] EXCEPT !.prog = [progress EXCEPT !.status = "RUNNING"]])
    /\ UNCHANGED <<store, outcome, jobs, lock, env>>

\* The progress row prepared from an earlier read is written (also by the chunk stage).
PutProgress(t) ==
    /\ pc[t] \in {"plan.progress", "chunk.progress"}
    /\ progress' = loc[t].prog
    /\ Goto(t, IF pc[t] = "plan.progress" THEN "plan.next" ELSE "chunk.next", loc[t])
    /\ UNCHANGED <<index, outs, plan, done, terminal, outcome, jobs, lock, env>>

PlanNext(t) ==
    /\ pc[t] = "plan.next"
    /\ NextChunk(loc[t].pl, loc[t].complete) # 0 => CanContinue
    /\ EnqueueNext(1, loc[t].pl, loc[t].complete)
    /\ Finish(t)
    /\ UNCHANGED <<store, outcome, lock, env>>

-----------------------------------------------------------------------------
(* 3. extractDistroKidReleaseChunk *)

\* Broken variant: the chunk does not wait for the account lock.
BeginChunkUnlocked(t) ==
    /\ Running(t, "chunk") /\ CanContinue
    /\ lock' = t
    /\ Goto(t, "chunk.read",
            [loc[t] EXCEPT !.view = outs,
                           !.todo = {r \in loc[t].todo \cap DOMAIN index :
                                        ~FullyComplete(outs[r])}])
    /\ UNCHANGED <<store, outcome, jobs, env>>

\* Under the account lock: `existing` is loaded once and every fully complete release skipped.
BeginChunk(t) ==
    /\ Running(t, "chunk") /\ CanContinue
    /\ lock = "free"
    /\ lock' = t
    /\ Goto(t, "chunk.read",
            [loc[t] EXCEPT !.view = outs,
                           !.todo = {r \in loc[t].todo \cap DOMAIN index :
                                        ~FullyComplete(outs[r])}])
    /\ UNCHANGED <<store, outcome, jobs, env>>

\* Another holder has the account: the chunk is re-queued under a fresh id ...
DeferChunk(t) ==
    /\ Running(t, "chunk") /\ CanContinue
    /\ lock # "free"
    /\ job[t].defer < MaxDefers
    /\ EnqueueChunk(job[t].pass, job[t].chunk, job[t].defer + 1, loc[t].todo)
    /\ Finish(t)
    /\ UNCHANGED <<store, outcome, lock, env>>

\* ... unless the backoff would outlast the deadline.
DeferOverdue(t) ==
    /\ Running(t, "chunk") /\ CanContinue
    /\ lock # "free"
    /\ Raise(t, "fatal")
    /\ UNCHANGED <<store, outcome, jobs, lock, env>>

\* The tab pool reads a batch of releases; every release gets some outcome.
ReadReleases(t) ==
    /\ pc[t] = "chunk.read" /\ CanContinue /\ consent
    /\ \E b \in SUBSET Unread(t) \ {{}} : \E reading \in [b -> Readings] :
          Goto(t, "chunk.checkpoint",
               [loc[t] EXCEPT !.batch = b,
                              !.got = [r \in Releases |-> IF r \in b THEN reading[r] ELSE @[r]]])
    /\ UNCHANGED <<store, outcome, jobs, lock, env>>

\* Broken variant: the chunk ends before every release was read.
AllReadEarly(t) ==
    /\ pc[t] = "chunk.read" /\ CanContinue
    /\ Goto(t, "chunk.put", loc[t])
    /\ UNCHANGED <<store, outcome, jobs, lock, env>>

AllRead(t) ==
    /\ pc[t] = "chunk.read" /\ CanContinue
    /\ Unread(t) = {}
    /\ Goto(t, "chunk.put", loc[t])
    /\ UNCHANGED <<store, outcome, jobs, lock, env>>

\* converge: every outcome of b is merged into `existing` and the merged ones are written.
Converged(t, b) ==
    [r \in Releases |-> IF r \in b THEN Converge(loc[t].view[r], loc[t].got[r]) ELSE loc[t].view[r]]

\* putOutcomes: an upsert of the releases of b only.
PutOutcomes(t) ==
    LET b == IF pc[t] = "chunk.checkpoint" THEN loc[t].batch ELSE loc[t].todo
        merged == Converged(t, b)
    IN  /\ pc[t] \in {"chunk.checkpoint", "chunk.put"}
        /\ outs' = [r \in Releases |-> IF r \in b THEN merged[r] ELSE outs[r]]
        /\ Goto(t, IF pc[t] = "chunk.checkpoint" THEN "chunk.read" ELSE "chunk.check",
                [loc[t] EXCEPT !.view = merged, !.batch = {}])
        /\ UNCHANGED <<index, progress, plan, done, terminal, outcome, jobs, lock, env>>

ChunkCheck(t) ==
    /\ pc[t] = "chunk.check" /\ CanContinue
    /\ Goto(t, "chunk.mark", loc[t])
    /\ UNCHANGED <<store, outcome, jobs, lock, env>>

MarkChunkComplete(t) ==
    /\ pc[t] = "chunk.mark"
    /\ done' = [done EXCEPT ![job[t].pass] = @ \cup {job[t].chunk}]
    /\ Goto(t, "chunk.tally", loc[t])
    /\ UNCHANGED <<index, outs, progress, plan, terminal, outcome, jobs, lock, env>>

ChunkTally(t) ==
    LET read == [loc[t] EXCEPT !.complete = done[job[t].pass]]
    IN  /\ pc[t] = "chunk.tally"
        /\ IF progress = NoProgress
           THEN Goto(t, "chunk.next", read)
           ELSE /\ CanContinue
                /\ Goto(t, "chunk.progress",
                        [read EXCEPT !.prog = [progress EXCEPT
                                                 !.completed = Cardinality(CompletedIds(outs)),
                                                 !.failed = Cardinality(FailedIds(outs))]])
        /\ UNCHANGED <<store, outcome, jobs, lock, env>>

ChunkNext(t) ==
    /\ pc[t] = "chunk.next" /\ CanContinue
    /\ EnqueueNext(job[t].pass, plan[job[t].pass], loc[t].complete)
    /\ lock' = Unlocked(t)
    /\ Finish(t)
    /\ UNCHANGED <<store, outcome, env>>

-----------------------------------------------------------------------------
(* 4. retryFailedDistroKidReleases *)

BeginRetry(t) ==
    LET p   == job[t].pass
        ids == RetryableReleaseIds(index, outs)
    IN  /\ Running(t, "retry") /\ CanContinue
        /\ IF ids = {}
           THEN Enqueue(ReconcileJob(p)) /\ Finish(t)
           ELSE /\ IF plan[p] = <<>>
                   THEN Goto(t, "retry.put", [loc[t] EXCEPT !.pl = ChunkReleases(ids)])
                   ELSE Goto(t, "retry.next", [loc[t] EXCEPT !.pl = plan[p]])
                /\ UNCHANGED jobs
        /\ UNCHANGED <<store, outcome, lock, env>>

RetryNext(t) ==
    /\ pc[t] = "retry.next" /\ CanContinue
    /\ EnqueueNext(job[t].pass, loc[t].pl, done[job[t].pass])
    /\ Finish(t)
    /\ UNCHANGED <<store, outcome, lock, env>>

-----------------------------------------------------------------------------
(* 5. reconcileDistroKidSnapshot *)

BeginReconcile(t) ==
    LET p      == job[t].pass
        c      == Reconcile(index, outs)
        status == DeriveStatus(c)
    IN  /\ Running(t, "reconcile") /\ CanContinue
        /\ IF status = "PARTIAL_RETRYABLE" /\ p < MaxPass
           THEN Enqueue(RetryJob(p + 1)) /\ Finish(t)
           ELSE /\ Goto(t, "claim", [loc[t] EXCEPT !.prop = Proposal(status, c, p)])
                /\ UNCHANGED jobs
        /\ UNCHANGED <<store, outcome, lock, env>>

-----------------------------------------------------------------------------
(* 6. finalizeDistroKidSnapshot *)

\* The row the finalizer writes, and the row by which a later attempt knows it was written.
FinalProgress(v) == ProgressOf(v.status, v)

\* The tombstone decides; the job's own payload never replaces it.
BeginFinalize(t) ==
    /\ Running(t, "finalize")
    /\ IF terminal.kind # "TERMINAL" THEN Finish(t)
       ELSE IF progress = FinalProgress(terminal) THEN Goto(t, "final.release", loc[t])
       ELSE Goto(t, "final.persist", [loc[t] EXCEPT !.view = outs])
    /\ UNCHANGED <<store, outcome, jobs, lock, env>>

\* Broken variant: a refused publication is ignored.
PersistSnapshotUnlessRefused(t) ==
    /\ pc[t] = "final.persist"
    /\ persisted' = IF consent THEN [verdict |-> terminal, outs |-> loc[t].view] ELSE persisted
    /\ Goto(t, "final.progress", loc[t])
    /\ UNCHANGED <<store, session, envelope, jobs, lock, env>>

\* persistSnapshot publishes the outcomes, or refuses when the consent binding is no longer valid.
PersistSnapshot(t) ==
    /\ pc[t] = "final.persist"
    /\ IF consent
       THEN /\ persisted' = [verdict |-> terminal, outs |-> loc[t].view]
            /\ Goto(t, "final.progress", loc[t])
       ELSE Raise(t, "threw") /\ UNCHANGED persisted
    /\ UNCHANGED <<store, session, envelope, jobs, lock, env>>

PutFinalProgress(t) ==
    /\ pc[t] = "final.progress"
    /\ progress' = FinalProgress(terminal)
    /\ Goto(t, "final.release", loc[t])
    /\ UNCHANGED <<index, outs, plan, done, terminal, outcome, jobs, lock, env>>

\* releaseSession: the remote release first, ...
ReleaseSession(t) ==
    /\ pc[t] \in {"final.release", "cancel.release"}
    /\ session' = "released"
    /\ Goto(t, IF pc[t] = "final.release" THEN "final.clear" ELSE "cancel.clear", loc[t])
    /\ UNCHANGED <<store, persisted, envelope, jobs, lock, env>>

\* ... then the recovery envelope.
ClearEnvelope(t) ==
    /\ pc[t] \in {"final.clear", "cancel.clear"}
    /\ envelope' = FALSE
    /\ Finish(t)
    /\ UNCHANGED <<store, persisted, session, jobs, lock, env>>

-----------------------------------------------------------------------------
(* recoverFailedDistroKidJobs: the sweep over BullMQ's failed sets. *)

\* Broken variant: only a shutdown is retried.
RetryShutdownsOnly(j) ==
    /\ jobs[j].st = "failed"
    /\ jobs[j].shut
    /\ jobs' = [jobs EXCEPT ![j] = [@ EXCEPT !.st = "waiting", !.shut = FALSE]]
    /\ UNCHANGED <<store, outcome, lock, env, thread>>

\* A failed finalizer, and any job failed by a shutdown, goes back to waiting.
RetryFailedJob(j) ==
    /\ jobs[j].st = "failed"
    /\ jobs[j].shut \/ j.stage = "finalize"
    /\ jobs' = [jobs EXCEPT ![j] = [@ EXCEPT !.st = "waiting", !.shut = FALSE]]
    /\ UNCHANGED <<store, outcome, lock, env, thread>>

\* Any other failed job whose failure was not projected yet is terminalized.
TerminalizeFailedJob(t, j) ==
    /\ t \in Sweepers /\ pc[t] = "idle"
    /\ jobs[j].st = "failed"
    /\ ~jobs[j].shut /\ j.stage # "finalize" /\ ~jobs[j].handled
    /\ pc' = [pc EXCEPT ![t] = "term.claim"]
    /\ job' = [job EXCEPT ![t] = j]
    /\ loc' = [loc EXCEPT ![t] = [NoLocals EXCEPT !.prop = FailureProposal(j)]]
    /\ UNCHANGED <<store, outcome, jobs, lock, env>>

-----------------------------------------------------------------------------
(* recoverDurableDistroKidSnapshots: the sweep over recovery envelopes, run *)
(* for live snapshots as well.                                              *)

ListEnvelope(t) ==
    /\ t \in Sweepers /\ pc[t] = "idle"
    /\ envelope
    /\ Goto(t, "sweep.listed", loc[t])
    /\ UNCHANGED <<store, outcome, jobs, lock, env>>

\* Broken variant: a decided snapshot is left to its finalizer.
SweepSkipsDecided(t) ==
    /\ pc[t] = "sweep.listed"
    /\ terminal # Open
    /\ Rest(t)
    /\ UNCHANGED <<store, outcome, jobs, lock, env>>

\* A decided snapshot: re-enqueue its finalizer, or release a cancelled one.
SweepDecided(t) ==
    /\ pc[t] = "sweep.listed"
    /\ terminal # Open
    /\ IF terminal.kind = "TERMINAL"
       THEN Enqueue(FinalizeJob(terminal.pass)) /\ Rest(t)
       ELSE Goto(t, "cancel.release", loc[t]) /\ UNCHANGED jobs
    /\ UNCHANGED <<store, outcome, lock, env>>

\* An exhausted lease is terminalized.
SweepExpired(t) ==
    /\ pc[t] = "sweep.listed"
    /\ terminal = Open /\ expired
    /\ Goto(t, "term.claim", [loc[t] EXCEPT !.prop = FailureProposal(NoJob)])
    /\ UNCHANGED <<store, outcome, jobs, lock, env>>

\* No index checkpoint yet: queue the index stage again.
SweepRestart(t) ==
    /\ pc[t] = "sweep.listed" /\ CanContinue
    /\ DOMAIN index = {} /\ progress = NoProgress
    /\ Enqueue(IndexJob)
    /\ Rest(t)
    /\ UNCHANGED <<store, outcome, lock, env>>

\* Otherwise the planner runs in the sweep itself.
SweepResume(t) ==
    /\ pc[t] = "sweep.listed" /\ CanContinue
    /\ DOMAIN index # {} \/ progress # NoProgress
    /\ PlanFrom(t)
    /\ UNCHANGED <<store, outcome, jobs, lock, env>>

-----------------------------------------------------------------------------
(* The environment. *)

DeadlinePasses ==
    /\ envelope /\ ~expired
    /\ expired' = TRUE
    /\ UNCHANGED <<store, outcome, jobs, lock, consent, faults, api, thread>>

\* A store, Redis or browser call of a handler throws.  The first call of all, the look for a
\* tombstone in front of the try block, fails the attempt without terminalizing it.
Throw(t) ==
    /\ CountFault("throw")
    /\ pc[t] \notin {"idle", "done", "threw", "fatal", "shutdown", "unconverged"}
    /\ \/ Raise(t, IF pc[t] \in TermPcs THEN "unconverged" ELSE "threw")
       \/ pc[t] = "start" /\ Raise(t, "unconverged")
    /\ lock' = Unlocked(t)
    /\ UNCHANGED <<store, outcome, jobs, expired, consent, api>>

\* Graceful shutdown aborts browser work; it is an ownership transfer, not a failure.
Shutdown(t) ==
    /\ CountFault("shutdown")
    /\ AtAssert(t) /\ pc[t] \in LockedPcs
    /\ Raise(t, "shutdown")
    /\ lock' = Unlocked(t)
    /\ UNCHANGED <<store, outcome, jobs, expired, consent, api>>

\* The process dies between two steps; the account lock outlives it.
Crash(t) ==
    /\ CountFault("crash")
    /\ pc[t] # "idle"
    /\ Rest(t)
    /\ lock' = IF lock = t THEN "dead" ELSE lock
    /\ UNCHANGED <<store, outcome, jobs, expired, consent, api>>

Owned(j) == \E t \in Workers : job[t] = j /\ jobs[j].owner = t

\* BullMQ's stalled check takes an unowned active job back once, and fails it the second time.
Stalled(j) ==
    [jobs EXCEPT ![j] =
        IF jobs[j].stalls = 0
        THEN [@ EXCEPT !.owner = "none", !.stalls = 1, !.st = "waiting"]
        ELSE [@ EXCEPT !.owner = "none", !.shut = FALSE, !.st = "failed"]]

StalledCheck(j) ==
    /\ jobs[j].st = "active" /\ ~Owned(j)
    /\ jobs' = Stalled(j)
    /\ UNCHANGED <<store, outcome, lock, env, thread>>

\* The processor is alive but missed its lock renewal: it keeps running without the token.
StallAlive(j) ==
    /\ CountFault("stall")
    /\ jobs[j].st = "active" /\ Owned(j)
    /\ jobs' = Stalled(j)
    /\ UNCHANGED <<store, outcome, lock, expired, consent, api, thread>>

\* Retention (removeOnComplete, removeOnFail, clean) deletes a finished job.
Evict(j) ==
    /\ CountFault("evict")
    /\ jobs[j].st \in {"completed", "failed"}
    /\ jobs' = [jobs EXCEPT ![j] = NotQueued]
    /\ UNCHANGED <<store, outcome, lock, expired, consent, api, thread>>

\* Total Redis loss: every queue entry and the account lock are gone, processes keep running.
RedisLoss ==
    /\ CountFault("redis")
    /\ jobs' = [j \in JobIds |-> NotQueued]
    /\ lock' = "free"
    /\ UNCHANGED <<store, outcome, expired, consent, api, thread>>

\* The lock's TTL lapses while its holder still works.
LoseLock(t) ==
    /\ CountFault("lockLoss")
    /\ lock = t
    /\ lock' = "free"
    /\ UNCHANGED <<store, outcome, jobs, expired, consent, api, thread>>

DeadLockExpires ==
    /\ lock = "dead"
    /\ lock' = "free"
    /\ UNCHANGED <<store, outcome, jobs, env, thread>>

\* Another snapshot of the same account takes and gives back the lock.
OtherAcquires ==
    /\ CountFault("contend")
    /\ lock = "free"
    /\ lock' = "other"
    /\ UNCHANGED <<store, outcome, jobs, expired, consent, api, thread>>

OtherReleases ==
    /\ lock = "other"
    /\ lock' = "free"
    /\ UNCHANGED <<store, outcome, jobs, env, thread>>

\* The user revokes the consent (or it lapses).
RevokeConsent ==
    /\ CountFault("revoke")
    /\ consent
    /\ consent' = FALSE
    /\ UNCHANGED <<store, outcome, jobs, lock, expired, api, thread>>

\* cancelDistroKidSnapshot, called by an operator.
CancelSnapshot ==
    /\ CountFault("cancel")
    /\ envelope /\ terminal = Open
    /\ terminal' = Cancelled
    /\ UNCHANGED <<index, outs, progress, plan, done, outcome, jobs, lock, expired, consent, api, thread>>

-----------------------------------------------------------------------------
(* The specification. *)

\* A step of the code of thread t once it runs.
HandlerStep(t) ==
    \/ ResumeFinalizer(t) \/ StartOverdue(t) \/ Complete(t) \/ RethrowStageError(t)
    \/ TerminalizeStage(t) \/ ClaimTerminal(t) \/ AnnounceTerminal(t) \/ MarkHandled(t)
    \/ AssertOverdue(t) \/ AssertStopped(t) \/ LockLost(t) \/ ConsentInactive(t)
    \/ BeginIndex(t) \/ ReadCatalogIndex(t) \/ PutIndex(t) \/ IndexCheck(t)
    \/ IndexProgress(t) \/ IndexNext(t)
    \/ BeginPlan(t) \/ PutPassPlan(t) \/ PlanCheck(t) \/ PutProgress(t) \/ PlanNext(t)
    \/ BeginChunk(t) \/ DeferChunk(t) \/ DeferOverdue(t) \/ ReadReleases(t) \/ AllRead(t)
    \/ PutOutcomes(t) \/ ChunkCheck(t) \/ MarkChunkComplete(t) \/ ChunkTally(t) \/ ChunkNext(t)
    \/ BeginRetry(t) \/ RetryNext(t)
    \/ BeginReconcile(t)
    \/ BeginFinalize(t) \/ PersistSnapshot(t) \/ PutFinalProgress(t)
    \/ ReleaseSession(t) \/ ClearEnvelope(t)
    \/ SweepDecided(t) \/ SweepExpired(t) \/ SweepRestart(t) \/ SweepResume(t)

QueueStep ==
    \/ \E t \in Threads, j \in JobIds : Fetch(t, j) \/ TerminalizeFailedJob(t, j)
    \/ \E j \in JobIds : RetryFailedJob(j) \/ StalledCheck(j)
    \/ \E t \in Threads : ListEnvelope(t)

Environment ==
    \/ Prepare \/ Produce
    \/ DeadlinePasses \/ DeadLockExpires \/ OtherAcquires \/ OtherReleases
    \/ RedisLoss \/ RevokeConsent \/ CancelSnapshot
    \/ \E t \in Threads : Throw(t) \/ Shutdown(t) \/ Crash(t) \/ LoseLock(t)
    \/ \E j \in JobIds : StallAlive(j) \/ Evict(j)

Next == QueueStep \/ Environment \/ \E t \in Threads : HandlerStep(t)

Spec == Init /\ [][Next]_vars

\* What happens to job j without a processor: delivery, the stalled check, the failed-job sweep.
\* Its state enables at most one of them.
JobStep(j) == (\E t \in Workers : Fetch(t, j)) \/ StalledCheck(j) \/ RetryFailedJob(j)

\* Handlers run on, queues deliver, timers and TTLs fire and sweeps come round; only the faults,
\* the API calls and other users of the account are left to chance.
Fairness ==
    /\ \A t \in Workers : WF_vars(HandlerStep(t))
    /\ \A t \in Sweepers : WF_vars(ListEnvelope(t) \/ HandlerStep(t))
    /\ \A j \in JobIds : WF_vars(JobStep(j))
    /\ WF_vars(DeadlinePasses)
    /\ WF_vars(DeadLockExpires \/ OtherReleases)

FairSpec == Spec /\ Fairness

-----------------------------------------------------------------------------
(* Properties. *)

\* The abstract life of a snapshot: its verdict, its publication, its session and the authority to
\* recover it.
Lifecycle == INSTANCE SnapshotLifecycle
    WITH Verdicts <- Verdict, verdict <- terminal, published <- persisted.verdict,
         authority <- envelope

\* The pipeline implements that life: first claimTerminal wins, finalizers publish only the winner,
\* sessions outlive publication and envelopes outlive sessions.
LifecycleSpec == Lifecycle!Spec

\* At most one browser reads the account at a time (underAccountLock).
NoConcurrentReads ==
    \A t, u \in Threads : pc[t] \in LockedPcs /\ pc[u] \in LockedPcs => t = u

\* No step takes back a completed release, nor a release whose fields were all captured: not a
\* failed retry, a stalled processor's late checkpoint or a resumed sweep (converge in the chunk
\* stage, under the account lock).
CompletedNeverErased ==
    [][\A r \in Releases :
          outs[r].kind = "COMPLETED" =>
              /\ outs'[r].kind = "COMPLETED"
              /\ FullyComplete(outs[r]) => FullyComplete(outs'[r])]_vars

\* A chunk is marked complete only when each of its indexed releases has a checkpointed outcome, so
\* a resume that skips it loses nothing (markChunkComplete after putOutcomes).
MarkedChunksAccounted ==
    \A p \in Passes : \A i \in done[p] \cap DOMAIN plan[p] :
        \A r \in plan[p][i] \cap DOMAIN index : outs[r] # NoOutcome

\* A snapshot is called COMPLETE only if every release of the index was fully read, both in the
\* checkpoint and in what was published.
CompleteVerdictSound ==
    (terminal.kind = "TERMINAL" /\ terminal.status \in {"COMPLETE", "COMPLETE_WITH_SOURCE_GAPS"}) =>
        \A r \in DOMAIN index :
            /\ FullyComplete(outs[r])
            /\ persisted.verdict # Open => FullyComplete(persisted.outs[r])

\* Once its finalizer has completed, the snapshot's progress row shows the verdict's status.
ProgressEndsTerminal ==
    \A p \in Passes :
        (jobs[FinalizeJob(p)].st = "completed" /\ terminal.kind = "TERMINAL") =>
            progress.status = terminal.status

\* Every accepted scan ends: its session is released and its recovery authority cleared.
EveryScanSettles == envelope ~> (~envelope /\ session = "released")
=============================================================================
