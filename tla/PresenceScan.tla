----------------------------- MODULE PresenceScan -----------------------------
(***************************************************************************)
(* Store-presence verification of search records: the API routes that      *)
(* create, check, rescan, review and delete a record (apps/api/src/app.ts),*)
(* the presence queue (queue-client/src/scan-queues.ts), the worker that   *)
(* verifies one store after the other in resumable chunks                  *)
(* (apps/worker/src/deep-scan-presence.ts) and the projection of a         *)
(* finalized snapshot into the record (distrokid/finalize-result.ts).      *)
(*                                                                         *)
(* An update of the record is one step (SearchRecords checks that the      *)
(* tiered store makes it so); what a handler read earlier may be stale.    *)
(***************************************************************************)
EXTENDS ModelBounds, FiniteSetsExt

CONSTANTS
  SearchIds,     \* search records; ids are never used twice
  ConnectId,     \* the one record that a connect handoff created
  Requests,      \* concurrent API requests
  NStores,       \* stores the deep scan covers, scanned in order
  Sizes,         \* catalogue sizes, in tracks
  TrackBudget,   \* DEEP_SCAN_MAX_TRACKS_PER_SCAN
  ChunkSize,     \* DEEP_SCAN_TRACK_CHUNK_SIZE
  AutoPresence   \* values of SCAN_STORE_PRESENCE_AUTO the workers run with

ASSUME PresenceAssumption ==
  /\ IsFiniteSet(SearchIds) /\ ConnectId \in SearchIds /\ IsFiniteSet(Requests)
  /\ Sizes \subseteq 0..MaxTracks
  /\ {NStores, ChunkSize} \subseteq Nat \ {0} /\ TrackBudget \in Nat
  /\ AutoPresence \subseteq BOOLEAN

VARIABLES
  rec,    \* the search record of each id, or None
  used,   \* ids given out so far
  job,    \* the presence job of each id: state and attempts made
  api,    \* what each API request is doing
  run,    \* the worker's local state for an active job, or None
  final   \* the snapshot's finalizer: "idle" or "enqueue"

presenceState == <<rec, used, job, api, run, final>>
presenceVars == <<presenceState, boundVars>>

Stores == 1..NStores
Tracks == 1..MaxTracks
Statuses == {"absent", "unchecked", "idle", "queued", "running", "done", "error"}
Cells == {"none", "fast", "deep", "human"}

(* size tracks are in the catalogue; prefix is platformTracksVerified. *)
SearchRecord ==
  [reading : BOOLEAN, size : 0..MaxTracks, status : Statuses,
   pending : SUBSET Stores, done : SUBSET Stores, prefix : [Stores -> 0..MaxTracks],
   cell : [Tracks -> [Stores -> Cells]]]

NoPrefix == [s \in Stores |-> 0]
Blank == [t \in Tracks |-> [s \in Stores |-> "none"]]

(* The pending record of the connect handoff: nothing read yet. *)
ReadingRecord ==
  [reading |-> TRUE, size |-> 0, status |-> "absent", pending |-> {}, done |-> {},
   prefix |-> NoPrefix, cell |-> Blank]

(* The fast pass compares with the index of the first store only. *)
FastRecord(n) ==
  [ReadingRecord EXCEPT !.reading = FALSE, !.size = n,
     !.cell = [t \in Tracks |-> [s \in Stores |->
                 IF t <= n /\ s = 1 THEN "fast" ELSE "none"]]]

Fresh == [pc |-> "idle", id |-> None]

PresenceInit ==
  /\ rec = [i \in SearchIds |-> IF i = ConnectId THEN ReadingRecord ELSE None]
  /\ used = {ConnectId}
  /\ job = [i \in SearchIds |-> [state |-> "none", made |-> 0]]
  /\ api = [q \in Requests |-> Fresh]
  /\ run = [i \in SearchIds |-> None]
  /\ final = "idle"
  /\ BoundsInit

(* isActiveSearch *)
Active(r) == r.reading \/ r.status \in {"idle", "queued", "running"}

Put(i, r) == rec' = [rec EXCEPT ![i] = r]

(* store.update of a record that is gone returns null and writes nothing. *)
Patch(i, next) == IF rec[i] = None THEN UNCHANGED rec ELSE Put(i, next)

Call(q, pc, i) ==
  /\ api[q].pc = "idle" /\ calls < MaxCalls
  /\ calls' = calls + 1
  /\ api' = [api EXCEPT ![q] = [pc |-> pc, id |-> i]]

Step(q, from, to) ==
  /\ api[q].pc = from
  /\ api' = [api EXCEPT ![q] = IF to = "idle" THEN Fresh ELSE [@ EXCEPT !.pc = to]]

workerVars == <<run, final, finals>>

-----------------------------------------------------------------------------
(* POST /api/searches: the fast pass is saved, then the deep scan queued. *)
CreateSearch(q) ==
  \E i \in SearchIds \ used, n \in Sizes :
    /\ Call(q, "queue", i)
    /\ Put(i, FastRecord(n)) /\ used' = used \cup {i}
    /\ UNCHANGED <<job, workerVars, faults>>

(* POST .../rescan: a child of a record that is not active, its catalogue  *)
(* kept, is saved and queued; the source is not touched.                   *)
Rescan(q) ==
  \E src \in SearchIds, i \in SearchIds \ used :
    /\ rec[src] # None /\ ~Active(rec[src])
    /\ Call(q, "queue", i)
    /\ Put(i, FastRecord(rec[src].size)) /\ used' = used \cup {i}
    /\ UNCHANGED <<job, workerVars, faults>>

(* POST .../store-check: what is checked here is acted on later. *)
StoreCheck(q) ==
  \E i \in SearchIds :
    /\ rec[i] # None /\ ~Active(rec[i]) /\ rec[i].size > 0
    /\ Call(q, "remove", i)
    /\ UNCHANGED <<rec, used, job, workerVars, faults>>

(* DELETE /api/searches/:id: likewise. *)
DeleteSearch(q) ==
  \E i \in SearchIds :
    /\ rec[i] # None /\ ~Active(rec[i])
    /\ Call(q, "delete", i)
    /\ UNCHANGED <<rec, used, job, workerVars, faults>>

Delete(q) ==
  /\ Step(q, "delete", "idle")
  /\ Put(api[q].id, None)
  /\ UNCHANGED <<used, job, workerVars, calls, faults>>

(* The producer's remove: a job that is being processed stays. *)
RemoveJob(q) ==
  LET i == api[q].id
  IN /\ Step(q, "remove", "reset")
     /\ job' = IF job[i].state = "active" THEN job
               ELSE [job EXCEPT ![i] = [state |-> "none", made |-> 0]]
     /\ UNCHANGED <<rec, used, workerVars, calls, faults>>

(* Progress is dropped so that the whole catalogue is checked again. *)
ResetProgress(q) ==
  /\ Step(q, "reset", "queue")
  /\ Patch(api[q].id, [rec[api[q].id] EXCEPT !.status = "idle", !.pending = {},
                                            !.done = {}, !.prefix = NoPrefix])
  /\ UNCHANGED <<used, job, workerVars, calls, faults>>

(* enqueueDeepScan: queued first, dispatched after. *)
MarkQueued(q) ==
  LET i == api[q].id
  IN /\ Step(q, "queue", IF rec[i] = None THEN "idle" ELSE "dispatch")
     /\ Patch(i, [rec[i] EXCEPT !.status = "queued", !.prefix = NoPrefix])
     /\ UNCHANGED <<used, job, workerVars, calls, faults>>

(* Queue.add ignores an id it still knows, completed and failed ones too. *)
Added(i) ==
  IF job[i].state = "none" THEN [job EXCEPT ![i] = [state |-> "waiting", made |-> 0]]
  ELSE job

Dispatch(q) ==
  /\ Step(q, "dispatch", "idle")
  /\ job' = Added(api[q].id)
  /\ UNCHANGED <<rec, used, workerVars, calls, faults>>

DispatchFails(q) ==
  /\ Step(q, "dispatch", "rollback") /\ faults < MaxFaults
  /\ faults' = faults + 1
  /\ UNCHANGED <<rec, used, job, workerVars, calls>>

Rollback(q) ==
  /\ Step(q, "rollback", "idle")
  /\ Patch(api[q].id, [rec[api[q].id] EXCEPT !.status = "error", !.prefix = NoPrefix])
  /\ UNCHANGED <<used, job, workerVars, calls, faults>>

(* An API process dies in the middle of a request. *)
ApiCrash(q) ==
  /\ api[q].pc # "idle" /\ faults < MaxFaults
  /\ faults' = faults + 1
  /\ api' = [api EXCEPT ![q] = Fresh]
  /\ UNCHANGED <<rec, used, job, workerVars, calls>>

(* applyManualReviewDecision: the cell says what a person decided. *)
Decided(r, t, s) == [r EXCEPT !.cell[t][s] = "human"]

(* PATCH .../manual-review/:itemId writes an authoritative decision. *)
ReviewCell(i, t, s) ==
  /\ rec[i] # None /\ rec[i].cell[t][s] # "none" /\ calls < MaxCalls
  /\ calls' = calls + 1
  /\ Put(i, Decided(rec[i], t, s))
  /\ UNCHANGED <<used, job, api, workerVars, faults>>

-----------------------------------------------------------------------------
(* Broken variant: a repeated finalizer projects again. *)
AlreadyProjectedNever(r) == FALSE

(* projectFinalizedSnapshot: only the first run projects. *)
AlreadyProjected(r) == r.status # "absent" /\ ~r.reading

Projected(r, n, auto) ==
  IF AlreadyProjected(r) THEN r
  ELSE [ReadingRecord EXCEPT !.reading = FALSE, !.size = n,
          !.status = IF n = 0 THEN "done" ELSE IF auto THEN "queued" ELSE "unchecked"]

(* persistSnapshot's projection; without a record the finalizer fails. *)
Finalize ==
  LET r == rec[ConnectId] IN
  \E n \in Sizes, auto \in AutoPresence :
    /\ final = "idle" /\ finals < MaxFinals /\ r # None
    /\ Put(ConnectId, Projected(r, n, auto))
    /\ final' = IF auto /\ Projected(r, n, auto).size > 0 THEN "enqueue" ELSE "idle"
    /\ finals' = finals + 1
    /\ UNCHANGED <<used, job, api, run, calls, faults>>

FinalizeEnqueue ==
  /\ final = "enqueue"
  /\ job' = Added(ConnectId)
  /\ final' = "idle"
  /\ UNCHANGED <<rec, used, api, run, calls, finals, faults>>

(* The finalizer dies before it queued the scan and is run again. *)
FinalizerCrash ==
  /\ final = "enqueue" /\ faults < MaxFaults
  /\ faults' = faults + 1
  /\ final' = "idle"
  /\ UNCHANGED <<rec, used, job, api, run, calls, finals>>

-----------------------------------------------------------------------------
(* Worker: the record is read once, when the attempt starts. *)
Resumable(r) == r.status \in {"queued", "running", "error"} /\ r.pending # {}

Targets(r) == IF Resumable(r) THEN r.pending ELSE Stores \ r.done

(* Broken variant: a cell of the fast pass counts as verified. *)
VerifiedByCells(r, s) == {t \in 1..r.size : r.cell[t][s] # "none"}

(* The tracks an earlier attempt checkpointed: the contiguous prefix. *)
Verified(r, s) ==
  IF Resumable(r) THEN {t \in 1..r.size : t <= r.prefix[s] /\ r.cell[t][s] # "none"} ELSE {}

Ends(i, outcome) == job' = [job EXCEPT ![i].state = outcome]

(* Broken variant: one attempt too many. *)
ThrowOnceMore(i) ==
  /\ Ends(i, IF job[i].made <= MaxAttempts THEN "waiting" ELSE "failed")
  /\ run' = [run EXCEPT ![i] = None]

(* A throw: another attempt, or failed when all are used. *)
Throw(i) ==
  /\ Ends(i, IF job[i].made < MaxAttempts THEN "waiting" ELSE "failed")
  /\ run' = [run EXCEPT ![i] = None]

Begin(r) ==
  [pc |-> IF Targets(r) = {} \/ r.size = 0 THEN "empty"
          ELSE IF r.size > TrackBudget THEN "budget" ELSE "begin",
   seen |-> r, todo |-> Targets(r), done |-> r.done, failed |-> {}, known |-> {}]

StartScan(i) ==
  /\ job[i].state = "waiting"
  /\ IF rec[i] = None
     THEN /\ job' = [job EXCEPT ![i] = [state |-> "completed", made |-> @.made + 1]]
          /\ UNCHANGED run
     ELSE /\ job' = [job EXCEPT ![i] = [state |-> "active", made |-> @.made + 1]]
          /\ run' = [run EXCEPT ![i] = Begin(rec[i])]
  /\ UNCHANGED <<rec, used, api, final, calls, finals, faults>>

Working(i, pc) == run[i] # None /\ run[i].pc = pc
Local(i, w) == run' = [run EXCEPT ![i] = w]
Store(i) == Min(run[i].todo)

(* The prefix of the store that is scanned next. *)
EnterStore(w) ==
  IF w.todo = {} THEN [w EXCEPT !.pc = "finish", !.known = {}]
  ELSE [w EXCEPT !.pc = "scan", !.known = Verified(w.seen, Min(w.todo))]

NothingToScan(i) ==
  /\ Working(i, "empty")
  /\ Patch(i, [rec[i] EXCEPT !.status = "done", !.pending = {}, !.done = run[i].done])
  /\ Ends(i, "completed") /\ Local(i, None)
  /\ UNCHANGED <<used, api, final, calls, finals, faults>>

OverBudget(i) ==
  /\ Working(i, "budget")
  /\ Patch(i, [rec[i] EXCEPT !.status = "error", !.pending = run[i].todo,
                              !.done = run[i].done])
  /\ Throw(i)
  /\ UNCHANGED <<used, api, final, calls, finals, faults>>

MarkRunning(i) ==
  /\ Working(i, "begin")
  /\ Patch(i, [rec[i] EXCEPT !.status = "running", !.pending = run[i].todo,
                              !.done = run[i].done])
  /\ Local(i, EnterStore(run[i]))
  /\ UNCHANGED <<used, job, api, final, calls, finals, faults>>

(* planDeepScan: chunks of ChunkSize tracks in order. *)
Chunks(n) ==
  LET ChunkOf(t) == (t - 1) \div ChunkSize
  IN {{t \in 1..n : ChunkOf(t) = k} : k \in {ChunkOf(t) : t \in 1..n}}

(* The first chunk that is not checkpointed as a whole. *)
NextChunk(w) ==
  CHOOSE c \in Chunks(w.seen.size) :
    /\ ~(c \subseteq w.known)
    /\ \A d \in Chunks(w.seen.size) : Min(d) < Min(c) => d \subseteq w.known

(* mergePlatform: every verdict the attempt holds replaces the cell. *)
MergePlatform(r, s, known) ==
  [r EXCEPT !.cell = [t \in Tracks |-> IF t \in known THEN [@[t] EXCEPT ![s] = "deep"] ELSE @[t]]]

(* One chunk is resolved and checkpointed. *)
ScanChunk(i) ==
  LET w == run[i] IN LET s == Store(i) IN LET known == w.known \cup NextChunk(w) IN
    /\ Working(i, "scan") /\ ~(1..w.seen.size \subseteq w.known)
    /\ Patch(i, [MergePlatform(rec[i], s, known) EXCEPT !.prefix[s] = Max(NextChunk(w))])
    /\ Local(i, [w EXCEPT !.known = known])
    /\ UNCHANGED <<used, job, api, final, calls, finals, faults>>

StoreDone(i) ==
  /\ Working(i, "scan") /\ 1..run[i].seen.size \subseteq run[i].known
  /\ Local(i, [run[i] EXCEPT !.pc = "platform", !.done = @ \cup {Store(i)}])
  /\ UNCHANGED <<rec, used, job, api, final, calls, finals, faults>>

(* The store's catalogue, a lookup or the checkpoint fails: the next store. *)
StoreFails(i) ==
  /\ Working(i, "scan") /\ faults < MaxFaults
  /\ faults' = faults + 1
  /\ Local(i, [run[i] EXCEPT !.pc = "platform", !.failed = @ \cup {Store(i)}])
  /\ UNCHANGED <<rec, used, job, api, final, calls, finals>>

PlatformCheckpoint(r, w, s) ==
  [r EXCEPT !.status = "running", !.done = w.done, !.pending = Targets(w.seen) \ w.done,
            !.prefix[s] = IF s \in w.done THEN w.seen.size ELSE @]

PlatformEnd(i) ==
  LET w == run[i] IN LET s == Store(i) IN
    /\ Working(i, "platform")
    /\ Patch(i, PlatformCheckpoint(rec[i], w, s))
    /\ Local(i, EnterStore([w EXCEPT !.todo = @ \ {s}]))
    /\ UNCHANGED <<used, job, api, final, calls, finals, faults>>

FinishScan(i) ==
  LET w == run[i] IN
    /\ Working(i, "finish")
    /\ IF w.failed # {}
       THEN /\ Patch(i, [rec[i] EXCEPT !.status = "error", !.done = w.done,
                                   !.pending = w.failed])
            /\ Throw(i)
       ELSE /\ Patch(i, [rec[i] EXCEPT !.status = "done", !.done = w.done, !.pending = {}])
            /\ Ends(i, "completed") /\ Local(i, None)
    /\ UNCHANGED <<used, api, final, calls, finals, faults>>

(* An update outside the store's try block fails: the attempt throws. *)
UpdateFails(i) ==
  /\ run[i] # None /\ run[i].pc # "scan" /\ faults < MaxFaults
  /\ faults' = faults + 1
  /\ Throw(i)
  /\ UNCHANGED <<rec, used, api, final, calls, finals>>

(* The worker dies; the stalled job is taken up again. *)
WorkerCrash(i) ==
  /\ run[i] # None /\ faults < MaxFaults
  /\ faults' = faults + 1
  /\ job' = [job EXCEPT ![i].state = "waiting"]
  /\ run' = [run EXCEPT ![i] = None]
  /\ UNCHANGED <<rec, used, api, final, calls, finals>>

ApiStep(q) ==
  \/ Delete(q) \/ RemoveJob(q) \/ ResetProgress(q) \/ MarkQueued(q)
  \/ Dispatch(q) \/ Rollback(q)

WorkerStep(i) ==
  \/ StartScan(i) \/ NothingToScan(i) \/ OverBudget(i) \/ MarkRunning(i)
  \/ ScanChunk(i) \/ StoreDone(i) \/ PlatformEnd(i) \/ FinishScan(i)

PresenceNext ==
  \/ \E q \in Requests :
       \/ CreateSearch(q) \/ Rescan(q) \/ StoreCheck(q) \/ DeleteSearch(q)
       \/ ApiStep(q) \/ DispatchFails(q) \/ ApiCrash(q)
  \/ Finalize \/ FinalizeEnqueue \/ FinalizerCrash
  \/ \E i \in SearchIds :
       \/ WorkerStep(i) \/ StoreFails(i) \/ UpdateFails(i) \/ WorkerCrash(i)
       \/ \E t \in Tracks, s \in Stores : ReviewCell(i, t, s)

PresenceSpec == PresenceInit /\ [][PresenceNext]_presenceVars

-----------------------------------------------------------------------------
Worker ==
  [pc : {"empty", "budget", "begin", "scan", "platform", "finish"}, seen : SearchRecord,
   todo : SUBSET Stores, done : SUBSET Stores, failed : SUBSET Stores, known : SUBSET Tracks]

ApiCall ==
  [pc : {"idle", "queue", "remove", "reset", "dispatch", "rollback", "delete"},
   id : SearchIds \cup {None}]

(* An attempt that a crash cut short is made again. *)
PresenceJob ==
  [state : {"none", "waiting", "active", "completed", "failed"},
   made : 0..(MaxAttempts + faults)]

PresenceTypeOK ==
  /\ rec \in [SearchIds -> SearchRecord \cup {None}] /\ used \subseteq SearchIds
  /\ job \in [SearchIds -> PresenceJob] /\ api \in [Requests -> ApiCall]
  /\ run \in [SearchIds -> Worker \cup {None}] /\ final \in {"idle", "enqueue"}
  /\ calls \in Nat /\ finals \in 0..MaxFinals /\ faults \in 0..MaxFaults

(* A verdict of the deep scan or of a reviewer, not of the fast pass. *)
Backed(r, t, s) == r.cell[t][s] \in {"deep", "human"}

RecordBacked(r) ==
  /\ \A s \in Stores, t \in 1..r.size : t <= r.prefix[s] \/ s \in r.done => Backed(r, t, s)
  /\ r.status = "done" /\ r.size > 0 => r.done = Stores

(* What the record says was verified was verified by the deep scan or by a *)
(* reviewer, not by the fast pass, whatever was retried, reset, replayed   *)
(* or deleted in between: every track up to a store's checkpoint has such  *)
(* a cell, and so has every track of a store that is done; a finished      *)
(* check covers every store (runStorePresenceDeepScan, store-check, the    *)
(* replayed finalizer).                                                    *)
VerdictsBacked ==
  \A i \in SearchIds : rec[i] # None => RecordBacked(rec[i])

(* A cell that has a verdict keeps one while its record exists: no         *)
(* repeated finalizer, reset or resumed scan blanks the matrix             *)
(* (projectFinalizedSnapshot, mergePlatform).                              *)
VerdictsNeverBlank ==
  [][\A i \in SearchIds : rec[i] # None /\ rec'[i] # None =>
       \A t \in Tracks, s \in Stores :
         rec[i].cell[t][s] # "none" => rec'[i].cell[t][s] # "none"]_presenceVars

(* A human decision is authoritative: no automated step replaces it.       *)
ReviewsKept ==
  [][\A i \in SearchIds : rec[i] # None /\ rec'[i] # None =>
       \A t \in Tracks, s \in Stores :
         rec[i].cell[t][s] = "human" => rec'[i].cell[t][s] = "human"]_presenceVars

(* A record that counts as active has a request at work on it or a job     *)
(* that will run: nobody polls for a job that never arrives.               *)
ActiveHasJob ==
  \A i \in SearchIds : rec[i] # None /\ ~rec[i].reading /\ Active(rec[i]) =>
    \/ job[i].state \in {"waiting", "active"}
    \/ \E q \in Requests : api[q].id = i
    \/ i = ConnectId /\ final = "enqueue"
=============================================================================
