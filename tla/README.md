# A TLA+ model of Artist Catalog Sentinel

Artist Catalog Sentinel reads an artist's catalogue from a distributor account
(DistroKid) through a browser session the artist signed into, checks which
stores carry it, and reports what is missing. The centre of it, and the part
hardest to test, is the *durable extraction pipeline* of
`apps/worker/src/distrokid`: six queue stages, several worker processes, two
recovery sweeps, an account lock, a wall-clock deadline and a remote session
that has to be given back. This development models that pipeline for one
snapshot, the pure functions that decide its verdict, what it promises in the
abstract, and around it the components that lead to a scan (sign-in, request
gate, connect handoff), that read (index, extractor, tab pool, stores, web
search), and that keep what was read (search records, history, verdicts, durable
rows). TLC checks small instances of all of them; TLAPS proves, for every
instance, the central invariants of the pipeline and its refinement, of the
connect handoff, the record store, the verdict cells and the durable rows.

## 1. The system

### 1.1 Extraction pipeline (modelled)

| Part | Code | State | Operations |
| --- | --- | --- | --- |
| Producer | `queue-client/src/distrokid.ts` | none of its own | `startSnapshot`: anchor the deadline, `prepareJob`, add the index job |
| Recovery envelope | `db/src/distrokid-recovery.ts` | encrypted session handle, consent, deadline per snapshot | `prepare` (refused after terminal cleanup), `list`, `clear` |
| Queues | `worker/.../pipeline-queue.ts` | BullMQ jobs under deterministic ids, attempts, failed sets | `enqueuers`, `runPipelineStage`, `recoverFailedDistroKidJobs`, retention |
| Stages | `worker/.../pipeline.ts` | in-memory handler state only | index, plan, chunk, retry, reconcile, finalize; terminalize, cancel |
| Checkpoint store | `worker/.../snapshot-store.ts` | index, outcomes, progress row, pass plans, completed chunks, terminal tombstone | `put*`/`get*`, `markChunkComplete`, `claimTerminal` (first writer wins) |
| Account lock | `worker/.../locks.ts` | one Redis key per account with a TTL | acquire, renew, compare-and-delete release |
| Composition | `worker/.../composition.ts` | sweep in flight | durable recovery sweep, consent checks, browser reads, session release |
| Publication | `worker/src/main.ts`, `principal-binding.ts` | the customer-facing record | `persistSnapshot`, refused unless the consent binding is valid |
| Completeness | `browser-assist/src/distrokid/completeness.ts`, `endpoint-bundle.ts` | none | `reconcile`, `deriveStatus`, `retryableReleaseIds`, `mergeCanonicalRelease` |

A scan goes as follows. The API prepares the envelope and adds the index job.
The index stage reads the catalogue under the account lock and checkpoints it;
the planner cuts it into chunks; each chunk stage takes the lock, loads the
outcomes known so far (`existing`), reads what is not fully known, checkpoints
every batch merged with that copy, marks its chunk and queues the next one or the
reconciliation. Reconciliation compares outcomes and index: it orders another
pass over retryable releases or claims the terminal tombstone and queues the
finalizer, which publishes, writes the terminal progress row, releases the
session and clears the envelope. A stage that throws on its last attempt, or
after the deadline, claims a FAILED tombstone instead. Two sweeps run every
15 s beside all of this: one over BullMQ's failed sets, one over the envelopes,
which rebuilds lost queue work and calls the planner itself, *also for
snapshots that are alive*.

What is hard here: every job can be delivered again (crash, stall, retry); every
handler reads, awaits and then writes; two planners, two processors of one
stalled job, or a sweep and a worker may run at once; Redis (queues *and* lock)
can vanish while handlers run on; and everything must still end with exactly one
published verdict and a released session.

### 1.2 Around the pipeline

| Part | Code | State and operations | What makes it correct |
| --- | --- | --- | --- |
| Connect handoff | `api/src/distributor-connect.ts`, `distributor-link.ts`, `browser-link` | stored handoffs, claims, cancellations, tombstones in Redis; consent and revocation outbox in PostgreSQL; the remote browser. start, confirm, cancel, revoke, sweeps of several replicas | one scan per handoff; no session without an owner; a revocation reaches starts under way; what is cancelled ends |
| Connect page | `apps/web/app/connect/RealConnect.tsx` | phase, consent and session held, answers awaited; start, cancel, confirm, revoke, expiry | it reports no revocation that did not happen |
| Search records | `packages/search-store` | a row with a revision, a cached copy, a list index; put, update, delete, warm, list | no acknowledged update lost; the cache never shows more than the row; pages neither skip nor repeat |
| Store-presence scan | `worker/src/deep-scan-*.ts`, `api/src/app.ts`, `queue-client/src/scan-queues.ts`, `finalize-result.ts` | cells per track and store, verified prefixes, one job per record | a verdict comes from a reading; replays blank nothing |
| Durable catalogue | `persistence/src/outcome-repository.ts`, lyric passes | track rows with columns owned by different writers | a row matches a reading; each writer keeps to its columns |
| Checkpoint cache | `worker/.../snapshot-store.ts` (tiered store) | versioned rows, stamped projections, known versions per process | a mark or a tombstone once durable is never answered as something else |
| Index reader | `browser-assist/src/distrokid-attended.ts` | rows collected while a lazy page scrolls | a truncated or double-counted list is never the catalogue |
| Network extractor | `browser-assist/src/distrokid/*` | capture windows, endpoint registry | a late answer that names another release is not used |
| Read-only guard | `browser-assist/src/read-only-guard.ts` | a request handler per tab on the shared browser context, each with its mode | while a tab reads, nothing changes the account, and no read is aborted |
| Tab pool | `worker/.../composition.ts` | tabs sharing a list and a batch | a marked chunk was read, each release once |
| Store scan, web lyric search | `packages/adapters/src/stores`, `lyrics-verification.ts` | a walk over a store's catalogue; cache, breaker, rate slot | a failure is never reported as absence |
| Matching and audit engine | `packages/matching`, `packages/engine` | issues, packets, runs (library code no app calls yet) | missing means absent; a recorded audit has left its packets whole |
| Membership, account deletion | `api/src/membership-service.ts`, `account-deletion.ts` | memberships, account data, login | every role was granted, and the tenant keeps an owner; a login goes after its data were purged |
| Web session | `apps/web` (middleware, `/bff`) | cookie jar, refresh, retry | a mutation is applied once; a live session is not lost |
| Startup checks | `packages/security`, `api/src/health.ts`, `packages/steel` | environment, approval, key versions, readiness | a login that is offered can be started; claims cover calls; sealed handles reopen |
| Request gate | `api/src/rate-limit.ts`, auth hooks of `app.ts` | a counter per subject, requests in flight | the window's limit holds over replicas and refusals end |

They meet at narrow points: the gate admits a request to the handoff, the handoff
prepares the envelope and queues the index job, the pipeline reads through the
index reader, extractor and tab pool, publishes into the record and the durable
catalogue, and the presence and lyric passes continue from there. Everything
between two awaits may interleave with every other process, and any call may
fail or be the last thing its process does.

## 2. Modules

| Module | Contents |
| --- | --- |
| `Completeness` | the pure functions: evidence, `mergeCanonicalRelease`, `convergeReleaseRetryOutcome`, `reconcile`, `deriveStatus`, `retryableReleaseIds` |
| `RetryConvergence` | any sequence of readings checkpointed for the releases of one index: the state machine on which the functions' properties are stated |
| `SnapshotLifecycle` | the abstract promise: one verdict, only it is published, session released after that, authority given up last and never granted again |
| `SnapshotPipeline` | the pipeline for one snapshot; extends `Completeness`, instantiates `SnapshotLifecycle` as its refinement target |
| `ConnectHandoff` | handoff, consent authority and remote browser; every Lua script of the registry an operator, the in-memory registry beside it |
| `ConnectPage` | the browser page that drives the handoff, with its awaits and its expiry timer |
| `SearchRecords`, `SearchHistory` | the tiered record store; seek pagination of a user's history |
| `PresenceScan`, `CatalogueOutcomes` | verdicts per track and store of a record; the durable track rows and their writers |
| `CheckpointCache`, `TabPool` | the Redis tier of the checkpoint store; the tabs of a chunk job, over several attempts |
| `CatalogIndex`, `NetworkExtractor` | the index reader; the capture of responses and the endpoint registry |
| `ReadOnlyGuard` | the verdict on a request with its GraphQL parser; the guards of several tabs on one context |
| `StoreScan`, `LyricSearch` | a track against a store; concurrent web lookups through the shared search provider |
| `TrackMatching`, `AuditWorkflow` | the matcher as operators; audits, one after the other, on top of it |
| `Membership`, `WebSession`, `ServerGate`, `RequestGate` | tenancy and deletion; the gateway's session; startup and readiness; authentication, roles and rate limit |
| `ModelFaults`, `ModelBounds` | bounds on faults, calls and sizes that the component modules share |
| `ScanRecords`, `CatalogueReading`, `Access` | compose the component modules: a behaviour follows one of them, and their promises are stated together |
| `MC...` | the small instances TLC runs: model values, and definitions for the constants |
| `Completeness_proofs`, `RetryConvergence_proofs` | lemmas about merging and converging; the theorems about checkpointed readings |
| `SnapshotPipeline_proofs`, `SnapshotVerdict_proofs` | the pipeline: types, lock and completed work; the refinement of the abstract promise, and what marks and a COMPLETE verdict stand for |
| `CatalogueReading_proofs` | the checkpoint cache, the tabs of a chunk job, the walk over a store, the shared search provider, the index reader, the network extractor, the audit with its matching, the read-only guard with its parser; and all of them composed |
| `ConnectHandoff_proofs` | the handoff |
| `ScanRecords_proofs` | the record store, a walk through the history, the verdict cells and the durable rows, and their composition |
| `Access_proofs` | memberships and account deletion, the gateway's session, startup and readiness, the request gate, the connect page, and their composition with the handoff |

Definitions whose comment begins with *Broken variant* are deliberate mutations
kept beside the definition they distort; no specification uses them. They show
that the property named in `PROJECT.json` notices the mistake.

### 2.1 How SnapshotPipeline corresponds to the code

* **State.** `index, outs, progress, plan, done, terminal` are the
  `DistroKidCheckpoint*` tables, `envelope` the recovery columns, `persisted`
  what `persistSnapshot` published, `session` the remote session, `jobs` BullMQ
  (state, attempts, stalled counter, token owner, recovery markers, payload),
  `lock` the account lock. `pc`, `job`, `loc` hold, for every thread (BullMQ
  processor or sweep), where its handler is, the job it has, and its local
  variables. `expired` and `consent` stand for the clock and the consent record.
* **Granularity.** A handler is cut at every durable write. One step reads and
  asserts (`assertSnapshotCanContinue`), a later step writes, so every check can be
  stale when its write lands. An assertion and the queue add that directly follows
  it are one step. `reconcile` and `retry` read index and outcomes in
  one step with the assertion that follows. Each PostgreSQL write is a
  transaction in the code and one step here.
* **Errors.** `Raise` ends a handler with the class of its error (ordinary, fatal
  deadline, shutdown, failed terminalization), and `RethrowStageError`,
  `TerminalizeStage` and `MarkHandled` are the catch block of `runPipelineStage`.
* **BullMQ** is external: an add under an id that exists in any state is dropped; a
  job's token can be lost while its processor runs on (`StallAlive`); an unowned
  active job is taken back once and fails the second time (`StalledCheck`);
  completed and failed jobs are eventually deleted (`Evict`).
* **Faults** (`throw`, `crash`, `stall`, `evict`, `redis`, `lockLoss`, `contend`,
  `revoke`, `cancel`, `shutdown`) may happen at any step at which the code can
  meet them, at most `MaxFaults` times in a behaviour.

### 2.2 Data abstraction

A field or track has one of three kinds of evidence (every extractor-owned failure
status is NOT_CAPTURED); failure reasons that no function singles out are
REQUEST_FAILED; a listing is the sequence of its rows, each with the id, number and title
that `mergeCanonicalRelease` correlates by (the first row that agrees in any of them is
merged, as in `endpoint-bundle.ts:145-150`) and the evidence of its ISRC; every row has a
number and a title, as every parser of the code gives it; an index entry is the
announced number of tracks (0: not announced); the clock is the flag `expired`. A
batch read by the tab pool is one step with an arbitrary non-empty subset of what
is left and an arbitrary reading for each release.

### 2.3 Left out

The branch for jobs queued before durable pass plans existed and the
`legacy-finalizer` claim (no snapshot created by this version takes them);
SKIPPED outcomes (no code path of the pipeline produces one); the
REAUTH_REQUIRED outcomes written when no session can be attached (they are
readings like others); keep-alive session reuse (a testing mode); the finalizer's recovery
cooldown (a delay); principal matching, validation and encryption of stored
rows. The tabs of a rejected `Promise.all`, the Redis tier of the checkpoint
store and what follows publication have modules of their own (`TabPool`,
`CheckpointCache`, `PresenceScan`, `CatalogueOutcomes`); `SnapshotPipeline` takes
a batch as one step and reads the durable values.

### 2.4 The component modules

All follow the same pattern: one action per route, job step or callback, cut
at every await that touches shared state; a Lua script, an SQL statement or a
transaction is one step; local variables of a handler live in a record per
request slot, process or job. What is abstracted, module by module:

* `ConnectHandoff`. One consent, one owner. Ownership checks return before any write
  and are left out; a faulty Redis call is one that was not applied; tombstone and
  index keys outlive the sessions they guard, as their TTLs are longer; a claim
  may lapse at any time while its holder works (`slow`).
* `ConnectPage`. An answer and the handler's continuation are one step, which may come
  at any time; a failed request may have been carried out or not. Grants and
  sessions of the API are what `ConnectHandoff` makes of them. Roster and texts are left
  out, except what a notice claims.
* `SearchRecords`, `SearchHistory`. One record, resp. one walk. A record is its
  revision and the updates it holds; a position is a time and an id.
* `PresenceScan`. Relies on atomic updates (what `RecordsSound` shows). The progress
  patches that `deep-scan-runner.ts` does not await are left out.
* `CatalogueOutcomes`. A column is the snapshot or the pass that wrote it.
* `CheckpointCache`. The parts of a checkpoint are independent, so a behaviour
  follows one; a value is the number of the write that made it.
* `CatalogIndex`. A page may show any part of the list at any time. A row is its
  release and whether it carries a count.
* `NetworkExtractor`. A response is heard by every tab that is on a release, and by the CDP
  session of its own page if that is attached; each hearing is a body of its own that is read
  later or never. A reading that uses no captured payload (a failure, the page's state, its DOM)
  is `uncaptured`. A registry that cannot be listed counts as empty, any other failing call of
  it ends the release. `discover`, `observe`, `retire`, the direct reader and `readPageState`
  are not called by the worker and are left out.
* `ReadOnlyGuard`. A GraphQL source is a sequence of lexemes (`lbrace` and `rbrace` are the
  curly brackets, `unclosed` and `unknown` what the tokenizer refuses); a URL is whether each of
  the three patterns matches it. A loop of the parser is a function of the turn, up to
  the most turns it takes: a directive takes an at sign, a definition two tokens or more
  (`AtSigns`, `Turns`). That the newest route handler
  decides is Playwright's rule. Documents are generated from up to `MaxDefinitions` definitions,
  so what a server would execute is known without the parser that is checked. The guard a local
  `BrowserSession` installs is the case of one tab that stays in its first mode until the
  user has signed in.
* `StoreScan`, `LyricSearch`. An item of a store is a title; retries, cursors,
  caps and completeness flags are kept. `mistaken` records that a reader took a dropped cursor,
  or a good answer without a list (`PageWithoutList`), for the end. Ticks stand for the
  interval and reset time. The search provider is Serper; the duckduckgo backend, which turns its
  errors into empty lists by itself, is left out.
* `TrackMatching`. Edit distance is a constant relation between base titles; scores are
  thousandths.
* `Membership`. Managers and analysts act as viewers. Of a user's data it keeps whether there are
  any; membership rows are rows of their own, which the purge does not touch. `grantsMade`
  remembers who asked for which role.
* `WebSession`. Keycloak is external. The API may answer 401 to any request it has not acted
  on, also with a fresh token. `cause` remembers whether something has happened that may
  cost the browser its session.
* `ServerGate`. The AWS region, the `DEEP_SCAN_*` ranges and the local
  WSL2 case of the validation are left out; the approval is checked at boot only, as in
  the code. A revocation releases `ReleaseBatch` (2) sessions one after the other; a unit of time
  is 15 to 30 seconds, so that `FixedLease` (the 30 s of `distributor-link.ts:35`) is 2 and the
  slowest Steel call (60 s with its reserve) outlasts it. Deployments differ from a valid one in up
  to two fields, from a development setup in one, and from one with slow Steel calls in a lease.
* `RequestGate`. Token verification is external. With `RateLimit = 1` a run does not reach the
  tight edge of the bound (twice the limit within a window's length needs a limit of two or
  more in each half); the theorem `RequestsGuarded` covers every limit.

## 3. Runs

Every bound is a constant of the configuration. `CHECK_DEADLOCK FALSE` appears in
all of them because a settled snapshot has nothing left to do.

| Run | Instance | Checks | Shows |
| --- | --- | --- | --- |
| `RetryConvergence` | 2 releases, one of them with listings that share titles, are renumbered, renamed, reordered or cut, 1 field, five indexes with and without track counts | `TypeOK`, `ReplayIsNoop`, `CompleteIffFullyRead`, `RetryableVerdictHasWork`, `EvidenceNeverWeakens` | whatever the order and number of readings, evidence of what can be told apart only grows, replays of such readings change nothing, and COMPLETE is said exactly when everything indexed was read |
| `PipelineChunks` | 2 releases in 2 chunks, 2 passes, 2 confirmations, 1 worker and 1 sweep, no fault | `TypeOK`, `MarkedChunksAccounted`, `CompleteVerdictSound`, `LifecycleSpec` | chunk marks, resumes that skip work and verdicts account for every indexed release while the sweep plans beside the worker; a confirmation after the end reopens nothing |
| `PipelineFailures` | 1 release, 1 attempt, 1 worker, 1 sweep, one of throw, crash, evict, shutdown, Redis loss, lapsed lock, revocation | `LifecycleSpec` | the pipeline implements `SnapshotLifecycle` although any one step fails |
| `PipelineStall` | 1 release, 2 passes, 2 attempts, 2 workers, 1 deferral, one of stall, contention, cancellation | `NoConcurrentReads`, `CompletedNeverErased`, `LifecycleSpec` | two processors of one job never read the account together, no late checkpoint takes back a release, and retries and cancellations keep the lifecycle |
| `PipelineSettles` | 1 release, 1 attempt, 1 worker, 1 sweep, a crash, fair | `EveryScanSettles` | every accepted scan ends with its session released and its envelope cleared |
| `PipelineOutage` | 1 release, 1 attempt, 1 worker, 1 sweep, one of a failing call, Redis loss, cancellation, fair | `EveryScanSettles` | the same when the finalizer, a stage or the terminalization itself fails, when queues and lock are gone, and for a cancelled scan |
| `ConnectCancels` | 1 handoff, 2 replicas, 1 confirmation, a failing call or a crash, fair | `HandoffsEnd` | a cancelled handoff goes away and the sessions of a revoked consent end, whatever races |
| `ScanRecords` | records: 2 clients, 5 calls; history: 2 users, 2 times, 3 ids, pages of 1 and 2; presence: 2 records, 2 stores, 3 tracks, 2 finalizer runs; catalogue: 2 scans, 1 release of 2 tracks | `TypesOK`, `RecordsSound`, `WalkComplete`, `VerdictsBacked`, `OutcomesSound`, `VerdictsNeverBlank` | see section 3.1 |
| `CatalogueReading` | cache: 2 processes, 2 keys; index: 2 releases, a cap of 3, 3 rounds; extractor: 2 tabs, 2 releases, 2 endpoints, 2 bodies; guard: 2 tabs, documents of up to 2 definitions; pool: 2 attempts, 2 tabs; stores: 3 titles, every provider; lyrics: 2 songs; audit: exports and stores of 2 rows | `TypesOK`, `MarksReadDurable`, `IndexSound`, `ExtractionSound`, `MarkedChunkRead`, `VerdictsTrue`, `ProviderSound`, `AuditSound` | see section 3.1 |
| `Access` | handoff: 2 replicas, 2 confirmations, one of a failing call, a crash, a slow claim; page: 2 connections, one failing call; members: 2 users, 2 requests at once, 4 calls, 2 invitations; session: 2 requests, 2 logins, 2 keys; servers: every environment that differs from a valid one in up to two fields; requests: 2 slots, limit 1 | `TypesOK`, `OneScanPerHandoff`, `SessionsAccounted`, `RevocationIsFinal`, `RegistriesAgree`, `AccountsSound`, `BrowserSound`, `GateSound`, `AdmissionSound` | see section 3.1 |
| `PipelineIndexReplay` | 2 releases, two different readings of the catalogue, 2 passes, 2 workers, a crash | `CompleteVerdictSound` is violated | finding 2 |
| `LeftoverTabs` | 2 attempts, 2 tabs, 3 releases, 1 failing call | `CompletedReleasesKept` is violated | finding 1 |

The modules `ScanRecords`, `CatalogueReading` and `Access` follow one component per
behaviour: the variable `part`, chosen in the initial state, says which, and the
others keep an initial state. The components take each other's answers as inputs
(a truncated index, a refused request, a lost update), so nothing is gained by
interleaving them, and the state space is the sum of theirs. A property of one
component is trivially true in the behaviours of the others.

**Why the bounds are enough.** Two releases in chunks of one give every relation
between a plan and its marks (none, first, all); two passes give a first pass, a
retry and the bound; two attempts tell the last attempt from the others; two
processors are what a stalled job or a lost lock puts at the same place. One fault
per behaviour is placed at every step, against every interleaving; the breaker of
`LyricSearch` needs two. Two bodies let one response reach two tabs, a body of a tab's earlier
release arrive in its next one, and a sibling fill the gaps of a hit. A cap of three above an
account of two releases lets the index reader finish; that the cap itself ends a reading is
left to the theorem `IndexPromises`, as no list of this account reaches it. The
runs with two workers use the symmetry of the two worker names, which no
definition tells apart; the fair runs use none.

**Fairness** (`FairSpec`). Handlers of live processes run on (a JavaScript promise
that can continue does); BullMQ delivers a waiting job to some worker and runs its
stalled check; both sweeps come round every 15 s and retry a failed finalizer;
the deadline passes and the TTL of a dead holder's lock lapses; another snapshot
gives the lock back. Each is weak fairness of that step. Nothing is assumed of
faults, of API calls or of other snapshots' arrivals. With one fault per behaviour,
`EveryScanSettles` says that the system recovers, not that it withstands faults for
ever. In `ConnectCancels` (`ConnectHandoff!FairSpec`) the steps of a live replica and
a lapsing claim or work lease are weakly fair; that some replica's sweep
takes up an expired handoff and claims the revocation intent is strongly fair,
because the sweeps come round for ever and a busy handoff is again and again free
in between. A user's confirmations and cancellations are not fair.

**Properties in a few words.** `LifecycleSpec` is the refinement of
`SnapshotLifecycle`. `CompleteVerdictSound`: a COMPLETE verdict means that
every indexed release was fully read, in the checkpoint and in the published
outcomes. `MarkedChunksAccounted`: each release of a marked chunk has an outcome.
It is checked without index replays: with them, two planners can leave a plan whose
chunk numbers were marked for another list; reconciliation then finds the unread
releases and orders a further pass, unless the new index lands after it has read: finding 2.

### 3.1 What the component properties say

* `OneScanPerHandoff`: however often a confirmation is repeated, deferred or taken over,
  a handoff starts scans under one stored search id. `SessionsAccounted`: a live
  remote browser has a start, a handoff, a scan or its own timeout that ends it.
  `RevocationIsFinal`: after a completed revocation no handoff can be confirmed.
  `RegistriesAgree`: the development registry answers as the Lua scripts do.
  `HandoffsEnd`: cancellations are carried out and sessions of a revoked consent end.
* `RecordsSound`: until the record is deleted, every acknowledged update is in the
  row, the cache never shows more than the row, and once every process is done it
  shows exactly the row. `WalkComplete`: a walk gives every record that stood
  throughout, none twice, none of another user.
* `VerdictsBacked`: a verified prefix or a finished store has a reading or a person
  behind every cell. `VerdictsNeverBlank`: nothing turns a verdict into none.
* `OutcomesSound`: a completed release has exactly the rows of its reading, and the
  user's mark and the store verdict of a row survive writers that do not own them.
* `MarksReadDurable`, `MarkedChunkRead`, `IndexSound`, `VerdictsTrue`,
  `ProviderSound` (rate slots spaced, no failure cached), `AuditSound` (missing is
  absent; whole packets): the last column of the table in section 1.2. `VerdictsTrue`
  leaves out the answers that a reader mistakes for the end of a listing
  (`mistaken`): section 3.2.
* `ExtractionSound`: a release completed from the network uses nothing that names
  another one, an endpoint is trusted after enough parsed captures, and (`GuardReadsOnly`)
  while a tab reads and no guard is being installed every request that would change
  the account is aborted, whatever its document hides, and no read ever is.
* `AccountsSound`: every role was asked for, for the person who holds it, by a caller whose
  own role allowed that, however requests overlap, fail and write back what they read
  earlier; while they do not overlap the tenant keeps an owner; a login goes only after a purge
  of its data, so a deletion that fails half way can be repeated.
* `GateSound`: what the connect page says of a login is what the start request then finds, up to
  the edge of the approval; the claim on a handoff is renewed before each release, so it covers
  that release's call however many came before, and the sweep's lease on a revocation covers
  the first of them; a sealed session handle is opened by every server, also after
  somebody points a key alias at another key (production pins the key's ARN).
* `AdmissionSound`: as in 1.2.
* `BrowserSound`: the gateway's session and the connect page. `SessionSound`: the API acts on
  a proxied request at most once, and a signed-in browser keeps a refresh token that works,
  until something happens which costs it the session; the definition lists what.
  `PageSound`: what a notice names has ended; the page can still revoke what it shows; one
  handler at a time.

### 3.2 Findings

1. *A leftover tab takes back a completed release* (run `LeftoverTabs`).
   `Promise.all` (`composition.ts:477`) rejects with the first tab that throws; the
   chunk gives its lock back and is retried while other tabs read on. Such a tab
   checkpoints later, converged with the copy its own attempt had loaded, and
   replaces what the next attempt completed, against `pipeline.ts:157` ("A transient
   retry failure never erases a previously completed (but field-incomplete) release").

2. *COMPLETE with an indexed release never read* (run `PipelineIndexReplay`). The worker of an
   index job crashes; the job is taken back and read again beside later stages, by another of the
   six workers. When the account lists another release by then, the replay's `putIndex`
   (`pipeline.ts:424`) lands after the reconciliation has read index and outcomes and before it
   claims the verdict, against `docs/distrokid-network-first-extractor.md:200` ("A
   snapshot is **never** COMPLETE while any indexed release lacks a terminal result"). With
   one processor TLC finds no such behaviour.

The following disagreements were met on the way. Each is stated as a definition
of the module named, which no configuration checks because the code does not
keep it; adding it to a configuration with the constants given shows the
counterexample.

* *A finished snapshot's progress can say RUNNING* (`ProgressEndsTerminal`,
  `SnapshotPipeline`; one release, one worker, one sweep, no fault). The planner reads
  the row, asserts, and later upserts `{...progress, status: 'RUNNING'}`
  (`pipeline.ts:463`). The sweep runs it beside live jobs; if the finalizer ends in
  between, the stale row wins, against `pipeline.ts:770` ("A snapshot must ALWAYS
  end with a recorded terminal status").
* *A revoked consent keeps session and envelope for ever* (`EveryScanSettles` with
  `FaultKinds = {"revoke"}`). `persistSnapshot` refuses every verdict under an invalid
  binding (`main.ts:127`) and the finalizer releases the session only after it,
  against `docs/steel-production.md:125` and `docs/production-acceptance.md:173`.
* *Redis loss can take back a completed release* (`CompletedNeverErased` with
  two workers, a sweep and `{"redis"}`). The chunk's writes carry no fencing token
  (`pipeline.ts:525`), against `docs/steel-production.md:118`.
* *A retry can drop verified songs* (`VerifiedSongsRetained`, `RetryConvergence`).
  `mergeCanonicalRelease` (`endpoint-bundle.ts:144`) keeps the tracks of the newer
  reading only, against `pipeline.ts:155` ("without losing verified songs/fields").
* *Same-titled tracks take each other's evidence* (`VerifiedFieldsRetained`, `NothingGuessed`,
  `RetryConvergence`). A track is merged with the first row of equal id, number or title
  (`endpoint-bundle.ts:146-150`). When two tracks of a release share a title (an original and its
  reprise), the second may be merged with the row of the first: its own captured ISRC is lost
  to a reading that missed it, or it takes the first one's when a reading is converged
  again. Against the same line of `pipeline.ts`, and `endpoint-bundle.ts:142-143` ("never
  appended by guesswork"). `ReplayIsNoop` and `EvidenceNeverWeakens` are therefore about
  tracks that can be taken for one row only.
* *A projection with the current version and an older value* (`NoFalseHit`,
  `CheckpointCache`; one process with two handlers). `cacheProjection` stamps the
  version known when it starts (`snapshot-store.ts:1022`), against its own comment at
  1025. Tombstones and chunk marks, which the pipeline decides by, are not affected.
* *Two overlapping demotions or removals leave a tenant without an owner*
  (`TenantNeverOrphaned`, `Membership`; `membership-service.ts:125` and 143), against
  the comment at its lines 7-8. An account deletion does not ask either: a sole owner may go.
* *Data outlive their login* (`NothingOutlivesLogin`, `Membership`). The tables that
  `purgeUserData` empties (`account-deletion.ts:23-56`) do not include `memberships`, whose
  rows name the user and the invited email; and a request or a scan that was in flight
  writes its records after the purge. Against line 58 ("Erase every non-audit record owned by
  `userId`, transactionally").
* *A usable session is cleared* (`OnlyUnusableCleared`, `WebSession`). The API answers 401
  whenever it cannot verify a token (`auth.ts:49-58`), also a fresh one whose signing key it cannot
  fetch; the second 401 then clears the cookies of a session that Keycloak still
  refreshes (`route.ts:127-136`), against line 132 there ("The final 401 below clears the
  unusable local session"). In the same way the 401 to a request without tokens
  (`route.ts:120-123`) clears the session of a sign-in that completed meanwhile.
* *The lease on a revocation does not cover its calls* (`IntentLeasesCover`, `ServerGate`).
  The HTTP routes lease the intent for 30 s whatever is configured
  (`distributor-link.ts:35`, 148, 216), while validation admits a Steel timeout of 60 s; and one
  lease is taken for all the releases of a page (`distributor-connect.ts:1420-1435`). Against
  `feature-flags.ts:330` ("must cover STEEL_API_REQUEST_TIMEOUT_MS plus a 5000ms completion
  reserve"). Another sweep may then work beside it; each session's own claim still excludes a
  double release.
* *A response of another release through the CDP capture* (`NeverSomeoneElses`,
  `NetworkExtractor`; `cdp-network.ts:165` returns the best capture without a
  correlation to the release).
* *A leftover tab weakens the guard of the others* (`GuardAlwaysReadsOnly`,
  `ReadOnlyGuard`; two tabs, one failure). After a rejected pool a tab whose extractor
  was disposed takes another release and installs its guard again
  (`extractor.ts:148`). Until `context.route` returns, that newest handler is not in
  extraction mode and decides for every tab, against `composition.ts:388` ("blocks
  mutations IDENTICALLY on every tab (the guarantee holds regardless of which route
  handler wins)").
* *A consent reported as revoked that is not* (`RevocationNeverClaimed`, `ConnectPage`; two
  connections, no fault). The revocation of an expired window answers after the next
  consent was granted and clears it from the page (`RealConnect.tsx:96`); cancelling
  the new session then revokes no consent and still says "Steel session and scoped
  read consent revoked" (line 209). The grant stays active until it expires.
* *A catalogue cut short reads complete* (`CompleteMeansEnd`, `StoreScan`). Deezer's reader ends
  the album walk at an invalid cursor (`deezer.ts:63`), and takes an HTTP 200 whose body holds no
  data for an empty page, in the walk and for the tracks of an album (`deezer.ts:60-63`,
  81-82), although `deezer.ts:128` knows Deezer's error object; SoundCloud's does the same with a
  body without a collection (`soundcloud.ts:85`). Against `stores/types.ts:92`; a
  live track may then be reported as not live, which `VerdictsTrue` excepts (`mistaken`).
* *A failed store query reads "not found"* (`NoFalseNotFound`, `LyricSearch`;
  `lyrics-verification.ts:84`): when only the grouped `site:` query fails and the broad
  one finds the song at LyricFind, against line 108 of that file ("a search failure
  marks the track `unverifiable` (never a false "no lyrics")").
* *A scan overwrites a person's review* (`ReviewsKept`, `PresenceScan`;
  `deep-scan-presence.ts:218`), and *a queued record may have no job*
  (`ActiveHasJob`, `PresenceScan`; `app.ts:819`): `scan-queues.ts:58` swallows a failed
  removal and the add under the retained id is then dropped.

Noted without a property: an API process that dies between marking a search queued
and adding its job (`app.ts:561`); a record deleted and put again starts its revision
anew (`postgres-search-store.ts:140`); a replayed finalizer sets lyric reads back
to unknown (`outcome-repository.ts:613`); `changeRole` and
`acceptInvite` may write back a member that was removed meanwhile, or undo a demotion; a refresh that answers after sign-out sets the cookies
again; `X-Sentinel-Tenant` is not among the allowed CORS headers; a duplicate ISRC
under another artist is reported missing at 0.95 (`matcher.ts:206`).

## 4. Proofs

TLAPS proves the following for every value of the constants, under the named
assumptions the modules declare (`PipelineAssumption`, `HandoffAssumption`, ...: the
constants have the right types, and absent values differ from real ones) and the
hypotheses named here. A theorem about a state machine goes by an inductive
invariant, which TLC checked on the instance of a run first; its proof has one
lemma per action or group of actions.

### 4.1 Pipeline

Any releases, tracks and fields, catalogues and readings; any number of passes, attempts,
workers, sweeps and faults.

* `RetryConvergence_proofs`: `TypeCorrect`, `ReplaySafe` (`ReplayIsNoop`, for listings whose
  rows cannot be taken for each other, `ToldApart`), `EvidenceMonotone`
  (`EvidenceNeverWeakens`, for tracks with one row to be taken for, `OnlyMatch`), `VerdictExact` (`CompleteIffFullyRead`)
  and `RetryHasWork` (`RetryableVerdictHasWork`). They rest on the lemmas of
  `Completeness_proofs`: a merge is well formed, keeps the stronger evidence of every
  field, and absorbs a reading it already contains. `VerdictExact` also needs that
  no release outside the index has an outcome (`OnlyIndexed`), or counting outcomes
  would not count the index.
* `SnapshotPipeline_proofs`: `TypeCorrect`. `TypeOK` alone is not inductive: a
  chunk handler indexes `plan` and `done` by its job's pass, and the finalizer
  writes the fields of the tombstone. `IndInv` adds `HandlerInv`: a handler at a chunk
  step runs a chunk job, and a handler at a finalizer step sees a decided snapshot.
  Then `MutualExclusion` (`NoConcurrentReads`) and `CompletedKept`
  (`CompletedNeverErased`), both under `LockKept`: no fault takes the lock from a
  live holder (section 3.2 shows that the second is false without it). Both are about
  whole batches: the leftover tabs of finding 1 are in `TabPool`, not here.
  `ReadInv` adds to `IndInv`: `LockInv`, a thread at a browser step
  holds the lock; and `ViewInv`, the chunk's copy `existing` equals the checkpoint
  for every release, so converging with the copy is converging with the
  checkpoint. That holds because only a chunk handler writes outcomes and only one
  such handler exists, which is why both theorems share one invariant. Any other
  fault, index replays, stalls and crashes included, is covered.
* `SnapshotVerdict_proofs`: `LifecycleRefined`, the pipeline implements
  `SnapshotLifecycle` (`LifecycleSpec`), whatever the faults. `LifeInv` (`StoreLife`,
  `StageLife`) says what the order of the finalizer's steps leaves behind: past
  `persistSnapshot` the tombstone's verdict is the published one; a terminal progress
  row proves the publication, since a row rewritten from an earlier read is never
  terminal; only a cancelled snapshot is released by a sweep; and the session is
  released before the envelope is cleared.
* In the same module, `MarkedAccounted` (`MarkedChunksAccounted`) under
  `FixedCatalogue`, every fault allowed, and `CompleteSound`
  (`CompleteVerdictSound`) under `FixedCatalogue` and `LockKept`. `BackedInv` relates
  what stands for something else to it: plans to the index, progress to plans,
  marks to outcomes, queued jobs and handlers in flight to what they were made from;
  `SoundInv` adds the verdict a reconciler holds between reading the outcomes
  and claiming the tombstone. `FixedCatalogue` (one catalogue the account can show
  during the scan) is needed: an index job delivered twice under a changed catalogue
  can replace the index between a COMPLETE proposal and its claim, or leave
  a plan that does not cover it. With two workers that happens: finding 2.

### 4.2 Connect handoff

`ConnectHandoff_proofs`, for any sessions, replicas, page size and fault kinds, session reuse
on or off: `TypeCorrect`, `OneScan` (`OneScanPerHandoff`), `SessionsOwned`
(`SessionsAccounted`), `RevocationFinal` (`RevocationIsFinal`) and `RegistriesEqual`
(`RegistriesAgree`: the Redis scripts and the in-memory registry answer alike). The
invariant `HandoffInv` has seven parts: `HandoffSane` (types, and each handler
and record consistent with itself: a handler claims a session once, so by the
pigeonhole principle claim tokens do not run out), `StartsAlone` (one start opens a session, and until it is stored nobody else knows it),
`CancelledGone`, `SearchStored` and `OneSearch` (the search a confirmation wrote is the
only one), `RevocationCovers` (the reverse index lists every session that can still be confirmed, and
revocation work goes away only when there is none) and
`SessionsAccounted`. `HandoffStep` states once what a step may change of the
shared records, and every action is shown to be one.

### 4.3 Records, cells and rows

`ScanRecords_proofs`:

* About `SearchRecords`: `UpdatesKept` (`AckedUpdatesKept`) for any clients, rounds and
  revisions; `StoreSound` (`RecordsSound`) if there are at most as many clients as
  compare-and-set rounds (`FewClients`). The hypothesis is tight: three clients with
  two rounds violate it, since a caller may lose every round and give up; the
  code has eight rounds (`search-store.ts:535`). `RecordsInv` adds that
  a caller who holds the newest revision loses its round only to a laggard, what a
  list entry or a carried cache copy was made from, and the rounds left.
* About `SearchHistory`: `WalksComplete` (`WalkComplete`), for any finite set of rows, times
  that tie, page size and rows saved or deleted between pages. A page is the rows of the
  user after the cursor that fewer than a page of such rows precede; that it is an initial
  part of the walk, and not empty while a row is left, needs that a strict order on a
  finite set has a first element (by well-founded induction on the number of
  predecessors). `HistoryInv` says that what stands up to the cursor has been shown,
  and nothing beyond it.
* About `PresenceScan`: `BackedVerdicts` (`VerdictsBacked`) and
  `CellsNeverBlank` (`VerdictsNeverBlank`). `PresenceInv` adds: the stores
  pending and done cover all (`PlanCovers`); before the finalizer has projected,
  nobody works on the handoff's record (`Untouched`); what an attempt counts as
  verified, the record shows (`WorkersBacked`); ids are not reused (`UsedIds`). About
  `CatalogueOutcomes`: `RowsSound` (`OutcomesSound`), strengthened by what an attempt
  that waits for its lookup still holds.
* `ScansPromise` puts these together for `ScansSpec`, the specification the run
  `ScanRecords` checks: `TypesOK` and every promise above, `RecordsSound` under
  `FewClients`. `ScansInv` says that the component the behaviour follows satisfies its
  inductive invariant; of the others, which do not move, it keeps the promise alone.

### 4.4 Reading a catalogue and the stores

`CatalogueReading_proofs`. `ReadingsPromise` composes the theorems below: whichever component a
behaviour follows keeps its invariant, the others' promises stay true of a state that does not
change, so `ExtractionSound` and all the other promises hold together (`ReadingTyped`: and the
types).

* `MarksDurable` (`MarksReadDurable`), for any processes, handlers, rows and faults. A
  row of the parts it is about never changes once it is written, so everything
  in flight - the projection, a call's copy, a version a process knows - is
  that row or nothing (`CopiesInv`); versions are bounded by the writes (`CacheSane`).
  The stamp may still promise too much: that is finding `NoFalseHit`.
* `MarkedRead` (`MarkedChunkRead`), for any releases, tabs, attempts and faults. In one
  attempt a release is still listed, held by one tab, or in the outcomes, and never two of
  these (`TakenOnce`); an attempt past its pool has seen all its tabs return
  (`StageKnows`). Leftover tabs of failed attempts go on writing throughout.
* `StoreVerdicts` (`VerdictsTrue`), for every provider, profile and limit. `NothingLost` is
  what `complete` is worth: as long as it holds and the reader has not mistaken a
  dropped cursor or a body without a list for the end, what is on the store has been read or is
  still to come. `IndexSearched` adds that the supplementary checks
  begin after the index had no answer.
* `ProviderPromises` (`ProviderSound`), for any songs, interval and thresholds. Two searches in
  flight have slots an interval apart because every slot given out lies an interval before
  the next one to give (`SlotsBehind`), which the reservation keeps without an await.
* `IndexPromises` (`IndexSound`), for any number of releases and rounds. An entry of the index
  never collects the ids of two releases and forgets its count when it hears another
  (`EntrySound`); the account's own total is the largest that can be read, so once read
  it stays, and a list only settles with as many entries (`TotalKept`).
* `ReadingPromises` (`ReadingsSound`, the extractor's part of `ExtractionSound`), for any tabs,
  releases, endpoints and bodies. `TabOK` says of a tab that its hit, its merged captures
  and those of its window are about its release, and that the profile row it holds was
  earned when it was read: reports only add up, so writing it later, over newer rows,
  still promotes no endpoint too early. `BodyOK` says that a body which may still enter a
  window was asked for by that window's release.
* `GuardPromises` (`GuardReadsOnly`, the guard's part of `ExtractionSound`), for any number of
  tabs and of definitions of a document. It has two halves. `GuardInv` is about the tabs: a
  handler that is not strict yet belongs to a tab being installed, or the pool is closing
  (`WeakInstalling`), and a tab with a guard has a handler on the context however many others are
  disposed (`Routed`); so while a tab reads and none is being installed, the newest handler is a
  strict one (`NewestStrict`). `DocumentsJudged` is about the parser: what it selects in a document is
  what a server would run. Each kind of definition is parsed to its operation and the position
  after it (`DefinitionParsed`), whatever brackets and keywords its strings, comments and
  selections hold: a selection is closed where it began (`BalancedTwice`, `BalancedOnce`,
  `DirectivesSkipped`). The tokens of a document are those of its definitions one after another
  (`DocumentLexed`), because dropping comments and commas respects concatenation (`WithoutConcat`);
  so after the k-th turn the loop stands behind the k-th definition and has read its operations,
  each once (`DocumentParsed`, with `Written` for the list of them); there are turns enough
  (`TurnsEnough`), and those left change nothing. The induction is over turns, on the set of those at which this holds (`UpTo`), so no
  recursive operator is needed. A document spoiled at its end has nothing a server would
  run, so only that reads pass and mutations do not is asked of it.
* `AuditPromises` (`AuditSound`), for exports and stores of any length (`NRows`,
  `NUploads`), any titles and any relation of similar titles; the artists a row credits are
  finitely many (`AuditAssumption`), since the similarity of two credits divides by their
  number. The matcher's part needs no state: an upload of the same recording by the
  same artists scores at least 828 of 1000 (`SameRecordingScores`), whatever is penalised
  in common titles; so the best candidate, which exists (`BestIsBest`), is at least probable, and
  such a candidate is matched or reviewed unless it carries the track's ISRC and credits
  somebody else (`ProbableIsSettled`). `AbsentSoFar` carries that through a run,
  whose verdicts are about the uploads listed before. `PacketsSoFar` says which
  artifacts and records a run has written so far, and that it is later than every
  recorded run: so the packets a dying run leaves half written break no promise of
  the last run.

### 4.5 Accounts and access

`Access_proofs`:

* `AccountsKept` (`AccountsSound`), for any members, requests in flight, invitations and
  failures. `Backed` says that what a request is about to write was granted, although the row it
  writes back was read earlier: a row keeps its id and its holder, and a grant stays made.
  `PurgedFirst` orders a deletion's steps. As long as no two requests have overlapped there is
  one at a time, so what it read still holds when it writes: `AloneSafe` says that a request about
  to write leaves an owner. With overlaps that is false, which is the finding of section 3.2.
* `SessionsKept` (`SessionSound`), for any requests, sign-ins and keys. `BffSane` says of
  each proxied request that the API has acted on it only when its answer is known, that a
  refresh left it with a token of its own, and that an answer which clears the cookies of the
  present sign-in has a cause; `JarWhole`, that the two tokens come and go together.
* `GatePromises` (`GateSound`), for every modelled environment, run length and number of
  releases. Validation depends on the environment alone but for the approval window, so every
  process that runs in production wraps with the one key its ARN names (`BootedValid`,
  `HandlesSealed`); what the page shows was true in the clock unit it was loaded in
  (`PageCurrent`), and a claim taken before a release covers the time its call may still take, as
  does a sweep's lease for the first one (`LeaseBounded`).
* `RequestsGuarded` (`AdmissionSound`), for any subjects, replicas, limit, window length and
  lost expiries. `WindowKept` counts what a key admitted: no more than the limit since its
  window began, and no more than the limit in the span of a window's length before that.
  Any span of that length lies within the two, hence twice the limit (`WindowBound`),
  also when Redis loses the expiry and a window goes on longer. `RefusalKept` relates a refusal to the
  window it was given in; `GrantsAudited` counts the requests between the audit event and the row.
* `PagePromises` (`PageSound`), for any number of openings and failures. A handler keeps what the
  page held when it was called, so the invariant relates each one to the page of the moment
  (`HandlerSane`): while an opening waits the page shows neither session nor a finished
  revocation; a scan waits on the scanning view; a window that ended is not the one whose
  consent a sign-in now shows, unless a revocation was overtaken (`OpeningFresh`). Consents are
  new when they are given (`GrantsOrdered`), and the busy flag is the one handler of a button
  (`OneWorker`).

`AccessPromises` composes these with the handoff's invariant: `BrowserSound`, which is
`SessionSound` and `PageSound` together, and the other promises hold of `AccessSpec`, whichever
component a behaviour follows (`AccessTyped`: and the types).

### 4.6 Only model-checked

Liveness (`EveryScanSettles`, `HandoffsEnd`), which is out of the prover's reach; every
invariant and action property of the passing runs is stated by a theorem. What the proofs do not say:
`RecordsSound` with more callers than rounds, `MarkedChunksAccounted` and `CompleteVerdictSound` with index
replays (all false, see sections 3, 3.2 and 4.3), and documents beyond the kinds `Definitions`
generates.

## 5. Not modelled

The audit log's hash chain (written by every handler, read by none), the rendering of
reports, the assistant and the other web pages, CSV import, invalid rows of the
recovery table (one stops the listing of all, `distrokid-recovery.ts:214`), page selectors and sign-in
detection of the browser driver (I/O), cryptography, and code that is built but called
by no app (direct reader, endpoint retirement). `PROJECT.json` lists each with its
reason.

## 6. Plan

Done: the pipeline with its abstract promise, the components around it, their compositions, and the
proofs of section 4. Left, in order:

1. `ReadOnlyGuard`: documents with interfaces the generator does not write (list values, fragment
   spreads, nested directives), so that `DocumentsJudged` covers the whole grammar.
2. The cookies of `WebSession` under the page of `ConnectPage`: one specification in which both
   act on the same session at once.
