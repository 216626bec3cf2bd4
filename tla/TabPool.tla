------------------------------- MODULE TabPool -------------------------------
(***************************************************************************)
(* One chunk job: extractChunk's pool of tabs (composition.ts) inside the  *)
(* chunk stage (pipeline.ts) under the account lock.  The attempts of the  *)
(* job follow each other, but an attempt leaves tabs behind: Promise.all   *)
(* rejects with the first tab that fails, and the lock is released while   *)
(* the others still run.  Every await of a tab is a step.                  *)
(***************************************************************************)
EXTENDS ModelBounds, Sequences

CONSTANTS
  Tries,            \* attempts of the chunk job
  Tabs,             \* DISTROKID_RELEASE_CONCURRENCY
  ChunkRefs,        \* releases of the chunk: 1 .. ChunkRefs
  CheckpointEvery   \* outcomes a batch collects before it is checkpointed

ASSUME PoolAssumption ==
  /\ {ChunkRefs, CheckpointEvery} \subseteq Nat \ {0}
  /\ None \notin {"FAILED", "COMPLETED"}

VARIABLES
  owner,     \* the attempt that holds the account lock, or None
  attempt,   \* per attempt: the chunk stage and the state its tabs share
  tab,       \* per attempt and tab
  rowsStored,    \* checkpointed outcome of each release: None, "FAILED", "COMPLETED"
  chunkMarked     \* markChunkComplete

poolState == <<owner, attempt, tab, rowsStored, chunkMarked>>
poolVars == <<poolState, boundVars>>

Refs == 1 .. ChunkRefs
NoOutcomes == [r \in Refs |-> None]
IdleTab == [pc |-> "off", ref |-> None, writes |-> NoOutcomes]
NewAttempt == [pc |-> "off", aborted |-> FALSE, closed |-> FALSE, todo |-> {},
               left |-> {}, existing |-> NoOutcomes, outcomes |-> <<>>, batch |-> <<>>]

PoolInit ==
  /\ owner = None
  /\ attempt = [a \in Tries |-> NewAttempt]
  /\ tab = [a \in Tries |-> [t \in Tabs |-> IdleTab]]
  /\ rowsStored = NoOutcomes
  /\ chunkMarked = FALSE
  /\ BoundsInit

AttemptAt(a, pc) == attempt' = [attempt EXCEPT ![a].pc = pc]
TabAt(a, t, pc) == tab' = [tab EXCEPT ![a][t].pc = pc]
PoolFault == faults < MaxFaults /\ faults' = faults + 1

-----------------------------------------------------------------------------
(* The job is delivered: the lock is free, the stage reads the index and the *)
(* checkpoints and keeps the releases that are not completed, in order.      *)
(* Attempts of one job do not overlap.                                       *)
TodoOf(rows) == {r \in Refs : rows[r] # "COMPLETED"}

StartAttempt(a) ==
  /\ owner = None /\ attempt[a].pc = "off" /\ ~chunkMarked
  /\ \A b \in Tries : attempt[b].pc \in {"off", "failed"}
  /\ owner' = a
  /\ attempt' = [attempt EXCEPT ![a].pc = "pool", ![a].todo = TodoOf(rowsStored),
                                ![a].left = TodoOf(rowsStored), ![a].existing = rowsStored]
  /\ tab' = [tab EXCEPT ![a] = [t \in Tabs |-> [IdleTab EXCEPT !.pc = "take"]]]
  /\ UNCHANGED <<rowsStored, chunkMarked, boundVars>>

(* The heartbeat finds the lock gone, the deadline passes, or the worker      *)
(* shuts down: the controller aborts, and the listener closes the connection. *)
Abort(a) ==
  /\ attempt[a].pc \in {"pool", "mark"} /\ ~attempt[a].aborted
  /\ PoolFault
  /\ attempt' = [attempt EXCEPT ![a].aborted = TRUE, ![a].closed = TRUE]
  /\ \/ owner' = None
     \/ UNCHANGED owner
  /\ UNCHANGED <<tab, rowsStored, chunkMarked, calls, finals>>

(* assertCanContinue of a tab or of the stage *)
MayContinue(a) == ~attempt[a].aborted

-----------------------------------------------------------------------------
(* const idx = next; next += 1: the first release nobody has taken *)
TakeRef(a, t) ==
  /\ tab[a][t].pc = "take"
  /\ \/ attempt[a].left = {} /\ TabAt(a, t, "done") /\ UNCHANGED attempt
     \/ \E r \in attempt[a].left :
          /\ \A q \in attempt[a].left : r <= q
          /\ tab' = [tab EXCEPT ![a][t].pc = "guard", ![a][t].ref = r]
          /\ attempt' = [attempt EXCEPT ![a].left = @ \ {r}]
  /\ UNCHANGED <<owner, rowsStored, chunkMarked, boundVars>>

(* assertCanContinue, the consent, the pacing and assertCanContinue again: any *)
(* of them may throw, and the tab rejects.                                     *)
GuardTab(a, t) ==
  /\ tab[a][t].pc = "guard"
  /\ \/ MayContinue(a) /\ TabAt(a, t, "read") /\ UNCHANGED faults
     \/ ~MayContinue(a) /\ TabAt(a, t, "failed") /\ UNCHANGED faults
     \/ PoolFault /\ TabAt(a, t, "failed")
  /\ UNCHANGED <<owner, attempt, rowsStored, chunkMarked, calls, finals>>

(* extractRelease does not throw here: a navigation that fails, as every one   *)
(* does once the page is closed, is a FAILED outcome, and install(), which is  *)
(* outside its try, has already run for every tab of the pool.  The fence      *)
(* after it, then outcomes.push and batch.push, and the batch is spliced when  *)
(* it is full.                                                                 *)
Pushed(a, item) ==
  LET batch == Append(attempt[a].batch, item) IN
  [attempt EXCEPT ![a].outcomes = Append(@, item),
                  ![a].batch = IF Len(batch) >= CheckpointEvery THEN <<>> ELSE batch]

Spliced(a, item) ==
  IF Len(attempt[a].batch) + 1 >= CheckpointEvery THEN Append(attempt[a].batch, item) ELSE <<>>

(* convergeReleaseRetryOutcome over a batch, against the attempt's own map *)
ConvergeRow(existing, batch) ==
  [r \in Refs |-> LET kinds == {batch[i].kind : i \in {j \in DOMAIN batch : batch[j].ref = r}} IN
     IF kinds = {} THEN None
     ELSE IF existing[r] = "COMPLETED" \/ "COMPLETED" \in kinds THEN "COMPLETED" ELSE "FAILED"]

Overlay(rows, writes) == [r \in Refs |-> IF writes[r] = None THEN rows[r] ELSE writes[r]]

ReadRelease(a, t) ==
  /\ tab[a][t].pc = "read"
  /\ \E kind \in (IF attempt[a].closed THEN {"FAILED"} ELSE {"FAILED", "COMPLETED"}) :
       LET item == [ref |-> tab[a][t].ref, kind |-> kind]
           batch == Spliced(a, item) IN
       IF ~MayContinue(a) THEN TabAt(a, t, "failed") /\ UNCHANGED attempt
       ELSE IF batch = <<>>
       THEN TabAt(a, t, "take") /\ attempt' = Pushed(a, item)
       ELSE LET writes == ConvergeRow(attempt[a].existing, batch) IN
            /\ tab' = [tab EXCEPT ![a][t].pc = "checkpoint", ![a][t].writes = writes]
            /\ attempt' = [Pushed(a, item) EXCEPT ![a].existing = Overlay(@, writes)]
  /\ UNCHANGED <<owner, rowsStored, chunkMarked, boundVars>>

(* onCheckpoint: putOutcomes replaces the rows of the batch *)
CheckpointTab(a, t) ==
  /\ tab[a][t].pc = "checkpoint"
  /\ \/ /\ rowsStored' = Overlay(rowsStored, tab[a][t].writes)
        /\ TabAt(a, t, "take") /\ UNCHANGED faults
     \/ PoolFault /\ TabAt(a, t, "failed") /\ UNCHANGED rowsStored
  /\ UNCHANGED <<owner, attempt, chunkMarked, calls, finals>>

-----------------------------------------------------------------------------
TabStates(a) == {tab[a][t].pc : t \in Tabs}

(* Broken variant: Promise.allSettled, a failed tab is not noticed. *)
PoolDoneSettled(a) == TabStates(a) \subseteq {"done", "failed"}

PoolDone(a) == TabStates(a) = {"done"}

(* Promise.all resolved: the rest of the batch and then all the outcomes are  *)
(* checkpointed, with assertCanContinue before each.                          *)
StoreOutcomes(a) ==
  /\ attempt[a].pc = "pool" /\ PoolDone(a)
  /\ IF MayContinue(a)
     THEN \/ /\ rowsStored' = Overlay(rowsStored, ConvergeRow(attempt[a].existing, attempt[a].outcomes))
             /\ AttemptAt(a, "mark") /\ UNCHANGED faults
          \/ PoolFault /\ AttemptAt(a, "closing") /\ UNCHANGED rowsStored
     ELSE AttemptAt(a, "closing") /\ UNCHANGED <<rowsStored, faults>>
  /\ UNCHANGED <<owner, tab, chunkMarked, calls, finals>>

MarkChunk(a) ==
  /\ attempt[a].pc = "mark"
  /\ \/ /\ MayContinue(a) /\ chunkMarked' = TRUE /\ AttemptAt(a, "done")
        /\ owner' = IF owner = a THEN None ELSE owner
        /\ UNCHANGED faults
     \/ /\ \/ ~MayContinue(a) /\ UNCHANGED faults
           \/ PoolFault
        /\ AttemptAt(a, "closing") /\ UNCHANGED <<owner, chunkMarked>>
  /\ UNCHANGED <<tab, rowsStored, calls, finals>>

(* Promise.all rejected: the finally block closes the pages one by one while  *)
(* the tabs that did not fail go on.                                          *)
RejectPool(a) ==
  /\ attempt[a].pc = "pool" /\ "failed" \in TabStates(a)
  /\ AttemptAt(a, "closing")
  /\ UNCHANGED <<owner, tab, rowsStored, chunkMarked, boundVars>>

(* The work promise has settled, so underAccountLock releases the lock (a     *)
(* compare and delete) and the attempt fails.  The controller is not aborted. *)
ReleaseAttempt(a) ==
  /\ attempt[a].pc = "closing"
  /\ attempt' = [attempt EXCEPT ![a].pc = "failed", ![a].closed = TRUE]
  /\ owner' = IF owner = a THEN None ELSE owner
  /\ UNCHANGED <<tab, rowsStored, chunkMarked, boundVars>>

PoolNext ==
  \E a \in Tries :
    \/ StartAttempt(a) \/ Abort(a)
    \/ StoreOutcomes(a) \/ MarkChunk(a) \/ RejectPool(a) \/ ReleaseAttempt(a)
    \/ \E t \in Tabs :
         TakeRef(a, t) \/ GuardTab(a, t) \/ ReadRelease(a, t) \/ CheckpointTab(a, t)

PoolSpec == PoolInit /\ [][PoolNext]_poolVars

-----------------------------------------------------------------------------
PoolTypeOK ==
  /\ owner \in Tries \cup {None}
  /\ \A a \in Tries :
       /\ attempt[a].pc \in {"off", "pool", "mark", "closing", "failed", "done"}
       /\ attempt[a].left \subseteq attempt[a].todo /\ attempt[a].todo \subseteq Refs
       /\ \A t \in Tabs : tab[a][t].pc \in {"off", "take", "guard", "read", "checkpoint",
                                            "done", "failed"}
  /\ rowsStored \in [Refs -> {None, "FAILED", "COMPLETED"}]
  /\ chunkMarked \in BOOLEAN

(* A chunk is marked complete only when every release of it has a            *)
(* checkpointed outcome, and the attempt that marked it read each release it *)
(* had to read exactly once.                                                 *)
MarkedChunkRead ==
  /\ chunkMarked => \A r \in Refs : rowsStored[r] # None
  /\ \A a \in Tries : attempt[a].pc = "done" =>
       /\ Len(attempt[a].outcomes) = Cardinality(attempt[a].todo)
       /\ {attempt[a].outcomes[i].ref : i \in DOMAIN attempt[a].outcomes} = attempt[a].todo

(* A tab that an earlier attempt left behind never replaces the completed    *)
(* release a later attempt checkpointed.                                     *)
CompletedReleasesKept ==
  [][\A r \in Refs : rowsStored[r] = "COMPLETED" => rowsStored'[r] = "COMPLETED"]_poolVars
=============================================================================
