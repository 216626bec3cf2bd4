--------------------------- MODULE CheckpointCache ---------------------------
(***************************************************************************)
(* TieredSnapshotCheckpointStore (apps/worker/src/distrokid/               *)
(* snapshot-store.ts): PostgreSQL rows with a version column per part, and *)
(* a Redis projection stamped with the version it was made from.  Every    *)
(* await of a store method is a step.  The handlers of one worker process  *)
(* share its map of known versions.  The parts are independent, so a       *)
(* behaviour follows one of them; "index" stands for the parts that are    *)
(* one value replaced as a whole (index, progress, a pass plan).           *)
(***************************************************************************)
EXTENDS ModelBounds

CONSTANTS
  Procs,   \* worker processes
  Slots,   \* handlers a process runs concurrently
  RowKeys  \* releases or chunks of the part, in the order they are paged

ASSUME CacheAssumption ==
  /\ IsFiniteSet(RowKeys) /\ RowKeys # {} /\ RowKeys \subseteq Nat
  /\ None \notin Nat

VARIABLES
  kept,     \* the part: "outcomes", "chunks", "terminal" or "index"
  durRows,  \* PostgreSQL: per key the number of the write it holds, 0 for none
  durRev,   \* PostgreSQL: the part's version column
  hotRows,  \* Redis: the projection
  hotRev,   \* Redis: the version stamp, or None
  known,    \* per process: versions.get(snapshotId)[part]
  handler   \* per process and slot: the store method in flight

cacheState == <<kept, durRows, durRev, hotRows, hotRev, known, handler>>
cacheVars == <<cacheState, boundVars>>

Handlers == Procs \X Slots
ProcOf(h) == h[1]
PartKeys == IF kept \in {"outcomes", "chunks"} THEN RowKeys ELSE {CHOOSE k \in RowKeys : TRUE}
NoRows == [k \in RowKeys |-> 0]
Present(rows) == {k \in RowKeys : rows[k] # 0}
Idle == [pc |-> "idle", op |-> None, key |-> None, version |-> None, stamp |-> None,
         rows |-> NoRows, todo |-> {}, since |-> NoRows]

CacheInit ==
  /\ kept \in {"outcomes", "chunks", "terminal", "index"}
  /\ durRows = NoRows /\ durRev = 0
  /\ hotRows = NoRows /\ hotRev = None
  /\ known = [p \in Procs |-> 0]
  /\ handler = [h \in Handlers |-> Idle]
  /\ BoundsInit

(* completedChunkCount for chunks, the version column otherwise *)
DurableVersion == IF kept = "chunks" THEN Cardinality(Present(durRows)) ELSE durRev

MoveHandler(h, new) == handler' = [handler EXCEPT ![h] = new]
GoTo(h, pc) == handler' = [handler EXCEPT ![h].pc = pc]
Fault == faults < MaxFaults /\ faults' = faults + 1

-----------------------------------------------------------------------------
(* bindSnapshot, at the start of every job *)
BindSnapshot(p) ==
  /\ \A h \in Handlers : ProcOf(h) = p => handler[h].pc = "idle"
  /\ known[p] # durRev
  /\ known' = [known EXCEPT ![p] = durRev]
  /\ UNCHANGED <<kept, durRows, durRev, hotRows, hotRev, handler, boundVars>>

(* Broken variant: every put replaces the row, a second tombstone too. *)
UpsertedRowLastWins(key, n) == [durRows EXCEPT ![key] = n]

(* The rows after a put: an upsert, except that the first chunk mark and   *)
(* the first tombstone win.                                                *)
UpsertedRow(key, n) ==
  IF kept \in {"chunks", "terminal"} /\ durRows[key] # 0 THEN durRows
  ELSE [durRows EXCEPT ![key] = n]

(* The transaction of a put; bumpVersion publishes the version to the      *)
(* process before COMMIT, so a failed commit leaves it ahead.  Parallel    *)
(* tabs checkpoint the outcomes of different releases.                     *)
Commit(h) ==
  \E key \in PartKeys :
    LET rows == UpsertedRow(key, calls + 1)
        rev == IF rows = durRows THEN durRev ELSE durRev + 1
    IN /\ handler[h].pc = "idle" /\ calls < MaxCalls
       /\ kept = "outcomes" => \A other \in Handlers : handler[other].pc # "idle" => handler[other].key # key
       /\ calls' = calls + 1
       /\ known' = [known EXCEPT ![ProcOf(h)] = IF rows = durRows THEN @ ELSE rev]
       /\ \/ /\ durRows' = rows /\ durRev' = rev
             /\ handler' = [handler EXCEPT ![h] =
                  [Idle EXCEPT !.pc = "resume", !.op = "put", !.key = key,
                               !.rows = [NoRows EXCEPT ![key] = rows[key]]]]
             /\ UNCHANGED faults
          \/ /\ Fault /\ UNCHANGED <<durRows, durRev, handler>>
       /\ UNCHANGED <<kept, hotRows, hotRev, finals>>

(* The handler resumes: outcomes and chunks look at the stamp to choose    *)
(* between adding and replacing, other parts overwrite.                    *)
ResumePut(h) ==
  /\ handler[h].pc = "resume"
  /\ IF kept \in {"outcomes", "chunks"}
     THEN MoveHandler(h, [handler[h] EXCEPT !.pc = "peek",
                     !.version = IF kept = "chunks" THEN DurableVersion ELSE known[ProcOf(h)]])
     ELSE MoveHandler(h, [handler[h] EXCEPT !.pc = "write", !.stamp = known[ProcOf(h)],
                                            !.todo = PartKeys])
  /\ UNCHANGED <<kept, durRows, durRev, hotRows, hotRev, known, boundVars>>

(* hotVersion === version || hotVersion === version - 1n *)
AddsToProjection(stamp, version) == stamp # None /\ stamp + 1 \in {version, version + 1}

(* The stamp is read, then cacheProjection takes the process's version. *)
PeekStamp(h) ==
  /\ handler[h].pc = "peek"
  /\ \E stamp \in {hotRev, None} :
       /\ IF stamp # hotRev THEN Fault ELSE UNCHANGED faults
       /\ MoveHandler(h, [handler[h] EXCEPT
                   !.pc = IF AddsToProjection(stamp, handler[h].version) THEN "write" ELSE "load",
                   !.todo = {handler[h].key},
                   !.stamp = IF kept = "chunks" THEN handler[h].version ELSE known[ProcOf(h)]])
  /\ UNCHANGED <<kept, durRows, durRev, hotRows, hotRev, known, calls, finals>>

-----------------------------------------------------------------------------
(* get*: refreshVersion, or the chunk count *)
Refresh(h) ==
  /\ handler[h].pc = "idle" /\ calls < MaxCalls /\ calls' = calls + 1
  /\ known' = IF kept = "chunks" THEN known ELSE [known EXCEPT ![ProcOf(h)] = durRev]
  /\ handler' = [handler EXCEPT ![h] =
       [Idle EXCEPT !.pc = "match", !.op = "get", !.version = DurableVersion, !.since = durRows]]
  /\ UNCHANGED <<kept, durRows, durRev, hotRows, hotRev, faults, finals>>

(* hotMatchesDurable: equal versions let the projection answer *)
MatchStamp(h) ==
  /\ handler[h].pc = "match"
  /\ \/ /\ GoTo(h, IF hotRev = handler[h].version THEN "hot" ELSE "load") /\ UNCHANGED faults
     \/ /\ Fault /\ GoTo(h, "load")
  /\ UNCHANGED <<kept, durRows, durRev, hotRows, hotRev, known, calls, finals>>

(* An empty projection is no answer, except of outcomes at version 0;      *)
(* chunks must be as many as were counted.                                 *)
HotAnswers(h) ==
  IF kept = "chunks" THEN Cardinality(Present(hotRows)) = handler[h].version
  ELSE Present(hotRows) # {} \/ (kept = "outcomes" /\ known[ProcOf(h)] = 0)

ReadHot(h) ==
  /\ handler[h].pc = "hot"
  /\ \/ /\ HotAnswers(h) /\ MoveHandler(h, [handler[h] EXCEPT !.pc = "answer", !.rows = hotRows])
        /\ UNCHANGED faults
     \/ /\ ~HotAnswers(h) /\ GoTo(h, "load") /\ UNCHANGED faults
     \/ /\ Fault /\ GoTo(h, "load")
  /\ UNCHANGED <<kept, durRows, durRev, hotRows, hotRev, known, calls, finals>>

(* The durable rows are read to answer, to replace the projection, or      *)
(* both; an absent value is not projected.                                 *)
LoadDurable(h) ==
  LET stamp == IF kept = "chunks"
               THEN IF handler[h].op = "put" THEN handler[h].version
                    ELSE Cardinality(Present(durRows))
               ELSE IF handler[h].op = "put" THEN handler[h].stamp ELSE known[ProcOf(h)]
      pc == IF kept \in {"outcomes", "chunks"} THEN "delete"
            ELSE IF kept = "index" \/ Present(durRows) # {} THEN "write" ELSE "answer"
  IN /\ handler[h].pc = "load"
     /\ MoveHandler(h, [handler[h] EXCEPT !.pc = pc, !.rows = durRows,
                                           !.todo = Present(durRows), !.stamp = stamp])
     /\ UNCHANGED <<kept, durRows, durRev, hotRows, hotRev, known, boundVars>>

-----------------------------------------------------------------------------
(* After the projection a put is done and a get returns its durable rows. *)
Leave(h) == IF handler[h].op = "put" THEN "idle" ELSE "answer"

(* replaceOutcomes, replaceCompletedChunks: del first *)
DeleteHot(h) ==
  /\ handler[h].pc = "delete"
  /\ hotRows' = NoRows
  /\ GoTo(h, "write")
  /\ UNCHANGED <<kept, durRows, durRev, hotRev, known, boundVars>>

(* one hset, sadd or set at a time, in key order *)
WriteHot(h) ==
  /\ handler[h].pc = "write"
  /\ \E k \in handler[h].todo :
       /\ \A other \in handler[h].todo : k <= other
       /\ hotRows' = [hotRows EXCEPT ![k] = handler[h].rows[k]]
       /\ MoveHandler(h, [handler[h] EXCEPT !.todo = @ \ {k}])
  /\ UNCHANGED <<kept, durRows, durRev, hotRev, known, boundVars>>

(* putVersion, written last *)
PutVersion(h) ==
  /\ handler[h].pc = "write" /\ handler[h].todo = {}
  /\ hotRev' = handler[h].stamp
  /\ GoTo(h, Leave(h))
  /\ UNCHANGED <<kept, durRows, durRev, hotRows, known, boundVars>>

(* cacheWrite swallows a failed Redis call *)
CacheWriteFails(h) ==
  /\ handler[h].pc \in {"delete", "write"} /\ Fault
  /\ GoTo(h, Leave(h))
  /\ UNCHANGED <<kept, durRows, durRev, hotRows, hotRev, known, calls, finals>>

Answer(h) ==
  /\ handler[h].pc = "answer"
  /\ handler' = [handler EXCEPT ![h] = Idle]
  /\ UNCHANGED <<kept, durRows, durRev, hotRows, hotRev, known, boundVars>>

(* A worker dies and its next job binds the snapshot again. *)
CrashProcess(p) ==
  /\ Fault /\ \E h \in Handlers : ProcOf(h) = p /\ handler[h].pc # "idle"
  /\ handler' = [h \in Handlers |-> IF ProcOf(h) = p THEN Idle ELSE handler[h]]
  /\ known' = [known EXCEPT ![p] = durRev]
  /\ UNCHANGED <<kept, durRows, durRev, hotRows, hotRev, calls, finals>>

CacheNext ==
  \/ \E p \in Procs : BindSnapshot(p) \/ CrashProcess(p)
  \/ \E h \in Handlers :
       \/ Commit(h) \/ ResumePut(h) \/ PeekStamp(h)
       \/ Refresh(h) \/ MatchStamp(h) \/ ReadHot(h) \/ LoadDurable(h)
       \/ DeleteHot(h) \/ WriteHot(h) \/ PutVersion(h) \/ CacheWriteFails(h) \/ Answer(h)

CacheSpec == CacheInit /\ [][CacheNext]_cacheVars

-----------------------------------------------------------------------------
CacheTypeOK ==
  /\ durRows \in [RowKeys -> 0..MaxCalls] /\ durRev \in 0..MaxCalls
  /\ hotRows \in [RowKeys -> 0..MaxCalls] /\ hotRev \in (0..MaxCalls) \cup {None}
  /\ known \in [Procs -> 0..MaxCalls]
  /\ \A h \in Handlers :
       handler[h].pc \in {"idle", "resume", "peek", "match", "hot", "load", "delete", "write", "answer"}

(* Whichever handlers, crashes and failed Redis calls come in between, the *)
(* marks a reader is told are durable: no chunk is reported complete and   *)
(* no tombstone answered that PostgreSQL does not hold, the cache never    *)
(* names a second winner, and a tombstone that was durable when the read   *)
(* began is never missed (completedChunks, getTerminal, claimTerminal).    *)
(* The pipeline finalizes on the first and refuses work on the second.     *)
MarksReadDurable ==
  \A h \in Handlers, k \in RowKeys :
    handler[h].pc = "answer" /\ kept \in {"chunks", "terminal"} =>
      /\ handler[h].rows[k] \in {0, durRows[k]}
      /\ kept = "terminal" /\ handler[h].since[k] # 0 => handler[h].rows[k] = handler[h].since[k]

(* What cacheProjection's comment promises of its stamp: equality proves   *)
(* the projection complete for this durable revision, and an outage leaves *)
(* only an old or missing version, never a false hit.  Stated for the      *)
(* outcomes, which the parallel tabs of one worker checkpoint, and for the *)
(* moments when no handler is at work.                                     *)
NoFalseHit ==
  /\ kept = "outcomes" /\ \A h \in Handlers : handler[h].pc = "idle"
  /\ hotRev = DurableVersion /\ Present(hotRows) # {}
  => hotRows = durRows
=============================================================================
