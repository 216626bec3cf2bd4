----------------------- MODULE CatalogueReading_proofs -----------------------
(***************************************************************************)
(* Proofs about the components that read a catalogue and the stores: the   *)
(* checkpoint cache, the tabs of a chunk job, the walk over a store, the   *)
(* shared search provider, the index reader, the network extractor, and the *)
(* audit with its matching.  Each part has its own specification, invariant *)
(* and theorem.                                                            *)
(***************************************************************************)
EXTENDS CatalogueReading, FiniteSetTheorems, WellFoundedInduction, TLAPS

-----------------------------------------------------------------------------
(* The checkpoint cache. *)

Kinds == {"outcomes", "chunks", "terminal", "index"}
Writes == 0 .. MaxCalls
Versions == Writes \cup {None}
CacheRows == [RowKeys -> Writes]
CachePcs ==
    {"idle", "resume", "peek", "match", "hot", "load", "delete", "write", "answer"}
StoreCalls == [pc : CachePcs, op : {None, "put", "get"}, key : RowKeys \cup {None},
               version : Versions, stamp : Versions, rows : CacheRows, todo : SUBSET RowKeys,
               since : CacheRows]

(* Every write of a row took a version, so no version passes the number of   *)
(* writes; a put names its key.                                               *)
CacheSane ==
    /\ kept \in Kinds
    /\ calls \in Writes /\ durRows \in CacheRows /\ durRev \in 0 .. calls
    /\ hotRows \in CacheRows /\ hotRev \in Versions
    /\ known \in [Procs -> Writes]
    /\ handler \in [Handlers -> StoreCalls]
    /\ kept = "chunks" => Cardinality(Present(durRows)) <= durRev
    /\ \A h \in Handlers : handler[h].pc \in {"resume", "peek"} => handler[h].key \in RowKeys

\* The marks that stand for something are never replaced by others.
Marks == kept \in {"chunks", "terminal"}

\* Rows that were copied from the durable ones at some time.
CopiedRows(rows) == \A k \in RowKeys : rows[k] \in {0, durRows[k]}

(* Whatever the projection and the calls in flight hold is a copy; and what a *)
(* read was begun after is in what it is going to answer.                     *)
CopiesInv ==
    /\ Marks =>
         /\ CopiedRows(hotRows)
         /\ \A h \in Handlers : CopiedRows(handler[h].rows) /\ CopiedRows(handler[h].since)
    /\ kept = "terminal" =>
         /\ \A k \in RowKeys : durRows[k] # 0 => k \in PartKeys
         /\ \A h \in Handlers : handler[h].pc \in {"delete", "write", "answer"} =>
              \A k \in RowKeys : handler[h].since[k] # 0 => handler[h].rows[k] = handler[h].since[k]
    /\ \A h \in Handlers :
         /\ handler[h].pc \in {"resume", "peek"} => handler[h].op = "put"
         /\ handler[h].op # "get" => handler[h].since = NoRows

CacheInv == CacheSane /\ CopiesInv

LEMMA CacheInitInv == CacheInit => CacheInv
<1> SUFFICES ASSUME CacheInit PROVE CacheInv
  OBVIOUS
<1>1. NoRows \in CacheRows /\ 0 \in Writes
  BY BoundsAssumption DEF NoRows, CacheRows, Writes
<1>2. Idle \in StoreCalls
  BY <1>1 DEF Idle, StoreCalls, Versions, CachePcs
<1>3. Present(NoRows) = {} /\ Cardinality({}) = 0
  BY FS_EmptySet DEF Present, NoRows
<1>4. CacheSane
  BY <1>1, <1>2, <1>3 DEF CacheInit, BoundsInit, CacheSane, Kinds, Versions, Idle
<1>5. CopiesInv
  BY DEF CacheInit, CopiesInv, CopiedRows, NoRows, Idle
<1> QED BY <1>4, <1>5 DEF CacheInv

(* What the durable rows may do in a step: a put is done, or nothing.        *)
DurableStep ==
    \/ UNCHANGED <<durRows, durRev>> /\ calls' \in {calls, calls + 1}
    \/ \E key \in PartKeys :
         /\ durRows' = UpsertedRow(key, calls + 1)
         /\ calls' = calls + 1
         /\ durRev' = IF durRows' = durRows THEN durRev ELSE durRev + 1

LEMMA DurableKept ==
    ASSUME CacheSane, DurableStep, kept' = kept, calls' \in Writes
    PROVE  /\ durRows' \in CacheRows /\ durRev' \in 0 .. calls'
           /\ kept = "chunks" => Cardinality(Present(durRows')) <= durRev'
           /\ Marks => \A k \in RowKeys : durRows[k] # 0 => durRows'[k] = durRows[k]
           /\ kept = "terminal" => ((\A k \in RowKeys : durRows[k] # 0 => k \in PartKeys) =>
                                      \A k \in RowKeys : durRows'[k] # 0 => k \in PartKeys)
<1>1. calls \in Nat /\ durRev \in Nat /\ MaxCalls \in Nat
  BY BoundsAssumption DEF CacheSane, Writes
<1>2. CASE UNCHANGED <<durRows, durRev>> /\ calls' \in {calls, calls + 1}
  BY <1>1, <1>2 DEF CacheSane, Present
<1>3. CASE \E key \in PartKeys :
             /\ durRows' = UpsertedRow(key, calls + 1) /\ calls' = calls + 1
             /\ durRev' = IF durRows' = durRows THEN durRev ELSE durRev + 1
  <2>1. PICK key \in PartKeys :
             /\ durRows' = UpsertedRow(key, calls + 1) /\ calls' = calls + 1
             /\ durRev' = IF durRows' = durRows THEN durRev ELSE durRev + 1
    BY <1>3
  <2>2. key \in RowKeys
    BY CacheAssumption DEF PartKeys
  <2>3. calls + 1 \in Writes
    BY <2>1
  <2>4. durRows' \in CacheRows
    BY <2>1, <2>2, <2>3 DEF UpsertedRow, CacheRows, CacheSane
  <2>5. durRev' \in 0 .. calls'
    BY <1>1, <2>1 DEF CacheSane
  <2>6. Marks => \A k \in RowKeys : durRows[k] # 0 => durRows'[k] = durRows[k]
    BY <2>1, <2>2 DEF Marks, UpsertedRow, CacheRows, CacheSane
  <2>7. ASSUME kept = "chunks" PROVE Cardinality(Present(durRows')) <= durRev'
    <3>1. CASE durRows' = durRows
      BY <2>1, <2>7, <3>1 DEF CacheSane, Present
    <3>2. CASE durRows' # durRows
      <4>1. Present(durRows') = Present(durRows) \cup {key}
        BY <1>1, <2>1, <2>2, <2>7, <3>2 DEF UpsertedRow, Present, CacheRows, CacheSane
      <4>2. IsFiniteSet(Present(durRows))
        BY CacheAssumption, FS_Subset DEF Present
      <4>3. Cardinality(Present(durRows)) <= durRev /\ Cardinality(Present(durRows)) \in Nat
        BY <2>7, <4>2, FS_CardinalityType DEF CacheSane
      <4>4. Cardinality(Present(durRows) \cup {key})
              = IF key \in Present(durRows) THEN Cardinality(Present(durRows))
                ELSE Cardinality(Present(durRows)) + 1
        BY <4>2, FS_AddElement
      <4> QED BY <1>1, <2>1, <3>2, <4>1, <4>3, <4>4
    <3> QED BY <3>1, <3>2
  <2>8. kept = "terminal" => ((\A k \in RowKeys : durRows[k] # 0 => k \in PartKeys) =>
                                      \A k \in RowKeys : durRows'[k] # 0 => k \in PartKeys)
    BY <2>1, <2>2 DEF UpsertedRow, CacheRows, CacheSane
  <2> QED BY <2>4, <2>5, <2>6, <2>7, <2>8
<1> QED BY <1>2, <1>3 DEF DurableStep

(* What a call in flight may become.  A step moves one call, or ends some    *)
(* of them.                                                                   *)
CallStep(h) ==
    /\ handler'[h] \in StoreCalls
    /\ handler'[h].pc \in {"resume", "peek"} => handler'[h].key \in RowKeys /\ handler'[h].op = "put"
    /\ handler'[h].op # "get" => handler'[h].since = NoRows
    /\ Marks => CopiedRows(handler[h].rows)' /\ CopiedRows(handler[h].since)'
    /\ kept = "terminal" /\ handler'[h].pc \in {"delete", "write", "answer"} =>
         \A k \in RowKeys : handler'[h].since[k] # 0 => handler'[h].rows[k] = handler'[h].since[k]

(* What a step does, the calls in flight apart. *)
SharedStep ==
    /\ kept' = kept /\ calls' \in Writes /\ DurableStep
    /\ hotRows' \in CacheRows /\ hotRev' \in Versions
    /\ known' \in [Procs -> Writes]
    /\ Marks => \A k \in RowKeys : hotRows'[k] \in {0, durRows[k]}

\* Copies stay copies when a mark is added.
LEMMA CopiesStay ==
    ASSUME CacheInv, SharedStep, Marks, NEW rows, \A k \in RowKeys : rows[k] \in {0, durRows[k]}
    PROVE  \A k \in RowKeys : rows[k] \in {0, durRows'[k]}
<1>1. \A k \in RowKeys : durRows[k] # 0 => durRows'[k] = durRows[k]
  BY DurableKept DEF CacheInv, SharedStep
<1> QED BY <1>1

\* A call that does not move stays what it was.
LEMMA CallStays ==
    ASSUME CacheInv, SharedStep, NEW h \in Handlers, handler'[h] = handler[h]
    PROVE  CallStep(h)
<1>1. Marks => CopiedRows(handler[h].rows)' /\ CopiedRows(handler[h].since)'
  <2> SUFFICES ASSUME Marks PROVE CopiedRows(handler[h].rows)' /\ CopiedRows(handler[h].since)'
    OBVIOUS
  <2>1. \A k \in RowKeys : handler[h].rows[k] \in {0, durRows[k]}
    BY DEF CacheInv, CopiesInv, CopiedRows
  <2>2. \A k \in RowKeys : handler[h].since[k] \in {0, durRows[k]}
    BY DEF CacheInv, CopiesInv, CopiedRows
  <2> QED BY <2>1, <2>2, CopiesStay DEF CopiedRows
<1> QED BY <1>1 DEF CacheInv, CacheSane, CopiesInv, CallStep, CopiedRows

LEMMA StepCacheInv ==
    ASSUME CacheInv, SharedStep, \A h \in Handlers : CallStep(h),
           handler' \in [Handlers -> StoreCalls]
    PROVE  CacheInv'
<1>1. CacheSane'
  <2>1. durRows' \in CacheRows /\ durRev' \in 0 .. calls'
        /\ (kept = "chunks" => Cardinality(Present(durRows')) <= durRev')
    BY DurableKept DEF CacheInv, SharedStep
  <2> QED BY <2>1 DEF SharedStep, CallStep, CacheInv, CacheSane, CacheRows, Writes, Versions,
                      StoreCalls, CachePcs, Present
<1>2. CopiesInv'
  <2>1. Marks' <=> Marks
    BY DEF Marks, SharedStep
  <2>2. Marks => CopiedRows(hotRows)'
    BY CopiesStay DEF SharedStep, CopiedRows
  <2>3. kept = "terminal" => (\A k \in RowKeys : durRows[k] # 0 => k \in PartKeys)'
    BY DurableKept DEF CacheInv, CopiesInv, SharedStep, PartKeys
  <2> QED BY <2>1, <2>2, <2>3 DEF CopiesInv, CallStep, SharedStep, CopiedRows
<1> QED BY <1>1, <1>2 DEF CacheInv

LEMMA Moved ==
    ASSUME CacheInv, SharedStep, NEW h \in Handlers, NEW new, MoveHandler(h, new), CallStep(h)
    PROVE  CacheInv'
<1>1. handler \in [Handlers -> StoreCalls]
  BY DEF CacheInv, CacheSane
<1>2. handler'[h] = new /\ new \in StoreCalls
  BY <1>1 DEF MoveHandler, CallStep
<1>3. handler' \in [Handlers -> StoreCalls] /\ \A g \in Handlers : g # h => handler'[g] = handler[g]
  BY <1>1, <1>2 DEF MoveHandler
<1>4. \A g \in Handlers : CallStep(g)
  BY <1>3, CallStays
<1> QED BY <1>3, <1>4, StepCacheInv

LEMMA GoesTo ==
    ASSUME CacheInv, NEW h \in Handlers, NEW p, GoTo(h, p)
    PROVE  MoveHandler(h, [handler[h] EXCEPT !.pc = p])
BY DEF CacheInv, CacheSane, GoTo, MoveHandler

\* Most steps leave the rows and the counters alone.
LEMMA QuietShared ==
    ASSUME CacheInv, UNCHANGED <<kept, durRows, durRev, hotRows, hotRev, known, calls>>
    PROVE  SharedStep
BY DEF CacheInv, CacheSane, CopiesInv, CopiedRows, SharedStep, DurableStep

LEMMA CommitStep ==
    ASSUME CacheInv, NEW h \in Handlers, Commit(h)
    PROVE  CacheInv'
<1>1. PICK key \in PartKeys :
         LET rows == UpsertedRow(key, calls + 1)
             rev == IF rows = durRows THEN durRev ELSE durRev + 1
         IN /\ calls < MaxCalls
            /\ calls' = calls + 1
            /\ known' = [known EXCEPT ![ProcOf(h)] = IF rows = durRows THEN @ ELSE rev]
            /\ \/ /\ durRows' = rows /\ durRev' = rev
                  /\ handler' = [handler EXCEPT ![h] =
                       [Idle EXCEPT !.pc = "resume", !.op = "put", !.key = key,
                                    !.rows = [NoRows EXCEPT ![key] = rows[key]]]]
               \/ UNCHANGED <<durRows, durRev, handler>>
            /\ UNCHANGED <<kept, hotRows, hotRev, finals>>
  BY DEF Commit
<1> DEFINE rows == UpsertedRow(key, calls + 1)
           rev == IF rows = durRows THEN durRev ELSE durRev + 1
<1>2. calls \in Nat /\ durRev \in 0 .. calls /\ calls + 1 \in Writes /\ MaxCalls \in Nat
  BY <1>1, BoundsAssumption DEF CacheInv, CacheSane, Writes
<1>3. rev \in Writes
  BY <1>2 DEF Writes
<1>4. known' \in [Procs -> Writes]
  BY <1>1, <1>3 DEF CacheInv, CacheSane
<1>5. DurableStep
  BY <1>1 DEF DurableStep
<1>6. SharedStep
  BY <1>1, <1>2, <1>4, <1>5 DEF CacheInv, CacheSane, CopiesInv, CopiedRows, SharedStep
<1>7. CASE UNCHANGED handler
  <2>1. \A g \in Handlers : CallStep(g)
    BY <1>6, <1>7, CallStays
  <2> QED BY <1>6, <1>7, <2>1, StepCacheInv DEF CacheInv, CacheSane
<1>8. CASE /\ durRows' = rows
           /\ handler' = [handler EXCEPT ![h] =
                [Idle EXCEPT !.pc = "resume", !.op = "put", !.key = key,
                             !.rows = [NoRows EXCEPT ![key] = rows[key]]]]
  <2> DEFINE new == [Idle EXCEPT !.pc = "resume", !.op = "put", !.key = key,
                                 !.rows = [NoRows EXCEPT ![key] = rows[key]]]
  <2>1. key \in RowKeys
    BY CacheAssumption DEF PartKeys
  <2>2. rows \in CacheRows
    BY <1>6, <1>8, DurableKept DEF CacheInv, SharedStep
  <2>3. NoRows \in CacheRows /\ [NoRows EXCEPT ![key] = rows[key]] \in CacheRows
    BY <2>1, <2>2, BoundsAssumption DEF NoRows, CacheRows, Writes
  <2>4. new \in StoreCalls
    BY <2>1, <2>3 DEF Idle, StoreCalls, CachePcs, Versions
  <2>5. handler'[h] = new
    BY <1>8 DEF CacheInv, CacheSane
  <2>6. new.pc = "resume" /\ new.op = "put" /\ new.key = key /\ new.since = NoRows
        /\ new.rows = [NoRows EXCEPT ![key] = rows[key]]
    BY DEF Idle
  <2>7. CopiedRows(handler[h].rows)' /\ CopiedRows(handler[h].since)'
    BY <1>8, <2>1, <2>2, <2>5, <2>6 DEF CopiedRows, NoRows, CacheRows
  <2> HIDE DEF new
  <2>8. CallStep(h)
    BY <2>1, <2>4, <2>5, <2>6, <2>7 DEF CallStep
  <2>9. MoveHandler(h, new)
    BY <1>8 DEF MoveHandler, new
  <2> QED BY <1>6, <2>8, <2>9, Moved
<1> QED BY <1>1, <1>7, <1>8

LEMMA VersionType ==
    ASSUME CacheInv
    PROVE  DurableVersion \in Writes /\ durRev \in Writes /\ Cardinality(Present(durRows)) \in Nat
<1>1. IsFiniteSet(Present(durRows))
  BY CacheAssumption, FS_Subset DEF Present
<1>2. Cardinality(Present(durRows)) \in Nat
  BY <1>1, FS_CardinalityType
<1>3. durRev \in Writes
  BY BoundsAssumption DEF CacheInv, CacheSane, Writes
<1>4. kept = "chunks" => Cardinality(Present(durRows)) \in Writes
  BY <1>2, <1>3, BoundsAssumption DEF CacheInv, CacheSane, Writes
<1> QED BY <1>2, <1>3, <1>4 DEF DurableVersion

LEMMA ResumePutStep ==
    ASSUME CacheInv, NEW h \in Handlers, ResumePut(h)
    PROVE  CacheInv'
<1>1. SharedStep
  BY QuietShared DEF ResumePut, boundVars
<1> DEFINE peek == [handler[h] EXCEPT !.pc = "peek",
                      !.version = IF kept = "chunks" THEN DurableVersion ELSE known[ProcOf(h)]]
           write == [handler[h] EXCEPT !.pc = "write", !.stamp = known[ProcOf(h)],
                                       !.todo = PartKeys]
<1>2. handler[h] \in StoreCalls /\ handler[h].pc = "resume" /\ handler[h].op = "put"
      /\ handler[h].key \in RowKeys /\ handler[h].since = NoRows
  BY DEF CacheInv, CacheSane, CopiesInv, ResumePut
<1>3. known[ProcOf(h)] \in Writes
  BY DEF CacheInv, CacheSane, Handlers, ProcOf
<1>4. DurableVersion \in Writes
  BY VersionType
<1>5. PartKeys \subseteq RowKeys
  BY CacheAssumption DEF PartKeys
<1>6. peek \in StoreCalls /\ peek.pc = "peek" /\ peek.op = "put" /\ peek.key = handler[h].key
      /\ peek.rows = handler[h].rows /\ peek.since = NoRows
  BY <1>2, <1>3, <1>4 DEF StoreCalls, CachePcs, Versions
<1>7. write \in StoreCalls /\ write.pc = "write" /\ write.op = "put"
      /\ write.rows = handler[h].rows /\ write.since = NoRows
  BY <1>2, <1>3, <1>5 DEF StoreCalls, CachePcs, Versions
<1>8. Marks => CopiedRows(handler[h].rows) /\ CopiedRows(NoRows)
  BY DEF CacheInv, CopiesInv, CopiedRows, NoRows
<1>9. durRows' = durRows /\ kept' = kept
  BY DEF ResumePut
<1> HIDE DEF peek, write
<1>10. CASE MoveHandler(h, peek)
  <2>1. handler'[h] = peek
    BY <1>10 DEF MoveHandler, CacheInv, CacheSane
  <2>2. CallStep(h)
    BY <1>2, <1>6, <1>8, <1>9, <2>1 DEF CallStep, CopiedRows
  <2> QED BY <1>1, <1>10, <2>2, Moved
<1>11. CASE MoveHandler(h, write)
  <2>1. handler'[h] = write
    BY <1>11 DEF MoveHandler, CacheInv, CacheSane
  <2>2. CallStep(h)
    BY <1>7, <1>8, <1>9, <2>1 DEF CallStep, CopiedRows, NoRows
  <2> QED BY <1>1, <1>11, <2>2, Moved
<1> QED BY <1>10, <1>11 DEF ResumePut, peek, write

LEMMA PeekStampStep ==
    ASSUME CacheInv, NEW h \in Handlers, PeekStamp(h)
    PROVE  CacheInv'
<1>1. SharedStep
  BY QuietShared DEF PeekStamp
<1>2. handler[h] \in StoreCalls /\ handler[h].pc = "peek" /\ handler[h].op = "put"
      /\ handler[h].key \in RowKeys /\ handler[h].since = NoRows
  BY DEF CacheInv, CacheSane, CopiesInv, PeekStamp
<1>3. known[ProcOf(h)] \in Writes
  BY DEF CacheInv, CacheSane, Handlers, ProcOf
<1>4. PICK pc \in {"write", "load"}, stamp \in Versions :
        MoveHandler(h, [handler[h] EXCEPT !.pc = pc, !.todo = {handler[h].key}, !.stamp = stamp])
  BY <1>2, <1>3 DEF PeekStamp, StoreCalls, Versions
<1> DEFINE new == [handler[h] EXCEPT !.pc = pc, !.todo = {handler[h].key}, !.stamp = stamp]
<1>5. new \in StoreCalls /\ new.pc = pc /\ new.op = "put"
      /\ new.rows = handler[h].rows /\ new.since = NoRows
  BY <1>2 DEF StoreCalls, CachePcs
<1>6. Marks => CopiedRows(handler[h].rows) /\ CopiedRows(NoRows)
  BY DEF CacheInv, CopiesInv, CopiedRows, NoRows
<1>7. durRows' = durRows /\ kept' = kept
  BY DEF PeekStamp
<1> HIDE DEF new
<1>8. MoveHandler(h, new)
  BY <1>4 DEF new
<1>9. handler'[h] = new
  BY <1>8 DEF MoveHandler, CacheInv, CacheSane
<1>10. CallStep(h)
  BY <1>5, <1>6, <1>7, <1>9 DEF CallStep, CopiedRows, NoRows
<1> QED BY <1>1, <1>8, <1>10, Moved

LEMMA RefreshStep ==
    ASSUME CacheInv, NEW h \in Handlers, Refresh(h)
    PROVE  CacheInv'
<1>1. calls \in Nat /\ MaxCalls \in Nat /\ calls' = calls + 1 /\ calls' \in Writes
  BY BoundsAssumption DEF Refresh, CacheInv, CacheSane, Writes
<1>2. known' \in [Procs -> Writes] /\ DurableVersion \in Writes
  BY VersionType DEF Refresh, CacheInv, CacheSane
<1>3. SharedStep
  BY <1>1, <1>2 DEF Refresh, CacheInv, CacheSane, CopiesInv, CopiedRows, SharedStep, DurableStep
<1> DEFINE new == [Idle EXCEPT !.pc = "match", !.op = "get", !.version = DurableVersion,
                               !.since = durRows]
<1>4. NoRows \in CacheRows /\ durRows \in CacheRows
  BY BoundsAssumption DEF NoRows, CacheRows, Writes, CacheInv, CacheSane
<1>5. new \in StoreCalls /\ new.pc = "match" /\ new.op = "get" /\ new.rows = NoRows
      /\ new.since = durRows
  BY <1>2, <1>4 DEF StoreCalls, CachePcs, Versions, Idle
<1> HIDE DEF new
<1>6. MoveHandler(h, new)
  BY DEF Refresh, MoveHandler, new
<1>7. handler'[h] = new /\ durRows' = durRows
  BY <1>6 DEF Refresh, MoveHandler, CacheInv, CacheSane
<1>8. CallStep(h)
  BY <1>5, <1>7 DEF CallStep, CopiedRows, NoRows
<1> QED BY <1>3, <1>6, <1>8, Moved

\* A call that only goes on keeps what it has.
LEMMA GoesOn ==
    ASSUME CacheInv, SharedStep, NEW h \in Handlers, NEW p \in CachePcs \ {"resume", "peek"},
           GoTo(h, p), UNCHANGED <<durRows, kept>>,
           p \in {"delete", "write", "answer"} => handler[h].pc \in {"delete", "write", "answer"}
    PROVE  CacheInv'
<1> DEFINE new == [handler[h] EXCEPT !.pc = p]
<1>1. handler[h] \in StoreCalls
  BY DEF CacheInv, CacheSane
<1>2. new \in StoreCalls /\ new.pc = p /\ new.op = handler[h].op
      /\ new.rows = handler[h].rows /\ new.since = handler[h].since
  BY <1>1 DEF StoreCalls
<1> HIDE DEF new
<1>3. MoveHandler(h, new)
  BY GoesTo DEF new
<1>4. handler'[h] = new
  BY <1>3 DEF MoveHandler, CacheInv, CacheSane
<1>5. CallStep(h)
  BY <1>2, <1>4 DEF CallStep, CacheInv, CopiesInv, CopiedRows
<1> QED BY <1>3, <1>5, Moved

LEMMA MatchStampStep ==
    ASSUME CacheInv, NEW h \in Handlers, MatchStamp(h)
    PROVE  CacheInv'
<1>1. SharedStep
  BY QuietShared DEF MatchStamp
<1>2. PICK p \in {"hot", "load"} : GoTo(h, p)
  BY DEF MatchStamp
<1> QED BY <1>1, <1>2, GoesOn DEF MatchStamp, CachePcs

LEMMA ReadHotStep ==
    ASSUME CacheInv, NEW h \in Handlers, ReadHot(h)
    PROVE  CacheInv'
<1>1. SharedStep
  BY QuietShared DEF ReadHot
<1>2. CASE GoTo(h, "load")
  BY <1>1, <1>2, GoesOn DEF ReadHot, CachePcs
<1>3. CASE HotAnswers(h) /\ MoveHandler(h, [handler[h] EXCEPT !.pc = "answer", !.rows = hotRows])
  <2> DEFINE new == [handler[h] EXCEPT !.pc = "answer", !.rows = hotRows]
  <2>1. handler[h] \in StoreCalls /\ hotRows \in CacheRows
    BY DEF CacheInv, CacheSane
  <2>2. new \in StoreCalls /\ new.pc = "answer" /\ new.op = handler[h].op
        /\ new.rows = hotRows /\ new.since = handler[h].since
    BY <2>1 DEF StoreCalls, CachePcs
  <2> HIDE DEF new
  <2>3. MoveHandler(h, new)
    BY <1>3 DEF new
  <2>4. handler'[h] = new /\ durRows' = durRows /\ kept' = kept
    BY <2>3 DEF MoveHandler, CacheInv, CacheSane, ReadHot
  <2>5. ASSUME kept = "terminal", NEW k \in RowKeys, handler[h].since[k] # 0
        PROVE  hotRows[k] = handler[h].since[k]
    <3>1. Marks /\ PartKeys = {CHOOSE r \in RowKeys : TRUE}
      BY <2>5 DEF Marks, PartKeys
    <3>2. handler[h].since[k] = durRows[k] /\ k \in PartKeys
      BY <2>5, <3>1 DEF CacheInv, CopiesInv, CopiedRows
    <3>3. PICK r \in RowKeys : hotRows[r] # 0
      BY <1>3, <2>5 DEF HotAnswers, Present
    <3>4. hotRows[r] = durRows[r] /\ r \in PartKeys
      BY <2>5, <3>1, <3>3 DEF CacheInv, CopiesInv, CopiedRows
    <3>5. r = k
      BY <3>1, <3>2, <3>4
    <3> QED BY <3>2, <3>4, <3>5
  <2>6. CallStep(h)
    BY <2>2, <2>4, <2>5 DEF CallStep, CacheInv, CopiesInv, CopiedRows
  <2> QED BY <1>1, <2>3, <2>6, Moved
<1> QED BY <1>2, <1>3 DEF ReadHot

LEMMA LoadDurableStep ==
    ASSUME CacheInv, NEW h \in Handlers, LoadDurable(h)
    PROVE  CacheInv'
<1>1. SharedStep
  BY QuietShared DEF LoadDurable, boundVars
<1>2. handler[h] \in StoreCalls /\ durRows \in CacheRows /\ known[ProcOf(h)] \in Writes
  BY DEF CacheInv, CacheSane, Handlers, ProcOf
<1>3. kept = "chunks" => Cardinality(Present(durRows)) \in Writes
  BY VersionType DEF DurableVersion
<1>4. Present(durRows) \subseteq RowKeys
  BY DEF Present
<1>5. PICK pc \in {"delete", "write", "answer"}, stamp \in Versions :
        MoveHandler(h, [handler[h] EXCEPT !.pc = pc, !.rows = durRows,
                                          !.todo = Present(durRows), !.stamp = stamp])
  <2> DEFINE stamp == IF kept = "chunks"
               THEN IF handler[h].op = "put" THEN handler[h].version
                    ELSE Cardinality(Present(durRows))
               ELSE IF handler[h].op = "put" THEN handler[h].stamp ELSE known[ProcOf(h)]
             pc == IF kept \in {"outcomes", "chunks"} THEN "delete"
                   ELSE IF kept = "index" \/ Present(durRows) # {} THEN "write" ELSE "answer"
  <2>1. stamp \in Versions
    BY <1>2, <1>3 DEF StoreCalls, Versions
  <2>2. pc \in {"delete", "write", "answer"}
    OBVIOUS
  <2>3. MoveHandler(h, [handler[h] EXCEPT !.pc = pc, !.rows = durRows,
                                          !.todo = Present(durRows), !.stamp = stamp])
    BY DEF LoadDurable
  <2> HIDE DEF stamp, pc
  <2> QED BY <2>1, <2>2, <2>3
<1> DEFINE new == [handler[h] EXCEPT !.pc = pc, !.rows = durRows,
                                     !.todo = Present(durRows), !.stamp = stamp]
<1>6. new \in StoreCalls /\ new.pc = pc /\ new.op = handler[h].op
      /\ new.rows = durRows /\ new.since = handler[h].since
  BY <1>2, <1>4 DEF StoreCalls, CachePcs
<1> HIDE DEF new
<1>7. MoveHandler(h, new)
  BY <1>5 DEF new
<1>8. handler'[h] = new /\ durRows' = durRows /\ kept' = kept
  BY <1>7 DEF MoveHandler, CacheInv, CacheSane, LoadDurable
<1>9. kept = "terminal" => Marks
  BY DEF Marks
<1>10. CallStep(h)
  BY <1>6, <1>8, <1>9 DEF CallStep, CacheInv, CopiesInv, CopiedRows
<1> QED BY <1>1, <1>7, <1>10, Moved

LEMMA LeaveType ==
    ASSUME CacheInv, NEW h \in Handlers
    PROVE  Leave(h) \in {"idle", "answer"}
BY DEF Leave

LEMMA DeleteHotStep ==
    ASSUME CacheInv, NEW h \in Handlers, DeleteHot(h)
    PROVE  CacheInv'
<1>1. NoRows \in CacheRows
  BY BoundsAssumption DEF NoRows, CacheRows, Writes
<1>2. SharedStep
  BY <1>1 DEF DeleteHot, boundVars, CacheInv, CacheSane, CopiesInv, CopiedRows, SharedStep,
              DurableStep, NoRows
<1> QED BY <1>2, GoesOn DEF DeleteHot, CachePcs

LEMMA WriteHotStep ==
    ASSUME CacheInv, NEW h \in Handlers, WriteHot(h)
    PROVE  CacheInv'
<1>1. PICK k \in handler[h].todo :
        /\ hotRows' = [hotRows EXCEPT ![k] = handler[h].rows[k]]
        /\ MoveHandler(h, [handler[h] EXCEPT !.todo = @ \ {k}])
  BY DEF WriteHot
<1>2. handler[h] \in StoreCalls /\ handler[h].pc = "write" /\ k \in RowKeys /\ hotRows \in CacheRows
  BY DEF CacheInv, CacheSane, WriteHot, StoreCalls
<1>3. hotRows' \in CacheRows
  BY <1>1, <1>2 DEF CacheRows, StoreCalls
<1>4. Marks => \A r \in RowKeys : hotRows'[r] \in {0, durRows[r]}
  BY <1>1, <1>2 DEF CacheInv, CopiesInv, CopiedRows, CacheRows
<1>5. SharedStep
  BY <1>3, <1>4 DEF WriteHot, boundVars, CacheInv, CacheSane, SharedStep, DurableStep
<1> DEFINE new == [handler[h] EXCEPT !.todo = @ \ {k}]
<1>6. new \in StoreCalls /\ new.pc = "write" /\ new.op = handler[h].op
      /\ new.rows = handler[h].rows /\ new.since = handler[h].since
  BY <1>2 DEF StoreCalls
<1> HIDE DEF new
<1>7. MoveHandler(h, new)
  BY <1>1 DEF new
<1>8. handler'[h] = new /\ durRows' = durRows /\ kept' = kept
  BY <1>7 DEF MoveHandler, CacheInv, CacheSane, WriteHot
<1>9. CallStep(h)
  BY <1>2, <1>6, <1>8 DEF CallStep, CacheInv, CopiesInv, CopiedRows
<1> QED BY <1>5, <1>7, <1>9, Moved

LEMMA PutVersionStep ==
    ASSUME CacheInv, NEW h \in Handlers, PutVersion(h)
    PROVE  CacheInv'
<1>1. handler[h].stamp \in Versions
  BY DEF CacheInv, CacheSane, StoreCalls
<1>2. SharedStep
  BY <1>1 DEF PutVersion, boundVars, CacheInv, CacheSane, CopiesInv, CopiedRows, SharedStep,
              DurableStep
<1> QED BY <1>2, GoesOn, LeaveType DEF PutVersion, CachePcs

LEMMA CacheWriteFailsStep ==
    ASSUME CacheInv, NEW h \in Handlers, CacheWriteFails(h)
    PROVE  CacheInv'
<1>1. SharedStep
  BY QuietShared DEF CacheWriteFails
<1> QED BY <1>1, GoesOn, LeaveType DEF CacheWriteFails, CachePcs

LEMMA IdleSound ==
    ASSUME CacheInv, SharedStep, NEW h \in Handlers, handler'[h] = Idle
    PROVE  CallStep(h)
<1>1. NoRows \in CacheRows
  BY BoundsAssumption DEF NoRows, CacheRows, Writes
<1>2. Idle \in StoreCalls /\ Idle.rows = NoRows /\ Idle.since = NoRows /\ Idle.pc = "idle"
  BY <1>1 DEF Idle, StoreCalls, CachePcs, Versions
<1> QED BY <1>2 DEF CallStep, CopiedRows, NoRows

LEMMA AnswerStep ==
    ASSUME CacheInv, NEW h \in Handlers, Answer(h)
    PROVE  CacheInv'
<1>1. SharedStep
  BY QuietShared DEF Answer, boundVars
<1>2. MoveHandler(h, Idle) /\ handler'[h] = Idle
  BY DEF Answer, MoveHandler, CacheInv, CacheSane
<1> QED BY <1>1, <1>2, IdleSound, Moved

LEMMA ProcessStep ==
    ASSUME CacheInv, NEW p \in Procs, BindSnapshot(p) \/ CrashProcess(p)
    PROVE  CacheInv'
<1>1. known' \in [Procs -> Writes]
  BY VersionType DEF BindSnapshot, CrashProcess, CacheInv, CacheSane
<1>2. SharedStep
  BY <1>1 DEF BindSnapshot, CrashProcess, boundVars, CacheInv, CacheSane, CopiesInv, CopiedRows,
              SharedStep, DurableStep
<1>3. handler' \in [Handlers -> {handler'[h] : h \in Handlers}]
      /\ \A h \in Handlers : handler'[h] \in {handler[h], Idle}
  BY DEF BindSnapshot, CrashProcess, CacheInv, CacheSane
<1>4. \A h \in Handlers : CallStep(h)
  BY <1>2, <1>3, CallStays, IdleSound
<1>5. handler' \in [Handlers -> StoreCalls]
  BY <1>3, <1>4 DEF CallStep
<1> QED BY <1>2, <1>4, <1>5, StepCacheInv

LEMMA CacheNextInv ==
    ASSUME CacheInv, [CacheNext]_cacheVars
    PROVE  CacheInv'
<1>1. CASE UNCHANGED cacheVars
  <2>1. SharedStep
    BY <1>1, QuietShared DEF cacheVars, cacheState, boundVars
  <2>2. handler' = handler
    BY <1>1 DEF cacheVars, cacheState
  <2>3. \A h \in Handlers : CallStep(h)
    BY <2>1, <2>2, CallStays
  <2> QED BY <2>1, <2>2, <2>3, StepCacheInv DEF CacheInv, CacheSane
<1>2. CASE CacheNext
  BY <1>2, ProcessStep, CommitStep, ResumePutStep, PeekStampStep, RefreshStep, MatchStampStep,
     ReadHotStep, LoadDurableStep, DeleteHotStep, WriteHotStep, PutVersionStep,
     CacheWriteFailsStep, AnswerStep DEF CacheNext
<1> QED BY <1>1, <1>2

LEMMA CacheInvSound == ASSUME CacheInv PROVE CacheTypeOK /\ MarksReadDurable
<1>1. CacheTypeOK
  BY BoundsAssumption DEF CacheInv, CacheSane, CacheTypeOK, CacheRows, Writes, Versions,
                          StoreCalls, CachePcs
<1>2. MarksReadDurable
  BY DEF CacheInv, CopiesInv, MarksReadDurable, Marks, CopiedRows
<1> QED BY <1>1, <1>2

(* However the store methods of any number of processes interleave, crash   *)
(* and lose Redis calls, a chunk told complete or a tombstone answered is    *)
(* durable, and a tombstone that was durable before is answered.             *)
THEOREM MarksDurable == CacheSpec => [](CacheTypeOK /\ MarksReadDurable)
<1>1. CacheInit => CacheInv
  BY CacheInitInv
<1>2. CacheInv /\ [CacheNext]_cacheVars => CacheInv'
  BY CacheNextInv
<1>3. CacheInv => CacheTypeOK /\ MarksReadDurable
  BY CacheInvSound
<1> QED BY <1>1, <1>2, <1>3, PTL DEF CacheSpec

-----------------------------------------------------------------------------
(* The tabs of a chunk job. *)

Outcomes == {"FAILED", "COMPLETED"}
OutcomeRows == [Refs -> Outcomes \cup {None}]
ReleaseOutcome == [ref : Refs, kind : Outcomes]
AttemptPcs == {"off", "pool", "mark", "closing", "failed", "done"}
TabPcs == {"off", "take", "guard", "read", "checkpoint", "done", "failed"}
ChunkAttempts == [pc : AttemptPcs, aborted : BOOLEAN, closed : BOOLEAN, todo : SUBSET Refs,
                  left : SUBSET Refs, existing : OutcomeRows, outcomes : Seq(ReleaseOutcome),
                  batch : Seq(ReleaseOutcome)]
ChunkTabs == [pc : TabPcs, ref : Refs \cup {None}, writes : OutcomeRows]

PoolSane ==
    /\ owner \in Tries \cup {None}
    /\ attempt \in [Tries -> ChunkAttempts]
    /\ tab \in [Tries -> [Tabs -> ChunkTabs]]
    /\ rowsStored \in OutcomeRows
    /\ chunkMarked \in BOOLEAN

\* The releases an attempt has an outcome of, and the tabs that have one in hand.
OutcomeRefs(a) == {attempt[a].outcomes[i].ref : i \in DOMAIN attempt[a].outcomes}
HasRef(a, t) == tab[a][t].pc \in {"guard", "read"}
Taken(a) == attempt[a].todo \ attempt[a].left

(* Each release that was taken is in the hand of one tab or has one outcome; *)
(* only a tab that fails loses one.                                          *)
TakenOnce(a) ==
    /\ attempt[a].left \subseteq attempt[a].todo
    /\ OutcomeRefs(a) \subseteq Taken(a)
    /\ \A i, j \in DOMAIN attempt[a].outcomes :
         attempt[a].outcomes[i].ref = attempt[a].outcomes[j].ref => i = j
    /\ \A t \in Tabs : HasRef(a, t) => tab[a][t].ref \in Taken(a) \ OutcomeRefs(a)
    /\ \A t, u \in Tabs : HasRef(a, t) /\ HasRef(a, u) /\ tab[a][t].ref = tab[a][u].ref => t = u
    /\ (\A t \in Tabs : tab[a][t].pc # "failed") =>
         Taken(a) \subseteq OutcomeRefs(a) \cup {tab[a][t].ref : t \in {u \in Tabs : HasRef(a, u)}}
    /\ \A t \in Tabs : tab[a][t].pc = "done" => attempt[a].left = {}

\* Where the stage stands: the releases it skipped are stored, and what it checkpointed last.
StageKnows(a) ==
    /\ attempt[a].pc = "off" => attempt[a].outcomes = <<>> /\ attempt[a].todo = {}
                                /\ \A t \in Tabs : tab[a][t].pc = "off"
    /\ attempt[a].pc # "off" => \A r \in Refs \ attempt[a].todo : rowsStored[r] # None
    /\ attempt[a].pc \in {"mark", "done"} => PoolDone(a)
    /\ attempt[a].pc = "mark" => \A r \in Refs : rowsStored[r] # None

PoolInv ==
    /\ PoolSane
    /\ \A a \in Tries : TakenOnce(a) /\ StageKnows(a)
    /\ chunkMarked => \A r \in Refs : rowsStored[r] # None

LEMMA RowsTyped == NoOutcomes \in OutcomeRows /\ None \notin Outcomes
BY PoolAssumption DEF NoOutcomes, OutcomeRows, Outcomes

LEMMA PoolInitInv == PoolInit => PoolInv
<1> SUFFICES ASSUME PoolInit PROVE PoolInv
  OBVIOUS
<1>1. NewAttempt \in ChunkAttempts
  <2>1. <<>> \in Seq(ReleaseOutcome)
    OBVIOUS
  <2> QED BY <2>1, RowsTyped DEF NewAttempt, ChunkAttempts, AttemptPcs
<1>2. IdleTab \in ChunkTabs
  BY RowsTyped DEF IdleTab, ChunkTabs, TabPcs
<1>3. PoolSane
  BY <1>1, <1>2, RowsTyped DEF PoolInit, PoolSane
<1>4. ASSUME NEW a \in Tries PROVE TakenOnce(a) /\ StageKnows(a)
  <2>1. attempt[a].todo = {} /\ attempt[a].left = {} /\ attempt[a].outcomes = <<>>
        /\ attempt[a].pc = "off"
    BY DEF PoolInit, NewAttempt
  <2>2. \A t \in Tabs : tab[a][t].pc = "off"
    BY DEF PoolInit, IdleTab
  <2> QED BY <2>1, <2>2 DEF TakenOnce, StageKnows, OutcomeRefs, HasRef, Taken
<1> QED BY <1>3, <1>4 DEF PoolInv, PoolInit

\* No row that was stored is lost.
RowsGrow == rowsStored' \in OutcomeRows /\ \A r \in Refs : rowsStored[r] # None => rowsStored'[r] # None

LEMMA AttemptStays ==
    ASSUME PoolInv, RowsGrow, NEW a \in Tries, attempt'[a] = attempt[a], tab'[a] = tab[a]
    PROVE  TakenOnce(a)' /\ StageKnows(a)'
<1>1. TakenOnce(a)'
  BY DEF PoolInv, TakenOnce, OutcomeRefs, HasRef, Taken
<1>2. StageKnows(a)'
  BY DEF PoolInv, StageKnows, PoolDone, TabStates, RowsGrow
<1> QED BY <1>1, <1>2

\* A step is a step of one attempt.
OfAttempt(a) ==
    /\ PoolSane' /\ RowsGrow
    /\ \A b \in Tries \ {a} : attempt'[b] = attempt[b] /\ tab'[b] = tab[b]
    /\ chunkMarked' => chunkMarked \/ \A r \in Refs : rowsStored'[r] # None

LEMMA OneAttempt ==
    ASSUME PoolInv, NEW a \in Tries, OfAttempt(a), TakenOnce(a)', StageKnows(a)'
    PROVE  PoolInv'
<1>1. \A b \in Tries \ {a} : TakenOnce(b)' /\ StageKnows(b)'
  BY AttemptStays DEF OfAttempt
<1>2. \A b \in Tries : TakenOnce(b)' /\ StageKnows(b)'
  BY <1>1
<1>3. chunkMarked' => \A r \in Refs : rowsStored'[r] # None
  BY DEF OfAttempt, PoolInv, RowsGrow
<1> QED BY <1>2, <1>3 DEF PoolInv, OfAttempt

\* What the checkpoint of a batch writes.
LEMMA Converged ==
    ASSUME NEW existing, NEW batch \in Seq(ReleaseOutcome)
    PROVE  /\ ConvergeRow(existing, batch) \in OutcomeRows
           /\ \A r \in Refs : ConvergeRow(existing, batch)[r] # None
                <=> \E i \in DOMAIN batch : batch[i].ref = r
<1> DEFINE kinds(r) == {batch[i].kind : i \in {j \in DOMAIN batch : batch[j].ref = r}}
<1>1. \A r \in Refs : ConvergeRow(existing, batch)[r] =
         IF kinds(r) = {} THEN None
         ELSE IF existing[r] = "COMPLETED" \/ "COMPLETED" \in kinds(r) THEN "COMPLETED" ELSE "FAILED"
  BY DEF ConvergeRow
<1>2. \A r \in Refs : kinds(r) # {} <=> \E i \in DOMAIN batch : batch[i].ref = r
  OBVIOUS
<1>3. ConvergeRow(existing, batch) = [r \in Refs |-> ConvergeRow(existing, batch)[r]]
  BY DEF ConvergeRow
<1> HIDE DEF kinds
<1>4. \A r \in Refs : ConvergeRow(existing, batch)[r] \in Outcomes \cup {None}
  BY <1>1 DEF Outcomes
<1>5. ConvergeRow(existing, batch) \in OutcomeRows
  BY <1>3, <1>4 DEF OutcomeRows
<1>6. \A r \in Refs : ConvergeRow(existing, batch)[r] # None <=> kinds(r) # {}
  BY <1>1, RowsTyped DEF Outcomes
<1> QED BY <1>2, <1>5, <1>6

LEMMA Overlaid ==
    ASSUME NEW rows \in OutcomeRows, NEW writes \in OutcomeRows
    PROVE  /\ Overlay(rows, writes) \in OutcomeRows
           /\ \A r \in Refs : Overlay(rows, writes)[r] # None <=> rows[r] # None \/ writes[r] # None
BY DEF Overlay, OutcomeRows

LEMMA StartAttemptStep ==
    ASSUME PoolInv, NEW a \in Tries, StartAttempt(a)
    PROVE  PoolInv'
<1>1. attempt[a] \in ChunkAttempts /\ rowsStored \in OutcomeRows
  BY DEF PoolInv, PoolSane
<1>2. TodoOf(rowsStored) \subseteq Refs
  BY DEF TodoOf
<1> DEFINE new == [attempt[a] EXCEPT !.pc = "pool", !.todo = TodoOf(rowsStored),
                                     !.left = TodoOf(rowsStored), !.existing = rowsStored]
           tabs == [t \in Tabs |-> [IdleTab EXCEPT !.pc = "take"]]
<1>3. new \in ChunkAttempts /\ new.pc = "pool" /\ new.todo = TodoOf(rowsStored)
      /\ new.left = TodoOf(rowsStored) /\ new.outcomes = <<>>
  BY <1>1, <1>2 DEF ChunkAttempts, AttemptPcs, PoolInv, StageKnows, StartAttempt
<1>4. tabs \in [Tabs -> ChunkTabs] /\ \A t \in Tabs : tabs[t].pc = "take"
  BY RowsTyped DEF IdleTab, ChunkTabs, TabPcs
<1>5. attempt' = [attempt EXCEPT ![a] = new] /\ tab' = [tab EXCEPT ![a] = tabs]
  BY DEF StartAttempt, PoolInv, PoolSane
<1> HIDE DEF new, tabs
<1>6. attempt'[a] = new /\ tab'[a] = tabs
      /\ \A b \in Tries \ {a} : attempt'[b] = attempt[b] /\ tab'[b] = tab[b]
  BY <1>5 DEF PoolInv, PoolSane
<1>7. OfAttempt(a)
  <2>1. attempt' \in [Tries -> ChunkAttempts] /\ tab' \in [Tries -> [Tabs -> ChunkTabs]]
    BY <1>3, <1>4, <1>5 DEF PoolInv, PoolSane
  <2>2. PoolSane' /\ RowsGrow
    BY <2>1 DEF StartAttempt, PoolInv, PoolSane, RowsGrow
  <2> QED BY <1>6, <2>2 DEF StartAttempt, OfAttempt
<1>8. TakenOnce(a)'
  BY <1>3, <1>4, <1>6 DEF TakenOnce, OutcomeRefs, HasRef, Taken
<1>9. StageKnows(a)'
  <2>1. \A r \in Refs \ TodoOf(rowsStored) : rowsStored[r] # None
    BY PoolAssumption DEF TodoOf
  <2> QED BY <1>3, <1>6, <2>1 DEF StageKnows, StartAttempt
<1> QED BY <1>7, <1>8, <1>9, OneAttempt

\* Where the stage of an attempt stands changes, and perhaps that its pages are closed.
LEMMA StageMoves ==
    ASSUME PoolInv, NEW a \in Tries, OfAttempt(a), tab' = tab,
           attempt'[a].todo = attempt[a].todo, attempt'[a].left = attempt[a].left,
           attempt'[a].outcomes = attempt[a].outcomes, attempt[a].pc # "off",
           attempt'[a].pc # "off",
           attempt'[a].pc \notin {"mark", "done"}
           \/ (attempt'[a].pc = attempt[a].pc)
           \/ (PoolDone(a) /\ \A r \in Refs : rowsStored'[r] # None)
    PROVE  PoolInv'
<1>1. TakenOnce(a)'
  BY DEF PoolInv, TakenOnce, OutcomeRefs, HasRef, Taken
<1>2. PoolDone(a)' <=> PoolDone(a)
  BY DEF PoolDone, TabStates
<1>3. \A r \in Refs \ attempt[a].todo : rowsStored'[r] # None
  BY DEF PoolInv, StageKnows, OfAttempt, RowsGrow
<1>4. StageKnows(a)'
  BY <1>2, <1>3 DEF PoolInv, StageKnows, OfAttempt, RowsGrow
<1> QED BY <1>1, <1>4, OneAttempt

LEMMA AbortStep ==
    ASSUME PoolInv, NEW a \in Tries, Abort(a)
    PROVE  PoolInv'
<1> DEFINE new == [attempt[a] EXCEPT !.aborted = TRUE, !.closed = TRUE]
<1>1. attempt[a] \in ChunkAttempts
  BY DEF PoolInv, PoolSane
<1>2. new \in ChunkAttempts /\ new.pc = attempt[a].pc /\ new.todo = attempt[a].todo
      /\ new.left = attempt[a].left /\ new.outcomes = attempt[a].outcomes
  BY <1>1 DEF ChunkAttempts
<1>3. attempt' = [attempt EXCEPT ![a] = new]
  BY DEF Abort, PoolInv, PoolSane
<1> HIDE DEF new
<1>4. attempt'[a] = new /\ \A b \in Tries \ {a} : attempt'[b] = attempt[b]
  BY <1>3 DEF PoolInv, PoolSane
<1>5. OfAttempt(a)
  BY <1>2, <1>3, <1>4 DEF Abort, OfAttempt, PoolInv, PoolSane, RowsGrow
<1> QED BY <1>2, <1>4, <1>5, StageMoves DEF Abort

LEMMA GoesToStage ==
    ASSUME PoolInv, NEW a \in Tries, NEW pc \in AttemptPcs, AttemptAt(a, pc)
    PROVE  /\ attempt' \in [Tries -> ChunkAttempts]
           /\ attempt'[a].pc = pc /\ attempt'[a].todo = attempt[a].todo
           /\ attempt'[a].left = attempt[a].left /\ attempt'[a].outcomes = attempt[a].outcomes
           /\ \A b \in Tries \ {a} : attempt'[b] = attempt[b]
<1> DEFINE new == [attempt[a] EXCEPT !.pc = pc]
<1>1. attempt[a] \in ChunkAttempts
  BY DEF PoolInv, PoolSane
<1>2. new \in ChunkAttempts /\ new.pc = pc /\ new.todo = attempt[a].todo
      /\ new.left = attempt[a].left /\ new.outcomes = attempt[a].outcomes
  BY <1>1 DEF ChunkAttempts
<1>3. attempt' = [attempt EXCEPT ![a] = new]
  BY DEF AttemptAt, PoolInv, PoolSane
<1> HIDE DEF new
<1> QED BY <1>2, <1>3 DEF PoolInv, PoolSane

LEMMA StoreOutcomesStep ==
    ASSUME PoolInv, NEW a \in Tries, StoreOutcomes(a)
    PROVE  PoolInv'
<1>1. PoolDone(a) /\ attempt[a].pc = "pool" /\ tab' = tab /\ owner' = owner
      /\ chunkMarked' = chunkMarked
  BY DEF StoreOutcomes
<1> DEFINE writes == ConvergeRow(attempt[a].existing, attempt[a].outcomes)
<1>2. CASE rowsStored' = Overlay(rowsStored, writes) /\ AttemptAt(a, "mark")
  <2>1. attempt[a].outcomes \in Seq(ReleaseOutcome) /\ rowsStored \in OutcomeRows
    BY DEF PoolInv, PoolSane, ChunkAttempts
  <2>2. writes \in OutcomeRows /\ \A r \in OutcomeRefs(a) \cap Refs : writes[r] # None
    BY <2>1, Converged DEF OutcomeRefs
  <2>3. \A t \in Tabs : tab[a][t].pc = "done"
    BY <1>1 DEF PoolDone, TabStates
  <2>4. PICK t \in Tabs : tab[a][t].pc = "done"
    BY <1>1 DEF PoolDone, TabStates
  <2>5. attempt[a].left = {}
    BY <2>4 DEF PoolInv, TakenOnce
  <2>6. attempt[a].todo \subseteq OutcomeRefs(a)
    BY <2>3, <2>5 DEF PoolInv, TakenOnce, Taken, HasRef
  <2> HIDE DEF writes
  <2>7. RowsGrow
    BY <1>2, <2>1, <2>2, Overlaid DEF RowsGrow
  <2>8. \A r \in Refs : rowsStored'[r] # None
    BY <1>1, <1>2, <2>1, <2>2, <2>6, Overlaid DEF PoolInv, StageKnows
  <2>9. OfAttempt(a)
    BY <1>1, <1>2, <2>7, <2>8, GoesToStage DEF OfAttempt, PoolInv, PoolSane, RowsGrow, AttemptPcs
  <2> QED BY <1>1, <1>2, <2>8, <2>9, GoesToStage, StageMoves DEF AttemptPcs
<1>3. CASE UNCHANGED rowsStored /\ AttemptAt(a, "closing")
  <2>1. OfAttempt(a)
    BY <1>1, <1>3, GoesToStage DEF OfAttempt, PoolInv, PoolSane, RowsGrow, AttemptPcs
  <2> QED BY <1>1, <1>3, <2>1, GoesToStage, StageMoves DEF AttemptPcs
<1> QED BY <1>2, <1>3 DEF StoreOutcomes

LEMMA MarkChunkStep ==
    ASSUME PoolInv, NEW a \in Tries, MarkChunk(a)
    PROVE  PoolInv'
<1>1. attempt[a].pc = "mark" /\ PoolDone(a) /\ tab' = tab /\ rowsStored' = rowsStored
      /\ \A r \in Refs : rowsStored[r] # None
  BY DEF MarkChunk, PoolInv, StageKnows
<1>2. PICK pc \in {"done", "closing"} : AttemptAt(a, pc)
  BY DEF MarkChunk
<1>3. OfAttempt(a)
  BY <1>1, <1>2, GoesToStage DEF MarkChunk, OfAttempt, PoolInv, PoolSane, RowsGrow, AttemptPcs
<1> QED BY <1>1, <1>2, <1>3, GoesToStage, StageMoves DEF AttemptPcs

LEMMA RejectPoolStep ==
    ASSUME PoolInv, NEW a \in Tries, RejectPool(a)
    PROVE  PoolInv'
<1>1. OfAttempt(a)
  BY GoesToStage DEF RejectPool, OfAttempt, PoolInv, PoolSane, RowsGrow, AttemptPcs, boundVars
<1> QED BY <1>1, GoesToStage, StageMoves DEF RejectPool, AttemptPcs

LEMMA ReleaseAttemptStep ==
    ASSUME PoolInv, NEW a \in Tries, ReleaseAttempt(a)
    PROVE  PoolInv'
<1> DEFINE new == [attempt[a] EXCEPT !.pc = "failed", !.closed = TRUE]
<1>1. attempt[a] \in ChunkAttempts
  BY DEF PoolInv, PoolSane
<1>2. new \in ChunkAttempts /\ new.pc = "failed" /\ new.todo = attempt[a].todo
      /\ new.left = attempt[a].left /\ new.outcomes = attempt[a].outcomes
  BY <1>1 DEF ChunkAttempts, AttemptPcs
<1>3. attempt' = [attempt EXCEPT ![a] = new]
  BY DEF ReleaseAttempt, PoolInv, PoolSane
<1> HIDE DEF new
<1>4. attempt'[a] = new /\ \A b \in Tries \ {a} : attempt'[b] = attempt[b]
  BY <1>3 DEF PoolInv, PoolSane
<1>5. OfAttempt(a)
  BY <1>2, <1>3, <1>4 DEF ReleaseAttempt, OfAttempt, PoolInv, PoolSane, RowsGrow
<1> QED BY <1>2, <1>4, <1>5, StageMoves DEF ReleaseAttempt

\* Where a tab stands changes.
LEMMA GoesToTab ==
    ASSUME PoolInv, NEW a \in Tries, NEW t \in Tabs, NEW pc \in TabPcs, TabAt(a, t, pc)
    PROVE  /\ tab' \in [Tries -> [Tabs -> ChunkTabs]]
           /\ tab'[a][t].pc = pc /\ tab'[a][t].ref = tab[a][t].ref
           /\ \A u \in Tabs \ {t} : tab'[a][u] = tab[a][u]
           /\ \A b \in Tries \ {a} : tab'[b] = tab[b]
<1> DEFINE new == [tab[a][t] EXCEPT !.pc = pc]
<1>1. tab[a][t] \in ChunkTabs /\ tab[a] \in [Tabs -> ChunkTabs]
  BY DEF PoolInv, PoolSane
<1>2. new \in ChunkTabs /\ new.pc = pc /\ new.ref = tab[a][t].ref
  BY <1>1 DEF ChunkTabs
<1>3. tab' = [tab EXCEPT ![a] = [tab[a] EXCEPT ![t] = new]]
  BY DEF TabAt, PoolInv, PoolSane
<1> HIDE DEF new
<1>4. tab'[a] = [tab[a] EXCEPT ![t] = new]
  BY <1>3 DEF PoolInv, PoolSane
<1> QED BY <1>1, <1>2, <1>3, <1>4 DEF PoolInv, PoolSane

\* A tab at work shows that the stage has begun and is not beyond its tabs.
LEMMA TabAtWork ==
    ASSUME PoolInv, NEW a \in Tries, NEW t \in Tabs,
           tab[a][t].pc \in {"take", "guard", "read", "checkpoint"}
    PROVE  attempt[a].pc \notin {"off", "mark", "done"}
BY DEF PoolInv, StageKnows, PoolDone, TabStates

\* The stage knows the same after a step of a tab.
LEMMA StageLooksOn ==
    ASSUME PoolInv, NEW a \in Tries, attempt[a].pc \notin {"off", "mark", "done"}, OfAttempt(a),
           attempt'[a].pc = attempt[a].pc, attempt'[a].todo = attempt[a].todo
    PROVE  StageKnows(a)'
BY DEF PoolInv, StageKnows, OfAttempt, RowsGrow

\* A tab goes on or fails with the release it has, or has none before and after.
LEMMA TabMoves ==
    ASSUME PoolInv, NEW a \in Tries, NEW t \in Tabs, NEW pc \in TabPcs, TabAt(a, t, pc),
           tab[a][t].pc \in {"take", "guard", "read", "checkpoint"}, RowsGrow,
           UNCHANGED <<owner, attempt, chunkMarked>>,
           pc = "failed" \/ (tab[a][t].pc = "guard" /\ pc = "read")
           \/ (tab[a][t].pc = "checkpoint" /\ pc = "take")
           \/ (tab[a][t].pc = "take" /\ pc = "done" /\ attempt[a].left = {})
    PROVE  PoolInv'
<1>1. /\ tab' \in [Tries -> [Tabs -> ChunkTabs]]
      /\ tab'[a][t].pc = pc /\ tab'[a][t].ref = tab[a][t].ref
      /\ \A u \in Tabs \ {t} : tab'[a][u] = tab[a][u]
      /\ \A b \in Tries \ {a} : tab'[b] = tab[b]
  BY GoesToTab
<1>2. OfAttempt(a)
  BY <1>1 DEF OfAttempt, PoolInv, PoolSane, RowsGrow
<1>3. StageKnows(a)'
  BY <1>2, TabAtWork, StageLooksOn
<1>4. \A u \in Tabs : tab'[a][u].ref = tab[a][u].ref /\ (HasRef(a, u)' => HasRef(a, u))
  BY <1>1 DEF HasRef
<1>5. (\A u \in Tabs : tab'[a][u].pc # "failed") =>
        /\ \A u \in Tabs : tab[a][u].pc # "failed"
        /\ \A u \in Tabs : HasRef(a, u)' <=> HasRef(a, u)
  BY <1>1 DEF HasRef
<1>6. TakenOnce(a)
  BY DEF PoolInv
<1>7. Taken(a)' = Taken(a) /\ OutcomeRefs(a)' = OutcomeRefs(a)
  BY DEF Taken, OutcomeRefs
<1>8. (\A u \in Tabs : tab'[a][u].pc # "failed") =>
        Taken(a)' \subseteq OutcomeRefs(a)' \cup {tab'[a][u].ref : u \in {v \in Tabs : HasRef(a, v)'}}
  BY <1>4, <1>5, <1>6, <1>7 DEF TakenOnce
<1>9. \A u \in Tabs : tab'[a][u].pc = "done" => attempt[a].left = {}
  BY <1>1, <1>6 DEF TakenOnce
<1>10. TakenOnce(a)'
  BY <1>4, <1>6, <1>7, <1>8, <1>9 DEF TakenOnce
<1> QED BY <1>2, <1>3, <1>10, OneAttempt

LEMMA GuardTabStep ==
    ASSUME PoolInv, NEW a \in Tries, NEW t \in Tabs, GuardTab(a, t)
    PROVE  PoolInv'
<1>1. RowsGrow
  BY DEF GuardTab, RowsGrow, PoolInv, PoolSane
<1>2. PICK pc \in {"read", "failed"} : TabAt(a, t, pc)
  BY DEF GuardTab
<1> QED BY <1>1, <1>2, TabMoves DEF GuardTab, TabPcs

LEMMA CheckpointTabStep ==
    ASSUME PoolInv, NEW a \in Tries, NEW t \in Tabs, CheckpointTab(a, t)
    PROVE  PoolInv'
<1>1. tab[a][t].writes \in OutcomeRows /\ rowsStored \in OutcomeRows
  BY DEF PoolInv, PoolSane, ChunkTabs
<1>2. RowsGrow
  BY <1>1, Overlaid DEF CheckpointTab, RowsGrow
<1>3. PICK pc \in {"take", "failed"} : TabAt(a, t, pc)
  BY DEF CheckpointTab
<1> QED BY <1>2, <1>3, TabMoves DEF CheckpointTab, TabPcs

LEMMA TakeRefStep ==
    ASSUME PoolInv, NEW a \in Tries, NEW t \in Tabs, TakeRef(a, t)
    PROVE  PoolInv'
<1>1. tab[a][t].pc = "take" /\ UNCHANGED <<owner, rowsStored, chunkMarked>> /\ RowsGrow
  BY DEF TakeRef, RowsGrow, PoolInv, PoolSane
<1>2. CASE attempt[a].left = {} /\ TabAt(a, t, "done") /\ UNCHANGED attempt
  BY <1>1, <1>2, TabMoves DEF TabPcs
<1>3. CASE \E r \in attempt[a].left :
             /\ tab' = [tab EXCEPT ![a][t].pc = "guard", ![a][t].ref = r]
             /\ attempt' = [attempt EXCEPT ![a].left = @ \ {r}]
  <2>1. PICK r \in attempt[a].left :
             /\ tab' = [tab EXCEPT ![a][t].pc = "guard", ![a][t].ref = r]
             /\ attempt' = [attempt EXCEPT ![a].left = @ \ {r}]
    BY <1>3
  <2> DEFINE newTab == [tab[a][t] EXCEPT !.pc = "guard", !.ref = r]
             new == [attempt[a] EXCEPT !.left = @ \ {r}]
  <2>2. tab[a][t] \in ChunkTabs /\ tab[a] \in [Tabs -> ChunkTabs] /\ attempt[a] \in ChunkAttempts
    BY DEF PoolInv, PoolSane
  <2>3. r \in Refs
    BY <2>2 DEF ChunkAttempts
  <2>4. newTab \in ChunkTabs /\ newTab.pc = "guard" /\ newTab.ref = r
    BY <2>2, <2>3 DEF ChunkTabs, TabPcs
  <2>5. new \in ChunkAttempts /\ new.pc = attempt[a].pc /\ new.todo = attempt[a].todo
        /\ new.left = attempt[a].left \ {r} /\ new.outcomes = attempt[a].outcomes
    BY <2>2 DEF ChunkAttempts
  <2>6. tab' = [tab EXCEPT ![a] = [tab[a] EXCEPT ![t] = newTab]]
        /\ attempt' = [attempt EXCEPT ![a] = new]
    BY <2>1 DEF PoolInv, PoolSane
  <2> HIDE DEF newTab, new
  <2>7. /\ attempt'[a] = new /\ \A b \in Tries \ {a} : attempt'[b] = attempt[b] /\ tab'[b] = tab[b]
        /\ tab'[a][t] = newTab /\ \A u \in Tabs \ {t} : tab'[a][u] = tab[a][u]
    BY <2>2, <2>6 DEF PoolInv, PoolSane
  <2>8. attempt' \in [Tries -> ChunkAttempts] /\ tab' \in [Tries -> [Tabs -> ChunkTabs]]
    BY <2>2, <2>4, <2>5, <2>6 DEF PoolInv, PoolSane
  <2>9. OfAttempt(a)
    BY <1>1, <2>7, <2>8 DEF OfAttempt, PoolInv, PoolSane, RowsGrow
  <2>10. StageKnows(a)'
    BY <1>1, <2>5, <2>7, <2>9, TabAtWork, StageLooksOn
  <2>11. TakenOnce(a)
    BY DEF PoolInv
  <2>12. Taken(a)' = Taken(a) \cup {r} /\ OutcomeRefs(a)' = OutcomeRefs(a) /\ r \notin Taken(a)
    BY <2>5, <2>7, <2>11 DEF Taken, OutcomeRefs, TakenOnce
  <2>13. HasRef(a, t)' /\ ~HasRef(a, t) /\ tab'[a][t].ref = r
         /\ \A u \in Tabs \ {t} : HasRef(a, u)' = HasRef(a, u) /\ tab'[a][u].ref = tab[a][u].ref
    BY <1>1, <2>4, <2>7 DEF HasRef
  <2>14. \A u \in Tabs : HasRef(a, u)' => tab'[a][u].ref \in Taken(a)' \ OutcomeRefs(a)'
    BY <2>11, <2>12, <2>13 DEF TakenOnce
  <2>15. \A u, v \in Tabs : HasRef(a, u)' /\ HasRef(a, v)' /\ tab'[a][u].ref = tab'[a][v].ref => u = v
    BY <2>11, <2>12, <2>13 DEF TakenOnce
  <2>16. (\A u \in Tabs : tab'[a][u].pc # "failed") =>
           Taken(a)' \subseteq OutcomeRefs(a)' \cup {tab'[a][u].ref : u \in {v \in Tabs : HasRef(a, v)'}}
    BY <1>1, <2>7, <2>11, <2>12, <2>13 DEF TakenOnce
  <2>17. \A u \in Tabs : tab'[a][u].pc = "done" => attempt'[a].left = {}
    BY <2>4, <2>5, <2>7, <2>11 DEF TakenOnce
  <2>18. TakenOnce(a)'
    BY <2>5, <2>7, <2>11, <2>12, <2>14, <2>15, <2>16, <2>17 DEF TakenOnce
  <2> QED BY <2>9, <2>10, <2>18, OneAttempt
<1> QED BY <1>2, <1>3 DEF TakeRef

LEMMA ReadReleaseStep ==
    ASSUME PoolInv, NEW a \in Tries, NEW t \in Tabs, ReadRelease(a, t)
    PROVE  PoolInv'
<1>1. tab[a][t].pc = "read" /\ UNCHANGED <<owner, rowsStored, chunkMarked>> /\ RowsGrow
      /\ HasRef(a, t)
  BY DEF ReadRelease, RowsGrow, PoolInv, PoolSane, HasRef
<1>2. CASE TabAt(a, t, "failed") /\ UNCHANGED attempt
  BY <1>1, <1>2, TabMoves DEF TabPcs
<1>3. ASSUME NEW kind \in Outcomes, NEW batch, NEW existing, NEW pc \in {"take", "checkpoint"},
             NEW writes \in OutcomeRows,
             batch \in Seq(ReleaseOutcome), existing \in OutcomeRows,
             attempt' = [attempt EXCEPT ![a] =
               [attempt[a] EXCEPT !.outcomes = Append(@, [ref |-> tab[a][t].ref, kind |-> kind]),
                                  !.batch = batch, !.existing = existing]],
             tab' = [tab EXCEPT ![a] =
               [tab[a] EXCEPT ![t] = [tab[a][t] EXCEPT !.pc = pc, !.writes = writes]]]
      PROVE  PoolInv'
  <2> DEFINE item == [ref |-> tab[a][t].ref, kind |-> kind]
             new == [attempt[a] EXCEPT !.outcomes = Append(@, item),
                                       !.batch = batch, !.existing = existing]
             newTab == [tab[a][t] EXCEPT !.pc = pc, !.writes = writes]
  <2>1. attempt[a] \in ChunkAttempts /\ tab[a] \in [Tabs -> ChunkTabs] /\ tab[a][t] \in ChunkTabs
    BY DEF PoolInv, PoolSane
  <2>2. TakenOnce(a)
    BY DEF PoolInv
  <2>3. tab[a][t].ref \in Taken(a) \ OutcomeRefs(a) /\ tab[a][t].ref \in Refs
    BY <1>1, <2>1, <2>2 DEF TakenOnce, Taken, ChunkAttempts
  <2>4. item \in ReleaseOutcome /\ item.ref = tab[a][t].ref
    BY <2>3 DEF ReleaseOutcome
  <2>5. attempt[a].outcomes \in Seq(ReleaseOutcome)
    BY <2>1 DEF ChunkAttempts
  <2> HIDE DEF item
  <2>6. Append(attempt[a].outcomes, item) \in Seq(ReleaseOutcome)
    BY <2>4, <2>5
  <2>7. new \in ChunkAttempts /\ new.pc = attempt[a].pc /\ new.todo = attempt[a].todo
        /\ new.left = attempt[a].left /\ new.outcomes = Append(attempt[a].outcomes, item)
    BY <1>3, <2>1, <2>6 DEF ChunkAttempts
  <2>8. newTab \in ChunkTabs /\ newTab.pc = pc /\ newTab.ref = tab[a][t].ref
    BY <2>1 DEF ChunkTabs, TabPcs
  <2>9. attempt' = [attempt EXCEPT ![a] = new] /\ tab' = [tab EXCEPT ![a] = [tab[a] EXCEPT ![t] = newTab]]
    BY <1>3 DEF item
  <2> HIDE DEF new, newTab
  <2>10. /\ attempt'[a] = new /\ \A b \in Tries \ {a} : attempt'[b] = attempt[b] /\ tab'[b] = tab[b]
         /\ tab'[a][t] = newTab /\ \A u \in Tabs \ {t} : tab'[a][u] = tab[a][u]
    BY <2>1, <2>9 DEF PoolInv, PoolSane
  <2>11. attempt' \in [Tries -> ChunkAttempts] /\ tab' \in [Tries -> [Tabs -> ChunkTabs]]
    BY <2>1, <2>7, <2>8, <2>9 DEF PoolInv, PoolSane
  <2>12. OfAttempt(a)
    BY <1>1, <2>10, <2>11 DEF OfAttempt, PoolInv, PoolSane, RowsGrow
  <2>13. StageKnows(a)'
    BY <1>1, <2>7, <2>10, <2>12, TabAtWork, StageLooksOn
  <2> DEFINE n == Len(attempt[a].outcomes)
  <2>14. /\ n \in Nat /\ DOMAIN attempt[a].outcomes = 1 .. n
         /\ DOMAIN Append(attempt[a].outcomes, item) = 1 .. (n + 1)
         /\ Append(attempt[a].outcomes, item)[n + 1] = item
         /\ \A i \in 1 .. n : Append(attempt[a].outcomes, item)[i] = attempt[a].outcomes[i]
    BY <2>5
  <2>15. OutcomeRefs(a)' = OutcomeRefs(a) \cup {tab[a][t].ref} /\ Taken(a)' = Taken(a)
    <3>1. OutcomeRefs(a)' = {Append(attempt[a].outcomes, item)[i].ref : i \in 1 .. (n + 1)}
      BY <2>7, <2>10, <2>14 DEF OutcomeRefs
    <3>2. OutcomeRefs(a) = {attempt[a].outcomes[i].ref : i \in 1 .. n}
      BY <2>14 DEF OutcomeRefs
    <3>3. 1 .. (n + 1) = (1 .. n) \cup {n + 1}
      BY <2>14
    <3> HIDE DEF n
    <3>4. OutcomeRefs(a)' = OutcomeRefs(a) \cup {item.ref}
      BY <2>14, <3>1, <3>2, <3>3
    <3> QED BY <2>4, <2>7, <2>10, <3>4 DEF Taken
  <2>16. \A i, j \in DOMAIN attempt'[a].outcomes :
           attempt'[a].outcomes[i].ref = attempt'[a].outcomes[j].ref => i = j
    <3> SUFFICES ASSUME NEW i \in 1 .. (n + 1), NEW j \in 1 .. (n + 1),
                        Append(attempt[a].outcomes, item)[i].ref
                          = Append(attempt[a].outcomes, item)[j].ref
                 PROVE  i = j
      BY <2>7, <2>10, <2>14
    <3>1. \A k \in 1 .. n : attempt[a].outcomes[k].ref # item.ref
      BY <2>3, <2>4, <2>14 DEF OutcomeRefs
    <3>2. \A k, l \in 1 .. n : attempt[a].outcomes[k].ref = attempt[a].outcomes[l].ref => k = l
      BY <2>2, <2>14 DEF TakenOnce
    <3>3. \A k \in 1 .. (n + 1) : k \in 1 .. n \/ k = n + 1
      BY <2>14
    <3> HIDE DEF n
    <3> QED BY <2>14, <3>1, <3>2, <3>3
  <2>17. ~HasRef(a, t)' /\ \A u \in Tabs \ {t} : HasRef(a, u)' = HasRef(a, u) /\ tab'[a][u] = tab[a][u]
    BY <2>8, <2>10 DEF HasRef
  <2>18. \A u \in Tabs : HasRef(a, u)' => tab'[a][u].ref \in Taken(a)' \ OutcomeRefs(a)'
    BY <1>1, <2>2, <2>15, <2>17 DEF TakenOnce
  <2>19. \A u, v \in Tabs : HasRef(a, u)' /\ HasRef(a, v)' /\ tab'[a][u].ref = tab'[a][v].ref => u = v
    BY <2>2, <2>17 DEF TakenOnce
  <2>20. (\A u \in Tabs : tab'[a][u].pc # "failed") =>
           Taken(a)' \subseteq OutcomeRefs(a)' \cup {tab'[a][u].ref : u \in {v \in Tabs : HasRef(a, v)'}}
    BY <1>1, <2>2, <2>10, <2>15, <2>17 DEF TakenOnce
  <2>21. \A u \in Tabs : tab'[a][u].pc = "done" => attempt'[a].left = {}
    BY <2>2, <2>7, <2>8, <2>10 DEF TakenOnce
  <2>22. TakenOnce(a)'
    BY <2>2, <2>3, <2>7, <2>10, <2>15, <2>16, <2>18, <2>19, <2>20, <2>21 DEF TakenOnce
  <2> QED BY <2>12, <2>13, <2>22, OneAttempt
<1>4. ASSUME NEW kind \in Outcomes,
             LET item == [ref |-> tab[a][t].ref, kind |-> kind]
                 batch == Spliced(a, item)
             IN  IF batch = <<>>
                 THEN TabAt(a, t, "take") /\ attempt' = Pushed(a, item)
                 ELSE LET writes == ConvergeRow(attempt[a].existing, batch) IN
                      /\ tab' = [tab EXCEPT ![a][t].pc = "checkpoint", ![a][t].writes = writes]
                      /\ attempt' = [Pushed(a, item) EXCEPT ![a].existing = Overlay(@, writes)]
      PROVE  PoolInv'
  <2> DEFINE item == [ref |-> tab[a][t].ref, kind |-> kind]
             batch == Spliced(a, item)
             writes == ConvergeRow(attempt[a].existing, batch)
             kept1 == IF Len(Append(attempt[a].batch, item)) >= CheckpointEvery THEN <<>>
                      ELSE Append(attempt[a].batch, item)
  <2>1. attempt[a] \in ChunkAttempts /\ tab[a] \in [Tabs -> ChunkTabs] /\ tab[a][t] \in ChunkTabs
        /\ attempt \in [Tries -> ChunkAttempts] /\ tab \in [Tries -> [Tabs -> ChunkTabs]]
    BY DEF PoolInv, PoolSane
  <2>2. attempt[a].batch \in Seq(ReleaseOutcome) /\ attempt[a].existing \in OutcomeRows
        /\ tab[a][t].writes \in OutcomeRows
    BY <2>1 DEF ChunkAttempts, ChunkTabs
  <2>3. item \in ReleaseOutcome
    <3>1. tab[a][t].ref \in attempt[a].todo
      BY <1>1 DEF PoolInv, TakenOnce, Taken
    <3> QED BY <2>1, <3>1 DEF ReleaseOutcome, ChunkAttempts
  <2>4. batch \in Seq(ReleaseOutcome) /\ kept1 \in Seq(ReleaseOutcome)
    BY <2>2, <2>3 DEF Spliced
  <2>5. writes \in OutcomeRows /\ Overlay(attempt[a].existing, writes) \in OutcomeRows
    BY <2>2, <2>4, Converged, Overlaid
  <2>6. Pushed(a, item) = [attempt EXCEPT ![a] =
          [attempt[a] EXCEPT !.outcomes = Append(@, item), !.batch = kept1,
                             !.existing = attempt[a].existing]]
    BY <2>1 DEF Pushed, ChunkAttempts
  <2>7. CASE TabAt(a, t, "take") /\ attempt' = Pushed(a, item)
    <3>1. tab' = [tab EXCEPT ![a] =
            [tab[a] EXCEPT ![t] = [tab[a][t] EXCEPT !.pc = "take", !.writes = tab[a][t].writes]]]
      BY <2>1, <2>7 DEF TabAt, ChunkTabs
    <3> HIDE DEF kept1
    <3> QED BY <1>3, <2>2, <2>4, <2>6, <2>7, <3>1
  <2>8. CASE /\ tab' = [tab EXCEPT ![a][t].pc = "checkpoint", ![a][t].writes = writes]
             /\ attempt' = [Pushed(a, item) EXCEPT ![a].existing = Overlay(@, writes)]
    <3> DEFINE rows == Overlay(attempt[a].existing, writes)
    <3>1. tab' = [tab EXCEPT ![a] =
            [tab[a] EXCEPT ![t] = [tab[a][t] EXCEPT !.pc = "checkpoint", !.writes = writes]]]
      BY <2>1, <2>8
    <3>2. attempt' = [attempt EXCEPT ![a] =
            [attempt[a] EXCEPT !.outcomes = Append(@, item), !.batch = kept1, !.existing = rows]]
      <4> HIDE DEF kept1, writes
      <4> QED BY <2>1, <2>6, <2>8 DEF ChunkAttempts
    <3> HIDE DEF kept1, writes, rows
    <3>3. rows \in OutcomeRows
      BY <2>5 DEF rows
    <3> QED BY <1>3, <2>4, <2>5, <3>1, <3>2, <3>3
  <2> QED BY <1>4, <2>7, <2>8
<1>5. \A kind \in IF attempt[a].closed THEN {"FAILED"} ELSE {"FAILED", "COMPLETED"} : kind \in Outcomes
  BY DEF Outcomes
<1> QED BY <1>2, <1>4, <1>5 DEF ReadRelease

LEMMA PoolNextInv ==
    ASSUME PoolInv, [PoolNext]_poolVars
    PROVE  PoolInv'
<1>1. CASE UNCHANGED poolVars
  <2>1. UNCHANGED <<owner, attempt, tab, rowsStored, chunkMarked>>
    BY <1>1 DEF poolVars, poolState
  <2>2. RowsGrow /\ PoolSane'
    BY <2>1 DEF RowsGrow, PoolInv, PoolSane
  <2>3. \A a \in Tries : TakenOnce(a)' /\ StageKnows(a)'
    BY <2>1, <2>2, AttemptStays
  <2> QED BY <2>1, <2>2, <2>3 DEF PoolInv
<1>2. CASE PoolNext
  BY <1>2, StartAttemptStep, AbortStep, StoreOutcomesStep, MarkChunkStep, RejectPoolStep,
     ReleaseAttemptStep, TakeRefStep, GuardTabStep, ReadReleaseStep, CheckpointTabStep DEF PoolNext
<1> QED BY <1>1, <1>2

\* An attempt whose tabs are all done has one outcome of every release it had to read.
LEMMA AllTaken ==
    ASSUME PoolInv, NEW a \in Tries, PoolDone(a)
    PROVE  /\ OutcomeRefs(a) = attempt[a].todo
           /\ Len(attempt[a].outcomes) = Cardinality(attempt[a].todo)
<1>1. PICK t \in Tabs : tab[a][t].pc = "done"
  BY DEF PoolDone, TabStates
<1>2. \A u \in Tabs : tab[a][u].pc = "done"
  BY DEF PoolDone, TabStates
<1>3. attempt[a].left = {} /\ Taken(a) = attempt[a].todo /\ \A u \in Tabs : ~HasRef(a, u)
  BY <1>1, <1>2 DEF PoolInv, TakenOnce, Taken, HasRef
<1>4. OutcomeRefs(a) = attempt[a].todo
  BY <1>2, <1>3 DEF PoolInv, TakenOnce
<1> DEFINE n == Len(attempt[a].outcomes)
           f == [i \in 1 .. n |-> attempt[a].outcomes[i].ref]
<1>5. n \in Nat /\ DOMAIN attempt[a].outcomes = 1 .. n
  BY DEF PoolInv, PoolSane, ChunkAttempts
<1>6. OutcomeRefs(a) = {f[i] : i \in 1 .. n}
  BY <1>5 DEF OutcomeRefs
<1>7. \A i, j \in 1 .. n : f[i] = f[j] => i = j
  BY <1>5 DEF PoolInv, TakenOnce
<1>8. f \in Bijection(1 .. n, attempt[a].todo)
  <2>1. f \in [1 .. n -> attempt[a].todo]
    BY <1>4, <1>6
  <2>2. \A r \in attempt[a].todo : \E i \in 1 .. n : f[i] = r
    BY <1>4, <1>6
  <2> HIDE DEF f, n
  <2> QED BY <1>7, <2>1, <2>2 DEF Bijection, Injection, Surjection, IsInjective
<1>9. Cardinality(attempt[a].todo) = n
  <2>1. ExistsBijection(1 .. n, attempt[a].todo)
    BY <1>8 DEF ExistsBijection
  <2> HIDE DEF f, n
  <2> QED BY <1>5, <2>1, FS_NatBijection, FS_CountingElements
<1> QED BY <1>4, <1>9

LEMMA PoolInvSound == ASSUME PoolInv PROVE PoolTypeOK /\ MarkedChunkRead
<1>1. PoolTypeOK
  BY DEF PoolInv, PoolSane, PoolTypeOK, ChunkAttempts, ChunkTabs, AttemptPcs, TabPcs, OutcomeRows,
         Outcomes, TakenOnce
<1>2. MarkedChunkRead
  BY AllTaken DEF PoolInv, MarkedChunkRead, StageKnows, OutcomeRefs
<1> QED BY <1>1, <1>2

(* Whichever tabs fail, are closed or are left behind by an attempt, and     *)
(* however often the job is tried, a chunk is marked only when it was read.  *)
THEOREM MarkedRead == PoolSpec => [](PoolTypeOK /\ MarkedChunkRead)
<1>1. PoolInit => PoolInv
  BY PoolInitInv
<1>2. PoolInv /\ [PoolNext]_poolVars => PoolInv'
  BY PoolNextInv
<1>3. PoolInv => PoolTypeOK /\ MarkedChunkRead
  BY PoolInvSound
<1> QED BY <1>1, <1>2, <1>3, PTL DEF PoolSpec

-----------------------------------------------------------------------------
(* The walk over a store. *)

ScanPoints == {"resolve", "page", "expand", "index", "isrc", "title", "miss", "done"}
Verdicts == {"live", "not-live", "wrong-profile", "unverifiable"}

(* What is in hand is on the store; a provider that answers once has nothing *)
(* in hand before its answer.                                                *)
ScanSane ==
    /\ provider \in Providers /\ quick \in BOOLEAN
    /\ onStore \subseteq StoreTracks /\ isrcOwner \in {"own", "other", "nobody"}
    /\ isrcOwner = "own" => Scanned \in onStore
    /\ at \in ScanPoints
    /\ left \subseteq onStore /\ got \subseteq onStore /\ pending \subseteq onStore
    /\ fetched \in Nat
    /\ complete \in BOOLEAN /\ degraded \in BOOLEAN /\ mistaken \in BOOLEAN
    /\ tries \in 0 .. MaxAttempts - 1
    /\ verdict \in Verdicts \cup {None}
    /\ provider \in OneShot /\ at \in {"resolve", "page"} =>
         got = {} /\ pending = {} /\ fetched = 0

(* As long as nothing is known to be missing, every track of the store is    *)
(* read or still to come, and what is to come depends on where the walk is.   *)
NothingLost ==
    complete /\ ~mistaken =>
      /\ onStore \subseteq got \cup left \cup pending
      /\ at \notin {"resolve", "page"} => left = {}
      /\ at \notin {"resolve", "page", "expand"} => pending = {}

\* The index was searched before the supplementary checks begin.
IndexSearched == at \in {"isrc", "title", "miss"} => Scanned \notin got

ScanInv ==
    /\ ScanSane /\ NothingLost /\ IndexSearched
    /\ at # "done" => verdict = None
    /\ VerdictsTrue

LEMMA ScanInitInv == ScanInit => ScanInv
<1> SUFFICES ASSUME ScanInit PROVE ScanInv
  OBVIOUS
<1>1. ScanSane
  <2>1. onStore \in SUBSET StoreTracks /\ left = onStore /\ got = {} /\ pending = {}
    BY DEF ScanInit
  <2>2. provider \in Providers /\ at \in ScanPoints /\ complete \in BOOLEAN
    BY DEF ScanInit, ScanTargets, ScanPoints
  <2>3. 0 \in 0 .. MaxAttempts - 1 /\ 0 \in Nat
    BY BoundsAssumption
  <2> QED BY <2>1, <2>2, <2>3 DEF ScanInit, ScanSane
<1>2. NothingLost
  BY DEF ScanInit, NothingLost, Providers, Cursored, OneShot, ConfirmOnly
<1>3. IndexSearched
  BY DEF ScanInit, IndexSearched
<1>4. VerdictsTrue
  BY StoreAssumption DEF ScanInit, VerdictsTrue
<1> QED BY <1>1, <1>2, <1>3, <1>4 DEF ScanInv, ScanInit

LEMMA OnStoreFinite ==
    ASSUME ScanInv, NEW S \in SUBSET onStore
    PROVE  IsFiniteSet(S) /\ Cardinality(S) \in Nat
<1>1. S \subseteq StoreTracks
  BY DEF ScanInv, ScanSane
<1> QED BY <1>1, StoreAssumption, FS_Subset, FS_CardinalityType

\* A request is tried again.
LEMMA RetryRequestStep ==
    ASSUME ScanInv, RetryRequest
    PROVE  ScanInv'
<1>1. tries' \in 0 .. MaxAttempts - 1
  <2>1. Attempts <= MaxAttempts /\ Attempts \in Nat
    BY BoundsAssumption DEF Attempts
  <2>2. tries \in Nat /\ tries + 1 < Attempts /\ tries' = tries + 1
    BY BoundsAssumption DEF RetryRequest, ScanInv, ScanSane
  <2> QED BY <2>1, <2>2, BoundsAssumption
<1>2. ScanSane'
  BY <1>1 DEF RetryRequest, scanInputs, ScanInv, ScanSane
<1> QED BY <1>2 DEF RetryRequest, scanInputs, ScanInv, NothingLost, IndexSearched, VerdictsTrue

LEMMA ResolveArtistStep ==
    ASSUME ScanInv, ResolveArtist
    PROVE  ScanInv'
<1>1. PICK r \in Resolutions :
        /\ complete' = (complete /\ r \notin {"none", "stranger"} /\ (r = "name" => provider # "TIDAL"))
        /\ at' = IF r = "none" THEN "index" ELSE "page"
        /\ left' = IF r \in {"none", "stranger"} THEN {} ELSE left
  BY DEF ResolveArtist
<1>2. ScanSane'
  BY <1>1, BoundsAssumption DEF ResolveArtist, scanInputs, ScanInv, ScanSane, ScanPoints
<1>3. NothingLost'
  BY <1>1 DEF ResolveArtist, scanInputs, ScanInv, NothingLost
<1> QED BY <1>1, <1>2, <1>3 DEF ResolveArtist, scanInputs, ScanInv, IndexSearched, VerdictsTrue

LEMMA PageFailedStep ==
    ASSUME ScanInv, PageFailed
    PROVE  ScanInv'
<1>1. at' \in {"expand", "index"}
  BY DEF PageFailed, AfterWalk
<1>2. ScanSane'
  <2>1. 0 \in 0 .. MaxAttempts - 1
    BY BoundsAssumption
  <2>2. at' \in ScanPoints /\ at' \notin {"resolve", "page"}
    BY <1>1 DEF ScanPoints
  <2> QED BY <2>1, <2>2 DEF PageFailed, scanInputs, ScanInv, ScanSane
<1> QED BY <1>1, <1>2 DEF PageFailed, scanInputs, ScanInv, NothingLost, IndexSearched, VerdictsTrue

\* A page without a list ends the walk, and what is left of it is then not known to be lost.
LEMMA PageWithoutListStep ==
    ASSUME ScanInv, PageWithoutList
    PROVE  ScanInv'
<1>1. at = "page" /\ at' \in {"expand", "index"} /\ (at' = "index" => pending = {})
  BY DEF PageWithoutList, AfterWalk
<1>2. ScanSane'
  <2>1. 0 \in 0 .. MaxAttempts - 1
    BY BoundsAssumption
  <2>2. at' \in ScanPoints /\ at' \notin {"resolve", "page"} /\ mistaken' \in BOOLEAN
    BY <1>1 DEF ScanPoints, PageWithoutList, ScanInv, ScanSane
  <2> QED BY <2>1, <2>2 DEF PageWithoutList, scanInputs, ScanInv, ScanSane
<1>3. NothingLost'
  <2> SUFFICES ASSUME complete, ~mistaken'
               PROVE  /\ onStore \subseteq got \cup left \cup pending
                      /\ left = {} /\ (at' # "expand" => pending = {})
    BY <1>1 DEF PageWithoutList, scanInputs, NothingLost
  <2>1. ~mistaken /\ left = {}
    BY DEF PageWithoutList, ScanInv, ScanSane
  <2> QED BY <1>1, <2>1 DEF ScanInv, NothingLost
<1> QED BY <1>1, <1>2, <1>3 DEF PageWithoutList, scanInputs, ScanInv, IndexSearched, VerdictsTrue

(* A page is examined.  If it gives no reason to call the catalogue          *)
(* incomplete, all of it was kept, and the walk goes on or was at its end.    *)
LEMMA WalkStep ==
    ASSUME ScanInv, at = "page",
           NEW items \in SUBSET left, NEW taken \in SUBSET items, NEW keep \in SUBSET taken,
           NEW more \in BOOLEAN, NEW whole \in BOOLEAN, Walk(items, taken, keep, more, whole),
           mistaken' \in BOOLEAN, mistaken => mistaken', provider \in OneShot => ~more,
           complete /\ whole /\ ~mistaken' => keep = items /\ (more \/ left \ items = {})
    PROVE  ScanInv'
<1>1. fetched' \in Nat
  <2>1. Cardinality(taken) \in Nat
    BY OnStoreFinite DEF ScanInv, ScanSane
  <2> QED BY <2>1 DEF Walk, ScanInv, ScanSane
<1>2. at' \in {"page", "expand", "index"} /\ (at' = "page" => more)
      /\ (at' = "index" => pending' = {})
  BY DEF Walk, AfterWalk
<1>3. /\ UNCHANGED <<degraded, verdict, provider, onStore, isrcOwner, quick>> /\ tries' = 0
      /\ left' = left \ items /\ complete' = (complete /\ whole)
      /\ (got' = got \cup keep /\ pending' = pending) \/ (pending' = pending \cup keep /\ got' = got)
  BY DEF Walk, scanInputs
<1>4. ScanSane'
  <2>1. got' \subseteq onStore /\ pending' \subseteq onStore /\ left' \subseteq onStore
    BY <1>3 DEF ScanInv, ScanSane
  <2>2. 0 \in 0 .. MaxAttempts - 1
    BY BoundsAssumption
  <2> QED BY <1>1, <1>2, <1>3, <2>1, <2>2 DEF ScanInv, ScanSane, ScanPoints
<1>5. NothingLost'
  <2> SUFFICES ASSUME complete', ~mistaken'
      PROVE  /\ onStore \subseteq got' \cup left' \cup pending'
             /\ at' \notin {"resolve", "page"} => left' = {}
             /\ at' \notin {"resolve", "page", "expand"} => pending' = {}
    BY <1>3 DEF NothingLost
  <2>1. complete /\ whole /\ ~mistaken /\ keep = items /\ (more \/ left \ items = {})
    BY <1>3
  <2>2. onStore \subseteq got \cup left \cup pending
    BY <2>1 DEF ScanInv, NothingLost
  <2>3. onStore \subseteq got' \cup left' \cup pending'
    BY <1>3, <2>1, <2>2
  <2>4. CASE at' = "page"
    BY <2>3, <2>4
  <2>5. CASE at' \in {"expand", "index"}
    <3>1. ~more \/ left' = {}
      BY <1>3, <2>1, <2>5 DEF Walk
    <3> QED BY <1>2, <1>3, <2>1, <2>3, <2>5, <3>1 DEF Walk, AfterWalk
  <2> QED BY <1>2, <2>4, <2>5
<1>6. IndexSearched'
  BY <1>2 DEF IndexSearched
<1> QED BY <1>2, <1>3, <1>4, <1>5, <1>6 DEF ScanInv, VerdictsTrue

LEMMA TidalPageStep ==
    ASSUME ScanInv, TidalPage
    PROVE  ScanInv'
<1>1. PICK items \in SUBSET left : \E link \in Links(left \ items) :
     \E taken \in Within(StoreLimit, items) : \E unusable \in SUBSET taken :
       LET full == fetched + Cardinality(taken) >= StoreLimit
           goesOn == link = "next" /\ ~full /\ taken # {}
       IN  Walk(items, taken, taken \ unusable, goesOn,
                taken = items /\ unusable = {} /\ (goesOn \/ link = "none"))
  BY DEF TidalPage
<1>2. PICK link \in Links(left \ items), taken \in Within(StoreLimit, items) :
       \E unusable \in SUBSET taken, goesOn \in BOOLEAN :
          Walk(items, taken, taken \ unusable, goesOn,
               taken = items /\ unusable = {} /\ (goesOn \/ link = "none"))
  BY <1>1
<1> PICK unusable \in SUBSET taken, goesOn \in BOOLEAN :
          Walk(items, taken, taken \ unusable, goesOn,
               taken = items /\ unusable = {} /\ (goesOn \/ link = "none"))
  BY <1>2
<1>3. taken \subseteq items /\ (link = "none" => left \ items = {})
  BY DEF Within, Links
<1>4. at = "page" /\ mistaken' = mistaken /\ provider \notin OneShot
  BY DEF TidalPage, OneShot
<1> DEFINE keep == taken \ unusable
           whole == taken = items /\ unusable = {} /\ (goesOn \/ link = "none")
<1>5. keep \in SUBSET taken /\ whole \in BOOLEAN
      /\ (whole => keep = items /\ (goesOn \/ left \ items = {}))
  BY <1>3
<1>6. Walk(items, taken, keep, goesOn, whole)
  OBVIOUS
<1> HIDE DEF keep, whole
<1> QED BY <1>3, <1>4, <1>5, <1>6, WalkStep DEF ScanInv, ScanSane

LEMMA SoundCloudPageStep ==
    ASSUME ScanInv, SoundCloudPage
    PROVE  ScanInv'
<1> PICK items \in SUBSET left :
       \E link \in Links(left \ items) \ {"early"}, taken \in Within(StoreLimit, items),
          goesOn \in BOOLEAN :
            Walk(items, taken, taken, goesOn, taken = items /\ (goesOn \/ link = "none"))
  BY DEF SoundCloudPage
<1>1. PICK link \in Links(left \ items) \ {"early"}, taken \in Within(StoreLimit, items),
           goesOn \in BOOLEAN :
       Walk(items, taken, taken, goesOn, taken = items /\ (goesOn \/ link = "none"))
  OBVIOUS
<1>2. taken \subseteq items /\ (link = "none" => left \ items = {})
  BY DEF Within, Links
<1>3. at = "page" /\ mistaken' = mistaken /\ provider \notin OneShot
  BY DEF SoundCloudPage, OneShot
<1> DEFINE whole == taken = items /\ (goesOn \/ link = "none")
<1>4. whole \in BOOLEAN /\ (whole => taken = items /\ (goesOn \/ left \ items = {}))
  BY <1>2
<1>5. Walk(items, taken, taken, goesOn, whole)
  BY <1>1
<1>6. taken \in SUBSET items /\ taken \in SUBSET taken
  BY <1>2
<1>7. mistaken' \in BOOLEAN /\ (mistaken => mistaken') /\ (provider \in OneShot => ~goesOn)
  BY <1>3 DEF ScanInv, ScanSane
<1> HIDE DEF whole
<1> QED BY <1>3, <1>4, <1>5, <1>6, <1>7, WalkStep

LEMMA SpotifyPageStep ==
    ASSUME ScanInv, SpotifyPage
    PROVE  ScanInv'
<1> PICK items \in SUBSET left :
       \E taken \in Within(StoreLimit, items), goesOn \in BOOLEAN :
          Walk(items, taken, taken, goesOn, FALSE)
  BY DEF SpotifyPage
<1>1. PICK taken \in Within(StoreLimit, items), goesOn \in BOOLEAN :
       Walk(items, taken, taken, goesOn, FALSE)
  OBVIOUS
<1>2. taken \subseteq items
  BY DEF Within
<1>3. at = "page" /\ mistaken' = mistaken /\ provider \notin OneShot
  BY DEF SpotifyPage, OneShot
<1> QED BY <1>1, <1>2, <1>3, WalkStep DEF ScanInv, ScanSane

LEMMA DeezerAlbumsStep ==
    ASSUME ScanInv, DeezerAlbums
    PROVE  ScanInv'
<1> PICK items \in SUBSET left :
      \E link \in Links(left \ items) \ {"early"}, taken \in Within(AlbumCap, items),
         full \in BOOLEAN :
        /\ Walk(items, taken, taken, link = "next" /\ ~full,
                taken = items /\ link # "repeated" /\ ~(full /\ link = "next"))
        /\ mistaken' = (mistaken \/ link = "invalid")
  BY DEF DeezerAlbums
<1>1. PICK link \in Links(left \ items) \ {"early"}, taken \in Within(AlbumCap, items),
           full \in BOOLEAN :
        /\ Walk(items, taken, taken, link = "next" /\ ~full,
                taken = items /\ link # "repeated" /\ ~(full /\ link = "next"))
        /\ mistaken' = (mistaken \/ link = "invalid")
  OBVIOUS
<1>2. taken \subseteq items /\ (link = "none" => left \ items = {})
      /\ link \in {"none", "next", "repeated", "invalid"}
  BY DEF Within, Links
<1>3. at = "page" /\ provider \notin OneShot /\ mistaken' \in BOOLEAN
  BY <1>1 DEF DeezerAlbums, OneShot, ScanInv, ScanSane
<1> DEFINE more == link = "next" /\ ~full
           whole == taken = items /\ link # "repeated" /\ ~(full /\ link = "next")
<1>4. more \in BOOLEAN /\ whole \in BOOLEAN
      /\ (whole /\ ~mistaken' => taken = items /\ (more \/ left \ items = {}))
  BY <1>1, <1>2
<1>5. Walk(items, taken, taken, more, whole)
  BY <1>1
<1> HIDE DEF more, whole
<1> QED BY <1>1, <1>2, <1>3, <1>4, <1>5, WalkStep

LEMMA ItunesSongsStep ==
    ASSUME ScanInv, ItunesSongs
    PROVE  ScanInv'
<1>1. PICK answered \in BOOLEAN, songs \in Within(StoreLimit, left) :
        Walk(left, songs, IF answered THEN songs ELSE {}, FALSE,
             answered /\ Cardinality(songs) + 1 < StoreLimit)
  BY DEF ItunesSongs
<1>2. at = "page" /\ mistaken' = mistaken /\ provider \in OneShot /\ fetched = 0
  BY DEF ItunesSongs, OneShot, ScanInv, ScanSane
<1>3. songs \subseteq left
      /\ Cardinality(songs) = IF Cardinality(left) < StoreLimit - fetched THEN Cardinality(left)
                              ELSE StoreLimit - fetched
  BY DEF Within
<1>4. left \subseteq onStore
  BY DEF ScanInv, ScanSane
<1>5. IsFiniteSet(left) /\ Cardinality(left) \in Nat
  BY <1>4, OnStoreFinite
<1> DEFINE keep == IF answered THEN songs ELSE {}
           whole == answered /\ Cardinality(songs) + 1 < StoreLimit
<1>6. ASSUME whole PROVE keep = left
  <2>1. Cardinality(songs) = Cardinality(left)
    BY <1>2, <1>3, <1>5, <1>6, StoreAssumption
  <2>2. songs = left
    BY <1>3, <1>5, <2>1, FS_Subset
  <2> QED BY <1>6, <2>2
<1>7. keep \in SUBSET songs /\ whole \in BOOLEAN
  OBVIOUS
<1>8. Walk(left, songs, keep, FALSE, whole)
  BY <1>1
<1> HIDE DEF keep, whole
<1> QED BY <1>2, <1>3, <1>6, <1>7, <1>8, WalkStep DEF ScanInv, ScanSane

LEMMA AudiomackUploadsStep ==
    ASSUME ScanInv, AudiomackUploads
    PROVE  ScanInv'
<1> PICK items \in SUBSET left :
      \E answered \in BOOLEAN, keep \in Within(StoreLimit, items) : \E albums \in SUBSET keep :
        /\ complete' = (complete /\ answered /\ items = left /\ keep = items)
        /\ fetched' = Cardinality(items)
        /\ left' = left \ items
        /\ pending' = albums /\ got' = keep \ albums
        /\ at' = AfterWalk(albums)
  BY DEF AudiomackUploads
<1> PICK answered \in BOOLEAN, keep \in Within(StoreLimit, items) : \E albums \in SUBSET keep :
        /\ complete' = (complete /\ answered /\ items = left /\ keep = items)
        /\ fetched' = Cardinality(items)
        /\ left' = left \ items
        /\ pending' = albums /\ got' = keep \ albums
        /\ at' = AfterWalk(albums)
  OBVIOUS
<1>1. PICK albums \in SUBSET keep :
        /\ complete' = (complete /\ answered /\ items = left /\ keep = items)
        /\ fetched' = Cardinality(items)
        /\ left' = left \ items
        /\ pending' = albums /\ got' = keep \ albums
        /\ at' = AfterWalk(albums)
  OBVIOUS
<1>2. UNCHANGED <<tries, degraded, mistaken, verdict, provider, onStore, isrcOwner, quick>>
  BY DEF AudiomackUploads, scanInputs
<1>3. keep \subseteq items /\ left \subseteq onStore /\ at = "page" /\ provider \in OneShot
  BY DEF Within, ScanInv, ScanSane, AudiomackUploads, OneShot
<1>4. Cardinality(items) \in Nat
  BY <1>3, OnStoreFinite
<1>5. at' \in {"expand", "index"} /\ (at' = "index" => albums = {})
  BY <1>1 DEF AfterWalk
<1>6. ScanSane'
  BY <1>1, <1>2, <1>3, <1>4, <1>5 DEF ScanInv, ScanSane, ScanPoints
<1>7. got = {} /\ pending = {}
  BY <1>3 DEF ScanInv, ScanSane
<1>8. NothingLost'
  BY <1>1, <1>2, <1>3, <1>5, <1>7 DEF ScanInv, NothingLost
<1> QED BY <1>2, <1>3, <1>5, <1>6, <1>8 DEF ScanInv, IndexSearched, VerdictsTrue

LEMMA AlbumsStep ==
    ASSUME ScanInv, DeezerTracks \/ AudiomackAlbums
    PROVE  ScanInv'
<1>1. PICK read \in SUBSET pending, whole \in BOOLEAN :
        AlbumsRead(read, whole) /\ (whole /\ ~mistaken' => read = pending)
        /\ mistaken' \in BOOLEAN /\ (mistaken => mistaken')
  <2>1. CASE DeezerTracks
    <3> PICK answered \in SUBSET pending : \E empty \in SUBSET answered :
            /\ AlbumsRead(answered \ empty,
                          answered = pending /\ Cardinality(answered \ empty) < StoreLimit)
            /\ mistaken' = (mistaken \/ empty # {})
      BY <2>1 DEF DeezerTracks
    <3>1. PICK empty \in SUBSET answered :
            /\ AlbumsRead(answered \ empty,
                          answered = pending /\ Cardinality(answered \ empty) < StoreLimit)
            /\ mistaken' = (mistaken \/ empty # {})
      OBVIOUS
    <3> DEFINE read == answered \ empty
               whole == answered = pending /\ Cardinality(answered \ empty) < StoreLimit
    <3>2. AlbumsRead(read, whole) /\ read \in SUBSET pending /\ whole \in BOOLEAN
      BY <3>1
    <3>3. whole /\ ~mistaken' => read = pending
      BY <3>1
    <3>4. mistaken' \in BOOLEAN /\ (mistaken => mistaken')
      BY <3>1 DEF ScanInv, ScanSane
    <3> HIDE DEF read, whole
    <3> QED BY <3>2, <3>3, <3>4
  <2>2. CASE AudiomackAlbums
    <3>1. PICK read \in SUBSET pending : AlbumsRead(read, read = pending)
      BY <2>2 DEF AudiomackAlbums
    <3> DEFINE whole == read = pending
    <3>2. AlbumsRead(read, whole) /\ whole \in BOOLEAN /\ (whole => read = pending)
      BY <3>1
    <3>3. mistaken' \in BOOLEAN /\ (mistaken => mistaken')
      BY <2>2 DEF AudiomackAlbums, ScanInv, ScanSane
    <3> HIDE DEF whole
    <3> QED BY <3>2, <3>3
  <2> QED BY <2>1, <2>2
<1>2. at = "expand"
  BY DEF DeezerTracks, AudiomackAlbums
<1>3. ScanSane'
  BY <1>1, <1>2, BoundsAssumption DEF AlbumsRead, scanInputs, ScanInv, ScanSane, ScanPoints
<1>4. NothingLost'
  BY <1>1, <1>2 DEF AlbumsRead, scanInputs, ScanInv, NothingLost
<1> QED BY <1>1, <1>2, <1>3, <1>4 DEF AlbumsRead, scanInputs, ScanInv, IndexSearched, VerdictsTrue

\* A verdict that is true may be reported, and only the end of the scan reports one.
LEMMA ReportStep ==
    ASSUME ScanInv, NEW v \in Verdicts, Report(v), at \notin {"resolve", "page", "expand"},
           v = "live" => Scanned \in onStore,
           v = "wrong-profile" => isrcOwner = "other",
           v = "not-live" /\ ~mistaken => Scanned \notin onStore
    PROVE  ScanInv'
<1>1. ScanSane'
  BY BoundsAssumption DEF Report, scanInputs, ScanInv, ScanSane, ScanPoints
<1> QED BY <1>1 DEF Report, scanInputs, ScanInv, NothingLost, IndexSearched, VerdictsTrue

LEMMA ContinueStep ==
    ASSUME ScanInv, NEW next \in {"isrc", "title", "miss"}, NEW failed \in BOOLEAN,
           Continue(next, failed), at \in {"index", "isrc", "title"}, Scanned \notin got
    PROVE  ScanInv'
<1>1. ScanSane'
  BY BoundsAssumption DEF Continue, scanInputs, ScanInv, ScanSane, ScanPoints
<1> QED BY <1>1 DEF Continue, scanInputs, ScanInv, NothingLost, IndexSearched, VerdictsTrue

\* A miss on a catalogue read to its end is an absence.
LEMMA MissMeansAbsent ==
    ASSUME ScanInv, at \in {"index", "miss"}, Scanned \notin got
    PROVE  /\ Miss \in {"unverifiable", "not-live"}
           /\ Miss = "not-live" /\ ~mistaken => Scanned \notin onStore
BY DEF Miss, ScanInv, NothingLost

LEMMA ScanIndexStep ==
    ASSUME ScanInv, ScanIndex
    PROVE  ScanInv'
<1>1. at = "index"
  BY DEF ScanIndex
<1>2. CASE Scanned \in got /\ Report("live")
  BY <1>1, <1>2, ReportStep DEF Verdicts, ScanInv, ScanSane
<1>3. CASE Scanned \notin got /\ Report(Miss)
  BY <1>1, <1>3, ReportStep, MissMeansAbsent DEF Verdicts
<1>4. CASE Scanned \notin got /\ Continue("isrc", FALSE)
  BY <1>1, <1>4, ContinueStep
<1> QED BY <1>2, <1>3, <1>4 DEF ScanIndex

LEMMA LookupIsrcStep ==
    ASSUME ScanInv, LookupIsrc
    PROVE  ScanInv'
<1>1. PICK answer \in IsrcAnswers :
        CASE answer = "own" -> Report("live")
          [] answer = "other" -> Report("wrong-profile")
          [] OTHER -> Continue("title", answer = "failed")
  BY DEF LookupIsrc
<1>2. at = "isrc" /\ Scanned \notin got
  BY DEF LookupIsrc, ScanInv, IndexSearched
<1>3. answer \in {"nobody", "failed", isrcOwner}
  BY DEF IsrcAnswers, SpotifyIsrc, DeezerIsrc
<1>4. CASE answer = "own"
  BY <1>1, <1>2, <1>3, <1>4, ReportStep DEF Verdicts, ScanInv, ScanSane
<1>5. CASE answer = "other"
  BY <1>1, <1>2, <1>3, <1>5, ReportStep DEF Verdicts
<1>6. CASE answer \notin {"own", "other"}
  <2>1. Continue("title", answer = "failed")
    BY <1>1, <1>6
  <2> QED BY <1>2, <2>1, ContinueStep
<1> QED BY <1>4, <1>5, <1>6

LEMMA SearchTitleStep ==
    ASSUME ScanInv, SearchTitle
    PROVE  ScanInv'
<1>1. PICK answer \in TitleAnswers :
        IF answer = "hit" THEN Report("live") ELSE Continue("miss", answer = "failed")
  BY DEF SearchTitle
<1>2. at = "title" /\ Scanned \notin got
  BY DEF SearchTitle, ScanInv, IndexSearched
<1>3. answer = "hit" => Scanned \in onStore
  BY DEF TitleAnswers, SpotifyTitle, DeezerTitle, ItunesTitle, YouTubeTitle, WebTitle, Found
<1>4. CASE answer = "hit"
  BY <1>1, <1>2, <1>3, <1>4, ReportStep DEF Verdicts
<1>5. CASE answer # "hit"
  <2>1. Continue("miss", answer = "failed")
    BY <1>1, <1>5
  <2> QED BY <1>2, <2>1, ContinueStep
<1> QED BY <1>4, <1>5

LEMMA ScanNextInv ==
    ASSUME ScanInv, [ScanNext]_scanVars
    PROVE  ScanInv'
<1>1. CASE UNCHANGED scanVars
  BY <1>1 DEF scanVars, scanState, ScanInv, ScanSane, NothingLost, IndexSearched, VerdictsTrue
<1>2. CASE ReportMiss
  <2>1. at = "miss" /\ Report(Miss) /\ Scanned \notin got
    BY <1>2 DEF ReportMiss, ScanInv, IndexSearched
  <2> QED BY <2>1, ReportStep, MissMeansAbsent DEF Verdicts
<1>3. CASE ScanNext /\ ~ReportMiss
  BY <1>3, RetryRequestStep, ResolveArtistStep, PageFailedStep, PageWithoutListStep, TidalPageStep,
     SoundCloudPageStep, SpotifyPageStep, DeezerAlbumsStep, ItunesSongsStep, AudiomackUploadsStep, AlbumsStep,
     ScanIndexStep, LookupIsrcStep, SearchTitleStep DEF ScanNext
<1> QED BY <1>1, <1>2, <1>3

LEMMA ScanInvSound == ASSUME ScanInv PROVE ScanTypeOK /\ VerdictsTrue
BY DEF ScanInv, ScanSane, ScanTypeOK, ScanPoints, Verdicts

(* Whatever the store answers, withholds, repeats or cuts off, for every     *)
(* provider, limit and profile: the verdict is true, unless an answer was     *)
(* taken for the end of a listing that it is not.                             *)
THEOREM StoreVerdicts == ScanSpec => [](ScanTypeOK /\ VerdictsTrue)
<1>1. ScanInit => ScanInv
  BY ScanInitInv
<1>2. ScanInv /\ [ScanNext]_scanVars => ScanInv'
  BY ScanNextInv
<1>3. ScanInv => ScanTypeOK /\ VerdictsTrue
  BY ScanInvSound
<1> QED BY <1>1, <1>2, <1>3, PTL DEF ScanSpec

-----------------------------------------------------------------------------
(* The shared search provider. *)

Sightings == SUBSET {"broad", "stores"}
LookupPcs == {"off", "wait", "call", "done"}
Lookups == [pc : LookupPcs, slot : Nat, answer : Sightings, ok : BOOLEAN]

SearchSane ==
    /\ now \in 0 .. MaxTicks /\ nextSlot \in Nat
    /\ breaker \in [failures : Nat, openUntil : Nat]
    /\ truth \in [Songs -> [stores : BOOLEAN, broad : BOOLEAN]]
    /\ lookup \in [Queries -> Lookups]
    /\ answers \in [Queries -> Sightings \cup {None}]
    /\ lyricRows \in [Songs -> {None, "found", "not-found", "unverifiable"}]

\* A query that has been given a time.
Reserved(q) == lookup[q].pc \in {"wait", "call"}

(* Every time given lies an interval before the next one to give. *)
SlotsBehind == \A q \in Queries : Reserved(q) => lookup[q].slot + MinInterval <= nextSlot

SearchInv == SearchSane /\ SlotsBehind /\ SlotsSpaced /\ CachedAnswersReal

LEMMA ResultsTyped == ASSUME NEW q \in Queries PROVE Results(q) \in Sightings
BY DEF Results, Queries, Sightings

LEMMA SearchInitInv == SearchInit => SearchInv
<1> SUFFICES ASSUME SearchInit PROVE SearchInv
  OBVIOUS
<1>1. Off \in Lookups /\ Off.pc = "off" /\ Off.ok = FALSE
  BY DEF Off, Lookups, LookupPcs, Sightings
<1>2. SearchSane
  BY <1>1, SearchAssumption DEF SearchInit, SearchSane
<1>3. \A q \in Queries : lookup[q] = Off /\ answers[q] = None
  BY DEF SearchInit
<1> QED BY <1>1, <1>2, <1>3 DEF SearchInv, SlotsBehind, Reserved, SlotsSpaced, CachedAnswersReal

(* A step of one query: the others keep what they have, and a new time is   *)
(* the next one to give or later.                                            *)
LEMMA QueryStep ==
    ASSUME SearchInv, NEW q \in Queries, NEW new \in Lookups, lookup' = [lookup EXCEPT ![q] = new],
           nextSlot' \in Nat, nextSlot <= nextSlot', UNCHANGED <<now, truth, lyricRows>>,
           breaker' \in [failures : Nat, openUntil : Nat],
           new.pc \in {"wait", "call"} =>
             \/ Reserved(q) /\ new.slot = lookup[q].slot
             \/ nextSlot <= new.slot /\ nextSlot' = new.slot + MinInterval,
           new.ok => new.answer = Results(q),
           answers' = answers \/ answers' = [answers EXCEPT ![q] = Results(q)]
    PROVE  SearchInv'
<1>1. lookup'[q] = new /\ \A p \in Queries \ {q} : lookup'[p] = lookup[p]
  BY DEF SearchInv, SearchSane
<1>2. Results(q) \in Sightings
  BY ResultsTyped
<1>3. SearchSane'
  BY <1>2 DEF SearchInv, SearchSane
<1>4. \A p \in Queries : lookup[p].slot \in Nat /\ lookup'[p].slot \in Nat
  BY <1>1 DEF SearchInv, SearchSane, Lookups
<1>5. SlotsBehind'
  BY <1>1, <1>4, SearchAssumption DEF SearchInv, SearchSane, SlotsBehind, Reserved
<1>6. SlotsSpaced'
  <2> SUFFICES ASSUME NEW p \in Queries, NEW r \in Queries, p # r, Reserved(p)', Reserved(r)'
               PROVE  \/ lookup'[p].slot >= lookup'[r].slot + MinInterval
                      \/ lookup'[r].slot >= lookup'[p].slot + MinInterval
    BY DEF SlotsSpaced, Reserved
  <2>1. \A s \in Queries \ {q} : Reserved(s)' => Reserved(s) /\ lookup'[s].slot = lookup[s].slot
    BY <1>1 DEF Reserved
  <2>2. Reserved(q)' => \/ Reserved(q) /\ lookup'[q].slot = lookup[q].slot
                        \/ nextSlot <= lookup'[q].slot
    BY <1>1 DEF Reserved
  <2>3. \A s, u \in Queries : s # u /\ Reserved(s) /\ Reserved(u) =>
          lookup[s].slot >= lookup[u].slot + MinInterval \/ lookup[u].slot >= lookup[s].slot + MinInterval
    BY DEF SearchInv, SlotsSpaced, Reserved
  <2>4. \A s \in Queries : Reserved(s) => lookup[s].slot + MinInterval <= nextSlot
    BY DEF SearchInv, SlotsBehind
  <2>5. nextSlot \in Nat /\ MinInterval \in Nat
    BY SearchAssumption DEF SearchInv, SearchSane
  <2> HIDE DEF Reserved
  <2> QED BY <1>4, <2>1, <2>2, <2>3, <2>4, <2>5
<1>7. CachedAnswersReal'
  <2>1. \A p \in Queries : Results(p)' = Results(p)
    BY DEF Results
  <2>2. answers'[q] \in {answers[q], Results(q)} /\ \A p \in Queries \ {q} : answers'[p] = answers[p]
    BY DEF SearchInv, SearchSane
  <2> QED BY <1>1, <2>1, <2>2 DEF SearchInv, CachedAnswersReal
<1> QED BY <1>3, <1>5, <1>6, <1>7 DEF SearchInv

\* A step that gives no time and no answer.
LEMMA QuietStep ==
    ASSUME SearchInv, now' \in 0 .. MaxTicks, UNCHANGED <<nextSlot, breaker, truth>>,
           lookup' = lookup \/ lookup' = [q \in Queries |-> Off],
           answers' \in [Queries -> Sightings \cup {None}],
           \A q \in Queries : answers'[q] \in {answers[q], None},
           lyricRows' \in [Songs -> {None, "found", "not-found", "unverifiable"}]
    PROVE  SearchInv'
<1>1. Off \in Lookups /\ Off.pc = "off" /\ Off.ok = FALSE
  BY DEF Off, Lookups, LookupPcs, Sightings
<1>2. \A q \in Queries : lookup'[q] = lookup[q] \/ lookup'[q] = Off
  BY DEF SearchInv, SearchSane
<1>3. lookup' \in [Queries -> Lookups]
  BY <1>1 DEF SearchInv, SearchSane
<1>4. \A q \in Queries : Results(q)' = Results(q)
  BY DEF Results
<1>5. SearchSane'
  BY <1>3 DEF SearchInv, SearchSane
<1>6. \A q \in Queries : (lookup'[q].pc \in {"wait", "call"} \/ lookup'[q].ok) => lookup'[q] = lookup[q]
  BY <1>1, <1>2
<1>7. SlotsBehind' /\ SlotsSpaced'
  BY <1>6 DEF SearchInv, SlotsBehind, Reserved, SlotsSpaced
<1>8. CachedAnswersReal'
  BY <1>4, <1>6 DEF SearchInv, CachedAnswersReal
<1> QED BY <1>5, <1>7, <1>8 DEF SearchInv

LEMMA SearchQueryStep ==
    ASSUME SearchInv, NEW q \in Queries, Search(q)
    PROVE  SearchInv'
<1>1. breaker' \in [failures : Nat, openUntil : Nat] /\ UNCHANGED <<now, truth, lyricRows>>
      /\ answers' = answers
  BY DEF Search, SearchInv, SearchSane
<1>9. Off \in Lookups /\ ~Off.ok
  BY DEF Off, Lookups, LookupPcs, Sightings
<1>0. nextSlot \in Nat /\ now \in Nat
  BY SearchAssumption DEF SearchInv, SearchSane
<1>2. CASE answers[q] # None
  <2> DEFINE new == [Off EXCEPT !.pc = "done", !.answer = answers[q], !.ok = TRUE]
  <2>1. lookup' = [lookup EXCEPT ![q] = new] /\ nextSlot' = nextSlot
    BY <1>2 DEF Search, SetLookup
  <2>2. answers[q] \in Sightings /\ answers[q] = Results(q)
    BY <1>2 DEF CachedAnswersReal, SearchInv, SearchSane
  <2>4. new \in Lookups /\ new.pc \notin {"wait", "call"} /\ new.answer = Results(q)
    BY <1>9, <2>2 DEF Lookups, LookupPcs
  <2>5. nextSlot' \in Nat /\ nextSlot <= nextSlot'
    BY <1>0, <2>1
  <2> HIDE DEF new
  <2> QED BY <1>1, <2>1, <2>4, <2>5, QueryStep
<1>3. CASE answers[q] = None /\ BreakerState = "open"
  <2> DEFINE new == [Off EXCEPT !.pc = "done"]
  <2>1. lookup' = [lookup EXCEPT ![q] = new] /\ nextSlot' = nextSlot
    BY <1>3 DEF Search, SetLookup
  <2>3. new \in Lookups /\ new.pc \notin {"wait", "call"} /\ ~new.ok
    BY <1>9 DEF Lookups, LookupPcs
  <2>5. nextSlot' \in Nat /\ nextSlot <= nextSlot'
    BY <1>0, <2>1
  <2> HIDE DEF new
  <2> QED BY <1>1, <2>1, <2>3, <2>5, QueryStep
<1>4. CASE answers[q] = None /\ BreakerState # "open"
  <2> DEFINE slot == LaterOf(now, nextSlot)
             new == [Off EXCEPT !.pc = "wait", !.slot = slot]
  <2>1. lookup' = [lookup EXCEPT ![q] = new] /\ nextSlot' = slot + MinInterval
    BY <1>4 DEF Search, SetLookup, ReserveSlot
  <2>2. slot \in Nat /\ nextSlot <= slot
    BY <1>0 DEF LaterOf
  <2> HIDE DEF slot
  <2>4. new \in Lookups /\ new.slot = slot /\ ~new.ok
    BY <1>9, <2>2 DEF Lookups, LookupPcs
  <2>5. nextSlot' \in Nat /\ nextSlot <= nextSlot'
    BY <1>0, <2>1, <2>2, SearchAssumption
  <2> HIDE DEF new
  <2> QED BY <1>1, <2>1, <2>2, <2>4, <2>5, QueryStep
<1> QED BY <1>2, <1>3, <1>4

\* The search of a query moves on with the time it has.
LEMMA MoveLookupStep ==
    ASSUME SearchInv, NEW q \in Queries, CallUpstream(q) \/ Answered(q) \/ UpstreamFailed(q)
    PROVE  SearchInv'
<1>1. lookup[q] \in Lookups /\ Reserved(q)
  BY DEF CallUpstream, Answered, UpstreamFailed, SearchInv, SearchSane, Reserved
<1>2. UNCHANGED <<now, truth, lyricRows>> /\ nextSlot' \in Nat /\ nextSlot <= nextSlot'
  <2>1. nextSlot \in Nat
    BY DEF SearchInv, SearchSane
  <2>2. CASE CallUpstream(q)
    BY <2>1, <2>2 DEF CallUpstream
  <2>3. CASE Answered(q)
    BY <2>1, <2>3 DEF Answered
  <2>4. CASE UpstreamFailed(q)
    BY <2>1, <2>4 DEF UpstreamFailed
  <2> QED BY <2>2, <2>3, <2>4
<1>3. breaker' \in [failures : Nat, openUntil : Nat]
  <2>1. now \in Nat /\ breaker \in [failures : Nat, openUntil : Nat]
    BY SearchAssumption DEF SearchInv, SearchSane
  <2>2. breaker.failures + 1 \in Nat /\ breaker.openUntil \in Nat /\ now + BreakerReset \in Nat
    BY <2>1, SearchAssumption
  <2>3. Opened(breaker.failures + 1) \in [failures : Nat, openUntil : Nat]
    BY <2>2 DEF Opened
  <2>4. breaker' \in {breaker, [failures |-> 0, openUntil |-> 0], Opened(breaker.failures + 1)}
    BY DEF CallUpstream, Answered, UpstreamFailed
  <2>5. [failures |-> 0, openUntil |-> 0] \in [failures : Nat, openUntil : Nat]
    OBVIOUS
  <2> QED BY <2>1, <2>3, <2>4, <2>5
<1>4. CASE CallUpstream(q)
  <2> DEFINE new == [lookup[q] EXCEPT !.pc = "call"]
  <2>1. new \in Lookups /\ new.slot = lookup[q].slot /\ new.ok = lookup[q].ok /\ new.answer = lookup[q].answer
    BY <1>1 DEF Lookups, LookupPcs
  <2>2. lookup' = [lookup EXCEPT ![q] = new] /\ answers' = answers
    BY <1>4 DEF CallUpstream, SetLookup
  <2>3. lookup[q].ok => lookup[q].answer = Results(q)
    BY DEF SearchInv, CachedAnswersReal
  <2> HIDE DEF new
  <2> QED BY <1>1, <1>2, <1>3, <2>1, <2>2, <2>3, QueryStep DEF Reserved
<1>5. CASE Answered(q)
  <2> DEFINE new == [lookup[q] EXCEPT !.pc = "done", !.answer = Results(q), !.ok = TRUE]
  <2>1. new \in Lookups /\ new.pc = "done" /\ new.answer = Results(q)
    BY <1>1, ResultsTyped DEF Lookups, LookupPcs
  <2>2. lookup' = [lookup EXCEPT ![q] = new] /\ answers' = [answers EXCEPT ![q] = Results(q)]
    BY <1>5 DEF Answered, SetLookup, Cached
  <2> HIDE DEF new
  <2> QED BY <1>1, <1>2, <1>3, <2>1, <2>2, QueryStep
<1>6. CASE UpstreamFailed(q)
  <2> DEFINE new == [lookup[q] EXCEPT !.pc = "done"]
  <2>1. new \in Lookups /\ new.pc = "done" /\ new.ok = lookup[q].ok /\ new.answer = lookup[q].answer
    BY <1>1 DEF Lookups, LookupPcs
  <2>2. lookup' = [lookup EXCEPT ![q] = new] /\ answers' = answers
    BY <1>6 DEF UpstreamFailed, SetLookup, Cached
  <2>3. lookup[q].ok => lookup[q].answer = Results(q)
    BY DEF SearchInv, CachedAnswersReal
  <2> HIDE DEF new
  <2> QED BY <1>1, <1>2, <1>3, <2>1, <2>2, <2>3, QueryStep DEF Reserved
<1> QED BY <1>4, <1>5, <1>6

LEMMA SearchNextInv ==
    ASSUME SearchInv, [SearchNext]_searchVars
    PROVE  SearchInv'
<1>1. /\ now \in 0 .. MaxTicks
      /\ answers \in [Queries -> Sightings \cup {None}]
      /\ lyricRows \in [Songs -> {None, "found", "not-found", "unverifiable"}]
  BY DEF SearchInv, SearchSane
<1>2. CASE UNCHANGED searchVars
  BY <1>1, <1>2, QuietStep DEF searchVars, searchState
<1>3. CASE Tick
  <2>1. now' \in 0 .. MaxTicks
    BY <1>1, <1>3, SearchAssumption DEF Tick
  <2> QED BY <1>1, <1>3, <2>1, QuietStep DEF Tick
<1>4. CASE EndLyricsCheck
  BY <1>1, <1>4, QuietStep DEF EndLyricsCheck
<1>5. CASE Recheck
  BY <1>1, <1>5, QuietStep DEF Recheck
<1>6. ASSUME NEW s \in Songs, Resolve(s) PROVE SearchInv'
  <2>1. lyricRows' \in [Songs -> {None, "found", "not-found", "unverifiable"}]
    BY <1>1, <1>6 DEF Resolve, ToStoreVerdict
  <2> QED BY <1>1, <1>6, <2>1, QuietStep DEF Resolve
<1>7. ASSUME NEW q \in Queries, Downgrade(q) PROVE SearchInv'
  BY <1>1, <1>7, QuietStep DEF Downgrade
<1>8. ASSUME NEW q \in Queries, Expire(q) PROVE SearchInv'
  <2>1. /\ answers' \in [Queries -> Sightings \cup {None}]
        /\ \A p \in Queries : answers'[p] \in {answers[p], None}
    BY <1>1, <1>8 DEF Expire
  <2> QED BY <1>1, <1>8, <2>1, QuietStep DEF Expire
<1> QED BY <1>2, <1>3, <1>4, <1>5, <1>6, <1>7, <1>8, SearchQueryStep, MoveLookupStep DEF SearchNext

LEMMA SearchInvSound == ASSUME SearchInv PROVE SearchTypeOK /\ ProviderSound
BY DEF SearchInv, SearchSane, SearchTypeOK, ProviderSound, Lookups, LookupPcs

(* For any songs, interval, thresholds and failures: concurrent searches    *)
(* never share a slot, and no failure is remembered as an answer.            *)
THEOREM ProviderPromises == SearchSpec => [](SearchTypeOK /\ ProviderSound)
<1>1. SearchInit => SearchInv
  BY SearchInitInv
<1>2. SearchInv /\ [SearchNext]_searchVars => SearchInv'
  BY SearchNextInv
<1>3. SearchInv => SearchTypeOK /\ ProviderSound
  BY SearchInvSound
<1> QED BY <1>1, <1>2, <1>3, PTL DEF SearchSpec

-----------------------------------------------------------------------------
(* The index reader. *)

IndexSteps == {"open", "sample", "state", "scroll", "finish", "done"}
LinkKinds == {"own", "menu", "none", "foreign", "broken"}
IndexLinks == LinkKinds \X (IndexReleases \cup {None})
ListCounts == {1, 2, None}
IndexRow == [id : IndexReleases \cup {None}, href : IndexLinks, count : ListCounts]
IndexEntry == [ids : SUBSET IndexReleases, hrefs : SUBSET IndexLinks,
               id : IndexReleases \cup {None}, count : ListCounts, conflict : BOOLEAN,
               heard : SUBSET {1, 2}]

IndexSane ==
    /\ step \in IndexSteps \cup IndexErrorCodes
    /\ shown \in [IndexReleases -> RowShapes]
    /\ entries \subseteq IndexEntry
    /\ added \in BOOLEAN /\ clicked \in BOOLEAN /\ totalRead \in BOOLEAN
    /\ strongest \in Totals /\ stable \in Nat /\ stable <= round /\ round \in 0 .. MaxScrollRounds
    /\ step = "open" => round = 0
    /\ step \in {"sample", "state"} => stable < round \/ round = 0

(* One entry never collects two releases' ids, and it forgets its count when *)
(* it hears another.                                                         *)
EntrySound(e) ==
    /\ e.ids = {} \/ \E r \in IndexReleases : e.ids = {r}
    /\ e.conflict => e.count = None
    /\ ~e.conflict /\ e.count = None => e.heard = {}
    /\ e.count # None => e.heard = {e.count}

(* The total the account itself announces is the largest one that can be    *)
(* read, so it stays; and a list that settles has as many entries.           *)
TotalKept ==
    /\ totalRead => strongest = Cardinality(IndexReleases)
    /\ step \in {"finish", "done"} /\ strongest # None => Cardinality(entries) = strongest

IndexInv == IndexSane /\ (\A e \in entries : EntrySound(e)) /\ TotalKept

LEMMA TotalsTyped ==
    /\ Cardinality(IndexReleases) \in Nat
    /\ Totals = {None} \cup 0 .. Cardinality(IndexReleases)
BY IndexAssumption, FS_CardinalityType DEF Totals

LEMMA IndexInitInv == IndexInit => IndexInv
<1> SUFFICES ASSUME IndexInit PROVE IndexInv
  OBVIOUS
<1>1. 0 \in 0 .. MaxScrollRounds
  BY IndexAssumption
<1>2. IndexSane
  <2>1. shown \in [IndexReleases -> RowShapes] /\ entries \subseteq IndexEntry
        /\ step \in IndexSteps \cup IndexErrorCodes /\ step \notin {"sample", "state"}
    BY DEF IndexInit, IndexSteps
  <2>2. added \in BOOLEAN /\ clicked \in BOOLEAN /\ totalRead \in BOOLEAN
    BY DEF IndexInit
  <2>3. strongest \in Totals /\ stable = 0 /\ round = 0
    BY DEF IndexInit, Totals
  <2> QED BY <1>1, <2>1, <2>2, <2>3 DEF IndexSane
<1> QED BY <1>2 DEF IndexInit, IndexInv, TotalKept

LEMMA RowTyped == ASSUME IndexInv, NEW row \in VisibleRows PROVE row \in IndexRow
<1>1. PICK r \in IndexReleases : row \in RowsOf(r)
  BY DEF VisibleRows
<1>2. shown[r] \in RowShapes
  BY DEF IndexInv, IndexSane
<1>3. \A s \in shown[r] : s[2] \in LinkKinds
  <2> DEFINE Renderings == {<<TRUE, "own">>, <<TRUE, "none">>, <<FALSE, "own">>, <<TRUE, "menu">>,
                            <<FALSE, "menu">>, <<TRUE, "foreign">>, <<FALSE, "broken">>, <<FALSE, "none">>}
  <2>1. \A shape \in RowShapes : shape \subseteq Renderings
    BY Zenon DEF RowShapes
  <2>2. \A b, k : <<b, k>>[2] = k
    OBVIOUS
  <2>3. \A s \in Renderings : s[2] \in LinkKinds
    BY <2>2, Zenon DEF LinkKinds
  <2> HIDE DEF Renderings
  <2> QED BY <1>2, <2>1, <2>3
<1>4. PICK s \in shown[r], c \in {None} \cup IF r \in CountedReleases THEN 1..2 ELSE {} :
        row = [id    |-> IF s[1] THEN r ELSE None,
               href  |-> <<s[2], IF s[2] \in {"none", "menu"} THEN None ELSE r>>,
               count |-> c]
  BY <1>1 DEF RowsOf
<1>5. <<s[2], IF s[2] \in {"none", "menu"} THEN None ELSE r>> \in IndexLinks
  BY <1>3 DEF IndexLinks
<1>6. c \in ListCounts
  BY DEF ListCounts
<1> QED BY <1>4, <1>5, <1>6 DEF IndexRow

LEMMA StopStep ==
    ASSUME IndexInv, NEW code \in IndexSteps \cup IndexErrorCodes, Stop(code),
           code \in {"finish", "done"} => step \in {"finish", "done"},
           code # "open", code \in {"sample", "state"} => step \in {"open", "sample"}
    PROVE  IndexInv'
<1>1. UNCHANGED <<shown, entries, added, clicked, strongest, stable, round, totalRead>> /\ step' = code
  BY DEF Stop
<1>2. IndexSane'
  <2>1. code = "open" => round = 0
    OBVIOUS
  <2>2. code \in {"sample", "state"} => stable < round \/ round = 0
    BY DEF IndexInv, IndexSane
  <2> QED BY <1>1, <2>1, <2>2 DEF IndexInv, IndexSane, Totals
<1>3. Totals' = Totals
  BY DEF Totals
<1> QED BY <1>1, <1>2 DEF IndexInv, TotalKept, EntrySound

\* A rendering starts a new entry.
LEMMA NewEntryStep ==
    ASSUME IndexInv, NEW row \in IndexRow
    PROVE  Aliased(NewEntry(row), row) \in IndexEntry /\ EntrySound(Aliased(NewEntry(row), row))
<1> DEFINE n == NewEntry(row)
           e == Aliased(n, row)
<1>1. row.id \in IndexReleases \cup {None} /\ row.count \in ListCounts /\ row.href \in IndexLinks
  BY DEF IndexRow
<1>2. n \in IndexEntry /\ n.ids = {} /\ n.hrefs = {} /\ n.heard = {} /\ ~n.conflict /\ n.count = row.count
  BY <1>1 DEF NewEntry, IndexEntry
<1> HIDE DEF n
<1>3. /\ e \in IndexEntry
      /\ e.ids = IF row.id # None THEN {row.id} ELSE {}
      /\ e.heard = {row.count} \ {None} /\ e.count = row.count /\ ~e.conflict
  BY <1>1, <1>2 DEF Aliased, IndexEntry, ListCounts
<1>4. EntrySound(e)
  <2> HIDE DEF e
  <2> QED BY <1>1, <1>3 DEF EntrySound
<1> QED BY <1>3, <1>4 DEF n

\* A rendering of a release seen before is merged into its entry.
LEMMA MergedEntryStep ==
    ASSUME IndexInv, NEW row \in IndexRow, NEW e \in entries,
           row.id # None => row.id \in e.ids \/ e.ids \subseteq {row.id}
    PROVE  /\ Aliased(MergeCatalogIndexRow(e, row), row) \in IndexEntry
           /\ EntrySound(Aliased(MergeCatalogIndexRow(e, row), row))
<1> DEFINE m == MergeCatalogIndexRow(e, row)
           a == Aliased(m, row)
<1>1. row.id \in IndexReleases \cup {None} /\ row.count \in ListCounts /\ row.href \in IndexLinks
  BY DEF IndexRow
<1>2. e \in IndexEntry /\ EntrySound(e)
  BY DEF IndexInv, IndexSane
<1>3. /\ m \in IndexEntry /\ m.ids = e.ids /\ m.heard = e.heard
      /\ m.conflict = (e.conflict \/ (None \notin {e.count, row.count} /\ e.count # row.count))
      /\ m.count = IF m.conflict THEN None ELSE IF e.count # None THEN e.count ELSE row.count
  BY <1>1, <1>2 DEF MergeCatalogIndexRow, IndexEntry, ListCounts
<1> HIDE DEF m
<1>4. /\ a \in IndexEntry
      /\ a.ids = (IF row.id # None THEN m.ids \cup {row.id} ELSE m.ids)
      /\ a.heard = m.heard \cup ({row.count} \ {None}) /\ a.count = m.count /\ a.conflict = m.conflict
  BY <1>1, <1>3 DEF Aliased, IndexEntry, ListCounts
<1>5. a.ids = {} \/ \E r \in IndexReleases : a.ids = {r}
  <2> HIDE DEF a
  <2> QED BY <1>1, <1>2, <1>3, <1>4 DEF EntrySound
<1>6. EntrySound(a)
  <2> HIDE DEF a
  <2> QED BY <1>1, <1>2, <1>3, <1>4, <1>5 DEF EntrySound, ListCounts, IndexEntry
<1> QED BY <1>4, <1>6 DEF m

LEMMA MergeRowStep == ASSUME IndexInv, MergeRow PROVE IndexInv'
<1>1. PICK row \in VisibleRows :
       \/ \E code \in {"UNSAFE_RELEASE_URL", "RELEASE_IDENTITY_MISSING", "RELEASE_IDENTITY_CONFLICT"} : Stop(code)
       \/ /\ ~Conflicting(row)
          /\ LET matching == IF IdMatch(row) # {} THEN IdMatch(row) ELSE HrefMatch(row)
             IN  IF matching = {}
                 THEN /\ entries' = entries \cup {Aliased(NewEntry(row), row)}
                      /\ added' = TRUE
                 ELSE LET e == CHOOSE k \in matching : TRUE
                      IN  /\ entries' = (entries \ {e})
                                        \cup {Aliased(MergeCatalogIndexRow(e, row), row)}
                          /\ UNCHANGED added
          /\ UNCHANGED <<shown, step, clicked, strongest, stable, round, totalRead, boundVars>>
  BY DEF MergeRow
<1>2. row \in IndexRow
  BY RowTyped
<1>3. CASE \E code \in {"UNSAFE_RELEASE_URL", "RELEASE_IDENTITY_MISSING", "RELEASE_IDENTITY_CONFLICT"} : Stop(code)
  BY <1>3, StopStep DEF IndexErrorCodes
<1>4. ASSUME ~Conflicting(row), NEW n, NEW old \in SUBSET entries, entries' = (entries \ old) \cup {n}, n \in IndexEntry, EntrySound(n),
             added' \in BOOLEAN, UNCHANGED <<shown, step, clicked, strongest, stable, round, totalRead>>
      PROVE  IndexInv'
  <2>1. step = "sample"
    BY DEF MergeRow
  <2>2. IndexSane'
    BY <1>4 DEF IndexInv, IndexSane
  <2>3. \A e \in entries' : EntrySound(e)
    BY <1>4 DEF IndexInv
  <2>4. \A e : EntrySound(e)' <=> EntrySound(e)
    BY DEF EntrySound
  <2> QED BY <1>4, <2>1, <2>2, <2>3 DEF IndexInv, TotalKept, EntrySound
<1>5. CASE ~Conflicting(row) /\ IdMatch(row) = {} /\ HrefMatch(row) = {}
  <2>1. CASE \E code \in {"UNSAFE_RELEASE_URL", "RELEASE_IDENTITY_MISSING", "RELEASE_IDENTITY_CONFLICT"} : Stop(code)
    BY <1>3, <2>1
  <2>2. CASE ~\E code \in {"UNSAFE_RELEASE_URL", "RELEASE_IDENTITY_MISSING", "RELEASE_IDENTITY_CONFLICT"} : Stop(code)
    <3> DEFINE n == Aliased(NewEntry(row), row)
    <3>1. entries' = (entries \ {}) \cup {n} /\ added' = TRUE
          /\ UNCHANGED <<shown, step, clicked, strongest, stable, round, totalRead>>
      BY <1>1, <1>5, <2>2
    <3>2. n \in IndexEntry /\ EntrySound(n)
      BY <1>2, NewEntryStep
    <3> HIDE DEF n
    <3> QED BY <1>4, <1>5, <3>1, <3>2
  <2> QED BY <2>1, <2>2
<1>6. CASE ~Conflicting(row) /\ ~(IdMatch(row) = {} /\ HrefMatch(row) = {})
  <2>1. CASE \E code \in {"UNSAFE_RELEASE_URL", "RELEASE_IDENTITY_MISSING", "RELEASE_IDENTITY_CONFLICT"} : Stop(code)
    BY <1>3, <2>1
  <2>2. CASE ~\E code \in {"UNSAFE_RELEASE_URL", "RELEASE_IDENTITY_MISSING", "RELEASE_IDENTITY_CONFLICT"} : Stop(code)
    <3> DEFINE matching == IF IdMatch(row) # {} THEN IdMatch(row) ELSE HrefMatch(row)
               e == CHOOSE k \in matching : TRUE
               n == Aliased(MergeCatalogIndexRow(e, row), row)
    <3>1. entries' = (entries \ {e}) \cup {n} /\ added' = added
          /\ UNCHANGED <<shown, step, clicked, strongest, stable, round, totalRead>>
      BY <1>1, <1>6, <2>2
    <3>2. matching # {} /\ matching \subseteq entries
      BY <1>6 DEF IdMatch, HrefMatch
    <3>3. e \in matching
      BY <3>2
    <3>4. row.id # None => row.id \in e.ids \/ e.ids \subseteq {row.id}
      <4>1. CASE IdMatch(row) # {}
        BY <3>3, <4>1 DEF IdMatch
      <4>2. CASE IdMatch(row) = {}
        BY <1>6, <3>3, <4>2 DEF Conflicting
      <4> QED BY <4>1, <4>2
    <3> HIDE DEF e, matching
    <3>5. n \in IndexEntry /\ EntrySound(n)
      BY <1>2, <3>2, <3>3, <3>4, MergedEntryStep
    <3>6. added' \in BOOLEAN /\ {e} \in SUBSET entries
      BY <3>1, <3>2, <3>3 DEF IndexInv, IndexSane
    <3> HIDE DEF n
    <3> QED BY <1>4, <1>6, <3>1, <3>5, <3>6
  <2> QED BY <2>1, <2>2
<1> QED BY <1>1, <1>3, <1>5, <1>6

LEMMA ReadLoadStateStep == ASSUME IndexInv, ReadLoadState PROVE IndexInv'
<1>1. PICK total \in Totals, quiet \in BOOLEAN :
        /\ strongest' = Strongest(total)
        /\ stable' = 0 \/ (stable' = stable + 1 /\ round > 0)
        /\ totalRead' = (totalRead \/ total = Cardinality(IndexReleases))
        /\ step' \in {"RELEASE_IDENTITY_CONFLICT", "finish", "scroll"}
        /\ step' = "finish" => Strongest(total) = None \/ Cardinality(entries) = Strongest(total)
        /\ UNCHANGED <<shown, entries, added, clicked, round>>
  BY DEF ReadLoadState
<1>2. Strongest(total) \in Totals
  BY DEF Strongest, IndexInv, IndexSane
<1>3. stable' \in Nat /\ stable' <= round'
  <2>1. round \in Nat /\ stable \in Nat /\ stable <= round /\ (round > 0 => stable < round)
    BY IndexAssumption DEF IndexInv, IndexSane, ReadLoadState
  <2> QED BY <1>1, <2>1
<1>4. IndexSane'
  BY <1>1, <1>2, <1>3 DEF IndexInv, IndexSane, IndexSteps, IndexErrorCodes, Totals
<1>5. totalRead' => strongest' = Cardinality(IndexReleases)
  BY <1>1, IndexAssumption, TotalsTyped DEF Strongest, IndexInv, IndexSane, TotalKept
<1> QED BY <1>1, <1>4, <1>5 DEF IndexInv, TotalKept, EntrySound

LEMMA ScrollRoundStep == ASSUME IndexInv, ScrollRound PROVE IndexInv'
<1>1. CASE Stop("RELEASE_LIMIT_REACHED")
  BY <1>1, StopStep DEF IndexErrorCodes
<1>2. CASE ~Stop("RELEASE_LIMIT_REACHED")
  <2>1. /\ clicked' \in BOOLEAN /\ added' = FALSE /\ round' = round + 1 /\ step' = "sample"
        /\ UNCHANGED <<shown, entries, strongest, stable, totalRead>>
    BY <1>2 DEF ScrollRound, ClickAndScroll
  <2>2. round' \in 0 .. MaxScrollRounds /\ stable' <= round' /\ stable' < round' /\ stable' \in Nat
    <3>1. round < MaxScrollRounds /\ MaxScrollRounds \in Nat /\ round \in 0 .. MaxScrollRounds
          /\ stable \in Nat /\ stable <= round
      BY IndexAssumption DEF ScrollRound, IndexInv, IndexSane
    <3> QED BY <2>1, <3>1
  <2>3. IndexSane'
    BY <2>1, <2>2 DEF IndexInv, IndexSane, IndexSteps, Totals
  <2> QED BY <2>1, <2>3 DEF IndexInv, TotalKept, EntrySound
<1> QED BY <1>1, <1>2

LEMMA IndexNextInv == ASSUME IndexInv, [IndexNext]_indexVars PROVE IndexInv'
<1>1. CASE UNCHANGED indexVars
  <2>1. UNCHANGED <<shown, entries, added, clicked, strongest, stable, round, totalRead, step>>
    BY <1>1 DEF indexVars, indexState
  <2> QED BY <2>1 DEF IndexInv, IndexSane, TotalKept, EntrySound, Totals
<1>2. CASE OpenIndex
  BY <1>2, StopStep DEF OpenIndex, IndexSteps, IndexErrorCodes
<1>3. CASE EndSample
  BY <1>3, StopStep DEF EndSample, IndexSteps
<1>4. CASE ScrollRound
  BY <1>4, ScrollRoundStep
<1>5. CASE ExhaustBudget
  BY <1>5, StopStep DEF ExhaustBudget, IndexErrorCodes
<1>6. CASE FinishIndex
  <2>1. PICK code \in {"AUTHENTICATION_EXPIRED", "NO_RECOGNIZABLE_RELEASES", "RELEASE_LIMIT_REACHED",
                       "UNSAFE_RELEASE_URL", "done"} : Stop(code)
    BY <1>6 DEF FinishIndex
  <2>2. step = "finish" /\ code \in IndexSteps \cup IndexErrorCodes
    BY <1>6 DEF FinishIndex, IndexSteps, IndexErrorCodes
  <2> QED BY <2>1, <2>2, StopStep
<1> QED BY <1>1, <1>2, <1>3, <1>4, <1>5, <1>6, MergeRowStep, ReadLoadStateStep DEF IndexNext

LEMMA IndexInvSound == ASSUME IndexInv PROVE IndexTypeOK /\ IndexSound
<1>1. IndexTypeOK
  <2>1. added \in BOOLEAN /\ clicked \in BOOLEAN /\ totalRead \in BOOLEAN
    BY DEF IndexInv, IndexSane
  <2>2. {added, clicked, totalRead} \subseteq BOOLEAN
    BY <2>1, Zenon
  <2>3. \A e \in entries : e.ids \subseteq IndexReleases /\ e.id \in IndexReleases \cup {None}
                          /\ e.count \in 1..2 \cup {None}
    BY DEF IndexInv, IndexSane, IndexEntry, ListCounts
  <2> QED BY <2>2, <2>3 DEF IndexInv, IndexSane, IndexTypeOK, IndexSteps
<1>2. CountsUncontradicted
  BY DEF IndexInv, EntrySound, CountsUncontradicted
<1>3. IndexExact
  <2> SUFFICES ASSUME step = "done", totalRead
               PROVE  Cardinality(entries) = Cardinality(IndexReleases)
                      /\ \A e \in entries : Cardinality(e.ids) <= 1
    BY DEF IndexExact
  <2>1. Cardinality(entries) = Cardinality(IndexReleases)
    BY IndexAssumption, TotalsTyped DEF IndexInv, TotalKept
  <2>2. ASSUME NEW e \in entries PROVE Cardinality(e.ids) <= 1
    <3>1. CASE e.ids = {}
      BY <3>1, FS_EmptySet
    <3>2. CASE \E r \in IndexReleases : e.ids = {r}
      <4>1. PICK r \in IndexReleases : e.ids = {r}
        BY <3>2
      <4>2. Cardinality({r}) = 1
        BY FS_Singleton
      <4> QED BY <4>1, <4>2
    <3> QED BY <3>1, <3>2 DEF IndexInv, EntrySound
  <2> QED BY <2>1, <2>2
<1> QED BY <1>1, <1>2, <1>3 DEF IndexSound

(* Whatever the dashboard shows, hides or renders twice: a list returned     *)
(* after the account's total was read is the catalogue, and no returned      *)
(* count was contradicted.                                                    *)
THEOREM IndexPromises == IndexSpec => [](IndexTypeOK /\ IndexSound)
<1>1. IndexInit => IndexInv
  BY IndexInitInv
<1>2. IndexInv /\ [IndexNext]_indexVars => IndexInv'
  BY IndexNextInv
<1>3. IndexInv => IndexTypeOK /\ IndexSound
  BY IndexInvSound
<1> QED BY <1>1, <1>2, <1>3, PTL DEF IndexSpec

-----------------------------------------------------------------------------
(* The network extractor. *)

MaybeRef == ReadRefs \cup {None}
Responses == [names : MaybeRef, fp : Endpoints, pid : MaybeRef]
Captures == [resp : Responses, kind : {"temporal", "match", "other"}]
Bodies == [tab : ReadTabs, cdp : BOOLEAN, resp : Responses, epoch : Nat, rel : MaybeRef]
EndpointRows == [status : {"CANDIDATE", "VALIDATING", "ACTIVE", "DEGRADED"}, ok : Nat, failed : Nat]
RowPcs == {"okPut", "driftPut", "failPut"}
HitPcs == {"parse", "merge", "okGet", "driftGet", "failGet"} \cup RowPcs
ReaderPcs == {"idle", "navigate", "goto", "wait", "cdpWait", "lower"} \cup HitPcs
Tiers == {"network", "cdp", "uncaptured"}
Readers == [at : ReaderPcs, ref : MaybeRef, epoch : Nat, active : SUBSET Endpoints,
            heuristic : BOOLEAN, hit : Captures \cup {None}, via : Tiers \cup {None},
            row : EndpointRows \cup {None}, merged : SUBSET Captures]
TakenReadings == [via : Tiers, named : SUBSET ReadRefs]

ExtractorSane ==
    /\ reader \in [ReadTabs -> Readers]
    /\ caps \in [ReadTabs -> SUBSET Captures] /\ cdpCaps \in [ReadTabs -> SUBSET Captures]
    /\ bodies \subseteq Bodies /\ responses \in 0 .. MaxBodies
    /\ profile \in [Endpoints -> EndpointRows \cup {None}]
    /\ goodReads \in [Endpoints -> Nat]
    /\ readings \in [ReadRefs -> TakenReadings \cup {None}]
    /\ nextRef \in 1 .. NRefs + 1
    /\ \A t \in ReadTabs : reader[t].epoch < nextRef

\* A response that names no release, or this one.
NamedFor(resp, r) == resp.names \in {None, r}

\* The row of an endpoint claims no more than was reported of it.
EarnedBy(row, f, good) ==
    row.ok <= good[f] /\ (row.status = "ACTIVE" => PromoteAfter <= good[f])

(* What a tab holds is about its release, and the row it has read was earned *)
(* when it was read.                                                          *)
TabOK(d, cs, good) ==
    /\ IF d.at = "idle" THEN d.merged = {} ELSE d.ref \in ReadRefs
    /\ d.at # "idle" => \A c \in cs : c.kind # "other" => NamedFor(c.resp, d.ref)
    /\ d.at \in HitPcs => d.hit \in Captures /\ d.via \in Tiers
    /\ d.at \in HitPcs /\ d.via = "network" => NamedFor(d.hit.resp, d.ref)
    /\ \A c \in d.merged : NamedFor(c.resp, d.ref)
    /\ d.at \in RowPcs /\ d.row # None => EarnedBy(d.row, d.hit.resp.fp, good)
    /\ d.at = "okPut" /\ d.row # None => d.row.ok < good[d.hit.resp.fp]
    /\ d.at \in {"driftPut", "failPut"} => d.row \in EndpointRows /\ EarnedBy(d.row, d.hit.resp.fp, good)

(* A body of the window a tab has open was asked for by the tab's release. *)
BodyOK(b, d) ==
    ~b.cdp => b.epoch <= d.epoch /\ (b.epoch = d.epoch /\ d.at # "idle" => b.rel = d.ref)

RowsEarned == \A f \in Endpoints : profile[f] # None => EarnedBy(profile[f], f, goodReads)
OwnReadings ==
    \A r \in ReadRefs : readings[r] # None /\ readings[r].via = "network" => readings[r].named \subseteq {r}

ExtractorInv ==
    /\ ExtractorSane /\ RowsEarned /\ OwnReadings
    /\ \A t \in ReadTabs : TabOK(reader[t], caps[t], goodReads)
    /\ \A b \in bodies : BodyOK(b, reader[b.tab])

LEMMA ExtractorInitInv == ExtractorInit => ExtractorInv
<1> SUFFICES ASSUME ExtractorInit PROVE ExtractorInv
  OBVIOUS
<1>1. IdleReader \in Readers /\ IdleReader.at = "idle" /\ IdleReader.merged = {} /\ IdleReader.epoch = 0
  BY DEF IdleReader, Readers, ReaderPcs, MaybeRef
<1>2. \A f \in Endpoints : profile[f] # None =>
         /\ profile[f] \in EndpointRows
         /\ profile[f].status = "ACTIVE" => profile[f].ok = PromoteAfter
  BY ExtractorAssumption DEF ExtractorInit, ProfileRow, EndpointRows
<1>3. profile \in [Endpoints -> EndpointRows \cup {None}]
  BY <1>2 DEF ExtractorInit
<1>4. \A f \in Endpoints : profile[f] # None => goodReads[f] = profile[f].ok /\ profile[f].ok \in Nat
  BY <1>2 DEF ExtractorInit, EndpointRows
<1>5. goodReads \in [Endpoints -> Nat]
  BY <1>2 DEF ExtractorInit, EndpointRows
<1>6. RowsEarned
  BY <1>2, <1>4, ExtractorAssumption DEF RowsEarned, EarnedBy
<1>7. ExtractorSane
  <2>1. 0 \in 0 .. MaxBodies /\ 1 \in 1 .. NRefs + 1
    BY ExtractorAssumption
  <2> QED BY <1>1, <1>3, <1>5, <2>1 DEF ExtractorInit, ExtractorSane
<1>8. \A t \in ReadTabs : TabOK(reader[t], caps[t], goodReads)
  BY <1>1 DEF ExtractorInit, TabOK, HitPcs, RowPcs
<1> QED BY <1>6, <1>7, <1>8 DEF ExtractorInit, ExtractorInv, OwnReadings

\* More reports keep what is earned.
LEMMA MoreReports ==
    ASSUME NEW good \in [Endpoints -> Nat], NEW more \in [Endpoints -> Nat],
           \A f \in Endpoints : good[f] <= more[f]
    PROVE  /\ \A row \in EndpointRows, f \in Endpoints : EarnedBy(row, f, good) => EarnedBy(row, f, more)
           /\ \A d \in Readers, cs \in SUBSET Captures : TabOK(d, cs, good) => TabOK(d, cs, more)
<1>1. \A row \in EndpointRows, f \in Endpoints : EarnedBy(row, f, good) => EarnedBy(row, f, more)
  BY ExtractorAssumption DEF EarnedBy, EndpointRows
<1>2. ASSUME NEW d \in Readers, NEW cs \in SUBSET Captures, TabOK(d, cs, good)
      PROVE  TabOK(d, cs, more)
  <2>1. d.row # None => d.row \in EndpointRows
    BY DEF Readers
  <2>2. d.at \in HitPcs => d.hit.resp.fp \in Endpoints
    BY <1>2 DEF TabOK, Captures, Responses
  <2>3. RowPcs \subseteq HitPcs /\ RowPcs = {"okPut", "driftPut", "failPut"}
    BY DEF RowPcs, HitPcs
  <2>4. d.at \in RowPcs /\ d.row # None => EarnedBy(d.row, d.hit.resp.fp, more)
    BY <1>1, <1>2, <2>1, <2>2, <2>3 DEF TabOK
  <2>5. d.at = "okPut" /\ d.row # None => d.row.ok < more[d.hit.resp.fp]
    BY <1>2, <2>1, <2>2, <2>3 DEF TabOK, EndpointRows
  <2>6. d.at \in {"driftPut", "failPut"} => d.row \in EndpointRows /\ EarnedBy(d.row, d.hit.resp.fp, more)
    BY <1>1, <1>2, <2>2, <2>3 DEF TabOK
  <2> QED BY <1>2, <2>4, <2>5, <2>6 DEF TabOK
<1> QED BY <1>1, <1>2

(* A step of one tab: what the others hold stays, and a body of an open      *)
(* window stays with it.                                                     *)
LEMMA ReaderStep ==
    ASSUME ExtractorInv, NEW t \in ReadTabs, NEW new \in Readers, NEW cs \in SUBSET Captures,
           reader' = [reader EXCEPT ![t] = new], caps' = [caps EXCEPT ![t] = cs],
           cdpCaps' \in [ReadTabs -> SUBSET Captures],
           bodies' \subseteq bodies, UNCHANGED responses,
           TabOK(new, cs, goodReads'),
           reader[t].epoch <= new.epoch, new.epoch < nextRef',
           new.at # "idle" /\ new.epoch = reader[t].epoch =>
              reader[t].at # "idle" /\ new.ref = reader[t].ref,
           goodReads' \in [Endpoints -> Nat], \A f \in Endpoints : goodReads[f] <= goodReads'[f],
           profile' \in [Endpoints -> EndpointRows \cup {None}], RowsEarned',
           readings' \in [ReadRefs -> TakenReadings \cup {None}], OwnReadings',
           nextRef' \in 1 .. NRefs + 1, nextRef <= nextRef'
    PROVE  ExtractorInv'
<1>1. reader'[t] = new /\ \A u \in ReadTabs \ {t} : reader'[u] = reader[u]
  BY DEF ExtractorInv, ExtractorSane
<1>2. caps'[t] = cs /\ \A u \in ReadTabs \ {t} : caps'[u] = caps[u]
  BY DEF ExtractorInv, ExtractorSane
<1>3. ExtractorSane'
  <2>1. reader' \in [ReadTabs -> Readers] /\ caps' \in [ReadTabs -> SUBSET Captures]
        /\ bodies' \subseteq Bodies /\ responses' \in 0 .. MaxBodies
    BY DEF ExtractorInv, ExtractorSane
  <2>2. \A u \in ReadTabs : reader'[u].epoch < nextRef'
    <3>1. nextRef \in Nat /\ nextRef' \in Nat /\ \A u \in ReadTabs : reader[u].epoch \in Nat /\ reader[u].epoch < nextRef
      BY ExtractorAssumption DEF ExtractorInv, ExtractorSane, Readers
    <3> QED BY <1>1, <3>1
  <2> QED BY <2>1, <2>2 DEF ExtractorSane
<1>4. \A u \in ReadTabs : TabOK(reader'[u], caps'[u], goodReads')
  <2>1. goodReads \in [Endpoints -> Nat] /\ \A u \in ReadTabs : reader[u] \in Readers /\ caps[u] \in SUBSET Captures
    BY DEF ExtractorInv, ExtractorSane
  <2>2. \A u \in ReadTabs : TabOK(reader[u], caps[u], goodReads)
    BY DEF ExtractorInv
  <2>3. \A u \in ReadTabs : TabOK(reader[u], caps[u], goodReads')
    BY <2>1, <2>2, MoreReports
  <2> QED BY <1>1, <1>2, <2>3
<1>5. \A b \in bodies' : BodyOK(b, reader'[b.tab])
  <2> SUFFICES ASSUME NEW b \in bodies PROVE BodyOK(b, reader'[b.tab])
    OBVIOUS
  <2>1. b \in Bodies /\ BodyOK(b, reader[b.tab])
    BY DEF ExtractorInv, ExtractorSane
  <2>2. b.tab \in ReadTabs /\ b.epoch \in Nat /\ reader[t].epoch \in Nat /\ new.epoch \in Nat
    BY <2>1 DEF Bodies, Readers, ExtractorInv, ExtractorSane
  <2>3. CASE b.tab = t
    BY <1>1, <2>1, <2>2, <2>3 DEF BodyOK
  <2>4. CASE b.tab # t
    BY <1>1, <2>1, <2>2, <2>4
  <2> QED BY <2>3, <2>4
<1>6. \A u \in ReadTabs : TabOK(reader[u], caps[u], goodReads)'
  BY <1>4 DEF TabOK, NamedFor, EarnedBy
<1>7. \A b \in bodies' : BodyOK(b, reader[b.tab])'
  BY <1>5 DEF BodyOK
<1> QED BY <1>3, <1>6, <1>7 DEF ExtractorInv

\* A tab moves on with its release; nothing else changes.
LEMMA QuietReaderStep ==
    ASSUME ExtractorInv, NEW t \in ReadTabs, NEW new \in Readers,
           reader' = [reader EXCEPT ![t] = new],
           UNCHANGED <<caps, cdpCaps, bodies, responses, profile, goodReads, readings, nextRef>>,
           reader[t].at # "idle", new.ref = reader[t].ref, new.epoch = reader[t].epoch,
           TabOK(new, caps[t], goodReads)
    PROVE  ExtractorInv'
<1>1. /\ caps' = [caps EXCEPT ![t] = caps[t]] /\ caps[t] \in SUBSET Captures
      /\ cdpCaps' \in [ReadTabs -> SUBSET Captures]
      /\ goodReads' = goodReads /\ goodReads \in [Endpoints -> Nat]
      /\ profile' \in [Endpoints -> EndpointRows \cup {None}]
      /\ readings' \in [ReadRefs -> TakenReadings \cup {None}]
      /\ reader[t].epoch \in Nat /\ reader[t].epoch < nextRef
      /\ nextRef \in 1 .. NRefs + 1 /\ nextRef' = nextRef
  BY DEF ExtractorInv, ExtractorSane, Readers
<1>2. RowsEarned' /\ OwnReadings'
  BY DEF ExtractorInv, RowsEarned, OwnReadings, EarnedBy
<1>3. \A f \in Endpoints : goodReads[f] <= goodReads'[f]
  BY <1>1
<1>4. /\ nextRef' \in 1 .. NRefs + 1 /\ nextRef <= nextRef'
      /\ reader[t].epoch <= new.epoch /\ new.epoch < nextRef'
  BY <1>1, ExtractorAssumption
<1>5. TabOK(new, caps[t], goodReads') /\ bodies' \subseteq bodies /\ UNCHANGED responses
  BY <1>1
<1> QED BY <1>1, <1>2, <1>3, <1>4, <1>5, ReaderStep

LEMMA ScoreCounts ==
    ASSUME NEW c, NEW d, ScoreAgainstPolicy(c, d) > 0
    PROVE  c.kind # "other"
BY DEF ScoreAgainstPolicy

LEMMA CorrelatedKind ==
    ASSUME NEW resp \in Responses, NEW r, CorrelateRequest(resp, r) # "other"
    PROVE  NamedFor(resp, r)
BY DEF CorrelateRequest, NamedFor

LEMMA CaptureTyped ==
    ASSUME NEW resp \in Responses, NEW r
    PROVE  [resp |-> resp, kind |-> CorrelateRequest(resp, r)] \in Captures
BY DEF CorrelateRequest, Captures

\* A capture becomes the hit of the tab.
LEMMA HitStep ==
    ASSUME ExtractorInv, NEW t \in ReadTabs, NEW c \in Captures, NEW tier \in {"network", "cdp"},
           reader[t].at # "idle", tier = "network" => NamedFor(c.resp, reader[t].ref),
           NEW cs \in SUBSET Captures,
           \A x \in cs : x.kind # "other" => NamedFor(x.resp, reader[t].ref)
    PROVE  LET new == Hit(t, c, tier)
           IN  /\ new \in Readers /\ new.ref = reader[t].ref /\ new.epoch = reader[t].epoch
               /\ new.at = "parse" /\ TabOK(new, cs, goodReads)
<1> DEFINE new == Hit(t, c, tier)
<1>1. reader[t] \in Readers /\ TabOK(reader[t], caps[t], goodReads)
  BY DEF ExtractorInv, ExtractorSane
<1>2. new \in Readers /\ new.ref = reader[t].ref /\ new.epoch = reader[t].epoch
      /\ new.at = "parse" /\ new.hit = c /\ new.via = tier /\ new.merged = reader[t].merged
  BY <1>1 DEF Hit, Readers, ReaderPcs, HitPcs, Tiers
<1> HIDE DEF new
<1>3. TabOK(new, cs, goodReads)
  BY <1>1, <1>2 DEF TabOK, RowPcs, Tiers
<1> QED BY <1>2, <1>3 DEF new

\* The tab moves to another point without a new hit.
LEMMA MoveReader ==
    ASSUME ExtractorInv, NEW t \in ReadTabs, NEW new \in Readers,
           reader[t].at # "idle", new.at \in ReaderPcs \ (RowPcs \cup {"idle"}),
           new.ref = reader[t].ref,
           new.at \in HitPcs =>
              reader[t].at \in HitPcs /\ new.hit = reader[t].hit /\ new.via = reader[t].via,
           \A c \in new.merged : NamedFor(c.resp, new.ref)
    PROVE  TabOK(new, caps[t], goodReads)
<1>1. TabOK(reader[t], caps[t], goodReads)
  BY DEF ExtractorInv
<1> QED BY <1>1 DEF TabOK, RowPcs

LEMMA ResponseArrivesStep == ASSUME ExtractorInv, ResponseArrives PROVE ExtractorInv'
<1>1. Cardinality(Listening) \in Nat
  BY ExtractorAssumption, FS_Subset, FS_CardinalityType DEF Listening
<1>2. PICK resp \in Responses, page \in Listening, heard \in BOOLEAN :
       /\ responses' = responses + Cardinality(Listening) + (IF heard THEN 1 ELSE 0)
       /\ bodies' = bodies \cup BodiesOf(resp, page, heard)
  BY DEF ResponseArrives, Responses, MaybeRef
<1>3. responses' <= MaxBodies
  BY DEF ResponseArrives
<1>4. UNCHANGED <<reader, caps, cdpCaps, profile, goodReads, readings, nextRef>>
  BY DEF ResponseArrives
<1>5. \A t \in Listening : t \in ReadTabs /\ reader[t].epoch \in Nat /\ reader[t].ref \in MaybeRef
  BY DEF Listening, ExtractorInv, ExtractorSane, Readers
<1>6. \A b \in BodiesOf(resp, page, heard) : b \in Bodies /\ BodyOK(b, reader[b.tab])
  <2>1. ASSUME NEW t \in Listening
        PROVE  LET b == [tab |-> t, cdp |-> FALSE, resp |-> resp, epoch |-> reader[t].epoch,
                         rel |-> reader[t].ref] IN b \in Bodies /\ BodyOK(b, reader[b.tab])
    BY <1>5 DEF Bodies, BodyOK
  <2>2. LET b == [tab |-> page, cdp |-> TRUE, resp |-> resp, epoch |-> 0, rel |-> None]
        IN  b \in Bodies /\ BodyOK(b, reader[b.tab])
    BY <1>5 DEF Bodies, BodyOK, MaybeRef
  <2> QED BY <2>1, <2>2 DEF BodiesOf
<1>7. \A b \in bodies' : b \in bodies \/ (b \in Bodies /\ BodyOK(b, reader[b.tab]))
  BY <1>2, <1>6
<1>8. responses' \in 0 .. MaxBodies
  BY <1>1, <1>2, <1>3, ExtractorAssumption DEF ExtractorInv, ExtractorSane
<1>9. ExtractorSane'
  BY <1>4, <1>7, <1>8 DEF ExtractorInv, ExtractorSane
<1> QED BY <1>4, <1>7, <1>9 DEF ExtractorInv, RowsEarned, OwnReadings, EarnedBy, TabOK, NamedFor, BodyOK

\* What stays as it is may serve as the rest of a step.
LEMMA RestKept ==
    ASSUME ExtractorInv
    PROVE  /\ cdpCaps \in [ReadTabs -> SUBSET Captures] /\ caps \in [ReadTabs -> SUBSET Captures]
           /\ goodReads \in [Endpoints -> Nat] /\ \A f \in Endpoints : goodReads[f] <= goodReads[f]
           /\ profile \in [Endpoints -> EndpointRows \cup {None}]
           /\ readings \in [ReadRefs -> TakenReadings \cup {None}]
           /\ nextRef \in 1 .. NRefs + 1 /\ nextRef <= nextRef /\ nextRef \in Nat
           /\ \A t \in ReadTabs : /\ reader[t] \in Readers /\ reader[t].epoch \in Nat
                                  /\ reader[t].epoch <= reader[t].epoch /\ reader[t].epoch < nextRef
BY ExtractorAssumption DEF ExtractorInv, ExtractorSane, Readers

LEMMA SameRows ==
    ASSUME ExtractorInv, UNCHANGED <<profile, goodReads>>
    PROVE  RowsEarned'
BY DEF ExtractorInv, RowsEarned, EarnedBy

LEMMA SameReadings ==
    ASSUME ExtractorInv, UNCHANGED readings
    PROVE  OwnReadings'
BY DEF ExtractorInv, OwnReadings

\* A tab hears a response, or takes it for its hit.
LEMMA HeardStep ==
    ASSUME ExtractorInv, NEW t \in ReadTabs, NEW new \in Readers, NEW cs \in SUBSET Captures,
           reader' = [reader EXCEPT ![t] = new], caps' = [caps EXCEPT ![t] = cs],
           cdpCaps' \in [ReadTabs -> SUBSET Captures], bodies' \subseteq bodies,
           UNCHANGED <<responses, profile, goodReads, readings, nextRef>>,
           new.epoch = reader[t].epoch,
           new.at # "idle" => reader[t].at # "idle" /\ new.ref = reader[t].ref,
           TabOK(new, cs, goodReads)
    PROVE  ExtractorInv'
<1>1. RowsEarned' /\ OwnReadings'
  BY SameRows, SameReadings
<1>2. goodReads' = goodReads /\ profile' = profile /\ readings' = readings /\ nextRef' = nextRef
  OBVIOUS
<1>3. reader[t].epoch <= new.epoch /\ new.epoch < nextRef' /\ nextRef' \in 1 .. NRefs + 1 /\ nextRef <= nextRef'
  BY <1>2, RestKept
<1>4. /\ goodReads' \in [Endpoints -> Nat] /\ \A f \in Endpoints : goodReads[f] <= goodReads'[f]
      /\ profile' \in [Endpoints -> EndpointRows \cup {None}]
      /\ readings' \in [ReadRefs -> TakenReadings \cup {None}]
  BY <1>2, RestKept
<1>5. TabOK(new, cs, goodReads')
  BY <1>2
<1> QED BY <1>1, <1>3, <1>4, <1>5, ReaderStep

LEMMA DiscoveryBodyStep == ASSUME ExtractorInv, DiscoveryBody PROVE ExtractorInv'
<1>1. PICK b \in bodies :
       LET t == b.tab
           c == [resp |-> b.resp, kind |-> CorrelateRequest(b.resp, b.rel)]
       IN  /\ ~b.cdp /\ SameWindow(b)
           /\ bodies' = bodies \ {b}
           /\ caps' = [caps EXCEPT ![t] = @ \cup {c}]
           /\ IF reader[t].at = "wait" /\ ScoreAgainstPolicy(c, reader[t]) > 0
              THEN Reads(t, Hit(t, c, "network"))
              ELSE UNCHANGED reader
  BY DEF DiscoveryBody
<1> DEFINE t == b.tab
           c == [resp |-> b.resp, kind |-> CorrelateRequest(b.resp, b.rel)]
           cs == caps[t] \cup {c}
<1>2. b \in Bodies /\ BodyOK(b, reader[t]) /\ t \in ReadTabs /\ b.resp \in Responses
  BY DEF ExtractorInv, ExtractorSane, Bodies
<1>3. /\ reader[t].at # "idle" => b.rel = reader[t].ref
      /\ bodies' \subseteq bodies /\ caps' = [caps EXCEPT ![t] = cs]
      /\ UNCHANGED <<cdpCaps, responses, profile, goodReads, readings, nextRef>>
  BY <1>1, <1>2 DEF SameWindow, BodyOK, DiscoveryBody
<1>4. c \in Captures
  BY <1>2, CaptureTyped
<1>5. reader[t].at # "idle" /\ c.kind # "other" => NamedFor(c.resp, reader[t].ref)
  BY <1>2, <1>3, CorrelatedKind
<1>6. reader[t].at = "wait" /\ ScoreAgainstPolicy(c, reader[t]) > 0 => c.kind # "other"
  BY ScoreCounts
<1>7. \/ reader' = [reader EXCEPT ![t] = Hit(t, c, "network")]
         /\ reader[t].at = "wait" /\ c.kind # "other"
      \/ reader' = reader
  BY <1>1, <1>6 DEF Reads
<1> HIDE DEF t, c
<1>8. cs \in SUBSET Captures /\ TabOK(reader[t], caps[t], goodReads) /\ reader[t] \in Readers
      /\ cdpCaps \in [ReadTabs -> SUBSET Captures] /\ reader = [reader EXCEPT ![t] = reader[t]]
  BY <1>2, <1>4 DEF ExtractorInv, ExtractorSane
<1>9. reader[t].at # "idle" => \A x \in cs : x.kind # "other" => NamedFor(x.resp, reader[t].ref)
  BY <1>5, <1>8 DEF TabOK
<1>10. CASE reader' = reader
  <2>1. TabOK(reader[t], cs, goodReads)
    BY <1>8, <1>9 DEF TabOK
  <2> HIDE DEF cs
  <2>2. reader' = [reader EXCEPT ![t] = reader[t]]
    BY <1>8, <1>10
  <2>3. cdpCaps' \in [ReadTabs -> SUBSET Captures]
    BY <1>3, <1>8
  <2> QED BY <1>2, <1>3, <1>8, <2>1, <2>2, <2>3, HeardStep
<1>11. CASE /\ reader' = [reader EXCEPT ![t] = Hit(t, c, "network")]
            /\ reader[t].at = "wait" /\ c.kind # "other"
  <2> DEFINE new == Hit(t, c, "network")
  <2>1. reader[t].at # "idle" /\ NamedFor(c.resp, reader[t].ref)
    BY <1>5, <1>11
  <2>2. \A x \in cs : x.kind # "other" => NamedFor(x.resp, reader[t].ref)
    BY <1>9, <2>1
  <2> HIDE DEF cs
  <2>3. new \in Readers /\ new.ref = reader[t].ref /\ new.epoch = reader[t].epoch /\ TabOK(new, cs, goodReads)
    BY <1>2, <1>4, <1>8, <2>1, <2>2, HitStep
  <2>4. reader' = [reader EXCEPT ![t] = new]
    BY <1>11
  <2>5. cdpCaps' \in [ReadTabs -> SUBSET Captures]
    BY <1>3, <1>8
  <2> HIDE DEF new
  <2> QED BY <1>2, <1>3, <1>8, <2>1, <2>3, <2>4, <2>5, HeardStep
<1> QED BY <1>7, <1>10, <1>11

LEMMA CdpBodyStep == ASSUME ExtractorInv, CdpBody PROVE ExtractorInv'
<1>1. PICK b \in bodies :
       /\ bodies' = bodies \ {b}
       /\ LET t == b.tab
              c == [resp |-> b.resp, kind |-> CorrelateRequest(b.resp, reader[t].ref)]
          IN  /\ cdpCaps' = [cdpCaps EXCEPT ![t] = @ \cup {c}]
              /\ IF reader[t].at = "cdpWait"
                 THEN Reads(t, Hit(t, c, "cdp"))
                 ELSE UNCHANGED reader
  BY DEF CdpBody
<1> DEFINE t == b.tab
           c == [resp |-> b.resp, kind |-> CorrelateRequest(b.resp, reader[t].ref)]
           cs == caps[t]
<1>2. b \in Bodies /\ t \in ReadTabs /\ b.resp \in Responses
  BY DEF ExtractorInv, ExtractorSane, Bodies
<1>3. c \in Captures
  BY <1>2, CaptureTyped
<1>4. /\ UNCHANGED <<caps, responses, profile, goodReads, readings, nextRef>> /\ bodies' \subseteq bodies
      /\ cdpCaps' = [cdpCaps EXCEPT ![t] = cdpCaps[t] \cup {c}]
  BY <1>1 DEF CdpBody
<1>5. \/ reader' = [reader EXCEPT ![t] = Hit(t, c, "cdp")]
         /\ reader[t].at = "cdpWait"
      \/ reader' = reader
  BY <1>1 DEF Reads
<1> HIDE DEF t, c
<1>6. /\ cs \in SUBSET Captures /\ TabOK(reader[t], cs, goodReads) /\ reader[t] \in Readers
      /\ reader = [reader EXCEPT ![t] = reader[t]] /\ caps' = [caps EXCEPT ![t] = cs]
      /\ cdpCaps' \in [ReadTabs -> SUBSET Captures]
  BY <1>2, <1>3, <1>4 DEF ExtractorInv, ExtractorSane
<1> HIDE DEF cs
<1>7. CASE reader' = reader
  <2>1. reader' = [reader EXCEPT ![t] = reader[t]]
    BY <1>6, <1>7
  <2> QED BY <1>2, <1>4, <1>6, <2>1, HeardStep
<1>8. CASE reader' = [reader EXCEPT ![t] = Hit(t, c, "cdp")]
           /\ reader[t].at = "cdpWait"
  <2> DEFINE new == Hit(t, c, "cdp")
  <2>1. \A x \in cs : x.kind # "other" => NamedFor(x.resp, reader[t].ref)
    BY <1>6, <1>8 DEF TabOK
  <2>2. new \in Readers /\ new.ref = reader[t].ref /\ new.epoch = reader[t].epoch /\ TabOK(new, cs, goodReads)
    BY <1>2, <1>3, <1>6, <1>8, <2>1, HitStep
  <2>3. reader' = [reader EXCEPT ![t] = new]
    BY <1>8
  <2> HIDE DEF new
  <2> QED BY <1>2, <1>4, <1>6, <1>8, <2>2, <2>3, HeardStep
<1> QED BY <1>5, <1>7, <1>8

LEMMA StartReleaseStep ==
    ASSUME ExtractorInv, NEW t \in ReadTabs, StartRelease(t)
    PROVE  ExtractorInv'
<1> DEFINE e == reader[t].epoch + 1
           new == [reader[t] EXCEPT !.at = "navigate", !.ref = nextRef, !.epoch = e]
<1>1. /\ reader' = [reader EXCEPT ![t] = new] /\ caps' = [caps EXCEPT ![t] = {}]
      /\ cdpCaps' = [cdpCaps EXCEPT ![t] = {}] /\ nextRef' = nextRef + 1 /\ reader[t].at = "idle"
      /\ nextRef \in ReadRefs
      /\ UNCHANGED <<bodies, responses, profile, goodReads, readings>>
  BY DEF StartRelease, Reads
<1>2. reader[t] \in Readers /\ reader[t].epoch \in Nat /\ reader[t].epoch < nextRef /\ nextRef \in Nat
  BY RestKept
<1>9. e \in Nat /\ nextRef \in MaybeRef
  BY <1>1, <1>2 DEF MaybeRef
<1> HIDE DEF e
<1>3. /\ new \in Readers /\ new.at = "navigate" /\ new.epoch = e /\ new.ref = nextRef
      /\ new.merged = reader[t].merged
  BY <1>2, <1>9 DEF Readers, ReaderPcs
<1> HIDE DEF new
<1>4. reader[t].merged = {}
  BY <1>1 DEF ExtractorInv, TabOK
<1>5. TabOK(new, {}, goodReads')
  BY <1>1, <1>3, <1>4 DEF TabOK, HitPcs, RowPcs
<1>6. /\ nextRef' \in 1 .. NRefs + 1 /\ nextRef <= nextRef'
      /\ reader[t].epoch <= new.epoch /\ new.epoch < nextRef' /\ new.epoch # reader[t].epoch
  BY <1>1, <1>2, <1>3, ExtractorAssumption DEF ReadRefs, e
<1>7. cdpCaps' \in [ReadTabs -> SUBSET Captures] /\ {} \in SUBSET Captures
  BY <1>1, RestKept
<1>8. RowsEarned' /\ OwnReadings'
  BY <1>1, SameRows, SameReadings
<1> QED BY <1>1, <1>3, <1>5, <1>6, <1>7, <1>8, RestKept, ReaderStep

\* A tab moves on without a new hit.
LEMMA MovedStep ==
    ASSUME ExtractorInv, NEW t \in ReadTabs, NEW new \in Readers,
           reader' = [reader EXCEPT ![t] = new],
           UNCHANGED <<caps, cdpCaps, bodies, responses, profile, goodReads, readings, nextRef>>,
           reader[t].at # "idle", new.at \in ReaderPcs \ (RowPcs \cup {"idle"}),
           new.ref = reader[t].ref, new.epoch = reader[t].epoch,
           new.at \in HitPcs =>
              reader[t].at \in HitPcs /\ new.hit = reader[t].hit /\ new.via = reader[t].via,
           new.merged = reader[t].merged \/ \A c \in new.merged : NamedFor(c.resp, new.ref)
    PROVE  ExtractorInv'
<1>1. \A c \in new.merged : NamedFor(c.resp, new.ref)
  BY DEF ExtractorInv, TabOK
<1>2. TabOK(new, caps[t], goodReads)
  BY <1>1, MoveReader
<1> QED BY <1>2, QuietReaderStep

LEMMA WaitingSteps ==
    ASSUME ExtractorInv, NEW t \in ReadTabs, ReleaseMatchPolicy(t) \/ ParseHit(t) \/ MergeCaptures(t)
    PROVE  ExtractorInv'
<1>1. reader[t] \in Readers
  BY RestKept
<1>2. UNCHANGED <<caps, cdpCaps, bodies, responses, profile, goodReads, readings, nextRef>>
  BY DEF ReleaseMatchPolicy, ParseHit, MergeCaptures
<1>3. CASE ReleaseMatchPolicy(t)
  <2>0. PICK listed \in {Endpoints, {}} :
           LET active == {f \in listed : StatusOfProfile(f) = "ACTIVE"}
           IN  reader' = [reader EXCEPT ![t] =
                 [reader[t] EXCEPT !.at = "goto", !.active = active,
                    !.heuristic = (active = {} \/ \E f \in listed : StatusOfProfile(f) = "DEGRADED")]]
    BY <1>3 DEF ReleaseMatchPolicy, Reads
  <2> DEFINE active == {f \in listed : StatusOfProfile(f) = "ACTIVE"}
             heuristic == (active = {} \/ \E f \in listed : StatusOfProfile(f) = "DEGRADED")
             new == [reader[t] EXCEPT !.at = "goto", !.active = active, !.heuristic = heuristic]
  <2>1. reader' = [reader EXCEPT ![t] = new] /\ reader[t].at = "navigate"
    BY <1>3, <2>0 DEF ReleaseMatchPolicy
  <2>2. active \in SUBSET Endpoints /\ heuristic \in BOOLEAN
    OBVIOUS
  <2> HIDE DEF active, heuristic
  <2>3. /\ new \in Readers /\ new.at = "goto" /\ new.ref = reader[t].ref /\ new.epoch = reader[t].epoch
        /\ new.hit = reader[t].hit /\ new.via = reader[t].via /\ new.merged = reader[t].merged
    BY <1>1, <2>2 DEF Readers, ReaderPcs
  <2> HIDE DEF new
  <2>4. new.at \in ReaderPcs \ (RowPcs \cup {"idle"}) /\ new.at \notin HitPcs
    BY <2>3 DEF ReaderPcs, RowPcs, HitPcs
  <2> QED BY <1>2, <2>1, <2>3, <2>4, MovedStep
<1>4. CASE ParseHit(t)
  <2>1. PICK pc \in {"merge", "driftGet"} : reader' = [reader EXCEPT ![t] = [reader[t] EXCEPT !.at = pc]]
    BY <1>4 DEF ParseHit, Reads
  <2> DEFINE new == [reader[t] EXCEPT !.at = pc]
  <2>2. reader[t].at = "parse" /\ reader[t].at \in HitPcs
    BY <1>4 DEF ParseHit, HitPcs
  <2>3. /\ new \in Readers /\ new.at = pc /\ new.ref = reader[t].ref /\ new.epoch = reader[t].epoch
        /\ new.hit = reader[t].hit /\ new.via = reader[t].via /\ new.merged = reader[t].merged
    BY <1>1 DEF Readers, ReaderPcs, HitPcs
  <2>4. reader' = [reader EXCEPT ![t] = new]
    BY <2>1
  <2> HIDE DEF new
  <2>5. new.at \in ReaderPcs \ (RowPcs \cup {"idle"})
    BY <2>3 DEF ReaderPcs, RowPcs, HitPcs
  <2> QED BY <1>2, <2>2, <2>3, <2>4, <2>5, MovedStep
<1>5. CASE MergeCaptures(t)
  <2> DEFINE m == MergedCaptures(t)
             new == [reader[t] EXCEPT !.at = "okGet", !.merged = m]
  <2>1. reader' = [reader EXCEPT ![t] = new] /\ reader[t].at = "merge"
    BY <1>5 DEF MergeCaptures, Reads
  <2>2. reader[t].at \in HitPcs /\ reader[t].at # "idle"
    BY <2>1 DEF HitPcs
  <2>3. m \in SUBSET Captures
    BY RestKept DEF MergedCaptures
  <2>4. \A c \in m : NamedFor(c.resp, reader[t].ref)
    BY <2>2 DEF MergedCaptures, ExtractorInv, TabOK
  <2> HIDE DEF m
  <2>5. /\ new \in Readers /\ new.at = "okGet" /\ new.ref = reader[t].ref /\ new.epoch = reader[t].epoch
        /\ new.hit = reader[t].hit /\ new.via = reader[t].via /\ new.merged = m
    BY <1>1, <2>3 DEF Readers, ReaderPcs, HitPcs
  <2> HIDE DEF new
  <2>6. new.at \in ReaderPcs \ (RowPcs \cup {"idle"})
    BY <2>5 DEF ReaderPcs, RowPcs, HitPcs
  <2> QED BY <1>2, <2>1, <2>2, <2>4, <2>5, <2>6, MovedStep
<1> QED BY <1>3, <1>4, <1>5

\* A terminal outcome of a release, from what the tab holds for it.
LEMMA ReadOutcomeStep ==
    ASSUME ExtractorInv, NEW t \in ReadTabs, NEW via \in Tiers, NEW used \in SUBSET Captures,
           ReadOutcome(t, via, used), reader[t].at # "idle",
           via = "network" => \A c \in used : NamedFor(c.resp, reader[t].ref),
           UNCHANGED <<bodies, responses, goodReads, nextRef>>,
           profile' \in [Endpoints -> EndpointRows \cup {None}], RowsEarned'
    PROVE  ExtractorInv'
<1> DEFINE new == [IdleReader EXCEPT !.epoch = reader[t].epoch]
           named == {c.resp.names : c \in used} \ {None}
           ref == reader[t].ref
<1>1. reader[t] \in Readers /\ reader[t].epoch \in Nat /\ ref \in ReadRefs
  BY RestKept DEF ExtractorInv, TabOK
<1>2. /\ reader' = [reader EXCEPT ![t] = new] /\ caps' = [caps EXCEPT ![t] = {}]
      /\ cdpCaps' = [cdpCaps EXCEPT ![t] = {}]
      /\ readings' = [readings EXCEPT ![ref] = [via |-> via, named |-> named]]
  BY DEF ReadOutcome
<1>3. new \in Readers /\ new.at = "idle" /\ new.merged = {} /\ new.epoch = reader[t].epoch
  BY <1>1 DEF IdleReader, Readers, ReaderPcs, MaybeRef
<1> HIDE DEF new
<1>4. named \in SUBSET ReadRefs
  BY DEF Captures, Responses, MaybeRef
<1>5. via = "network" => named \subseteq {ref}
  BY DEF NamedFor
<1> HIDE DEF named, ref
<1>6. readings' \in [ReadRefs -> TakenReadings \cup {None}] /\ OwnReadings'
  <2>1. [via |-> via, named |-> named] \in TakenReadings
    BY <1>4 DEF TakenReadings
  <2>2. readings' \in [ReadRefs -> TakenReadings \cup {None}]
    BY <1>1, <1>2, <2>1, RestKept
  <2>3. \A r \in ReadRefs : readings'[r] = IF r = ref THEN [via |-> via, named |-> named] ELSE readings[r]
    BY <1>2, RestKept
  <2> QED BY <1>5, <2>2, <2>3 DEF OwnReadings, ExtractorInv
<1>7. TabOK(new, {}, goodReads')
  BY <1>3 DEF TabOK, HitPcs, RowPcs
<1>8. cdpCaps' \in [ReadTabs -> SUBSET Captures] /\ {} \in SUBSET Captures
  BY <1>2, RestKept
<1>9. nextRef' = nextRef /\ goodReads' = goodReads /\ bodies' \subseteq bodies
  OBVIOUS
<1>10. reader[t].epoch <= new.epoch /\ new.epoch < nextRef' /\ nextRef' \in 1 .. NRefs + 1 /\ nextRef <= nextRef'
  BY <1>3, <1>9, RestKept
<1>11. goodReads' \in [Endpoints -> Nat] /\ \A f \in Endpoints : goodReads[f] <= goodReads'[f]
  BY <1>9, RestKept
<1> QED BY <1>2, <1>3, <1>6, <1>7, <1>8, <1>9, <1>10, <1>11, ReaderStep

LEMMA FinishStep ==
    ASSUME ExtractorInv, NEW t \in ReadTabs, Finish(t), reader[t].at # "idle"
    PROVE  ExtractorInv'
<1>1. /\ ReadOutcome(t, "uncaptured", {}) /\ "uncaptured" \in Tiers
      /\ UNCHANGED <<bodies, responses, profile, goodReads, nextRef>>
  BY DEF Finish, Tiers
<1>2. profile' \in [Endpoints -> EndpointRows \cup {None}] /\ RowsEarned'
  BY <1>1, RestKept, SameRows
<1>3. {} \in SUBSET Captures /\ \A c \in {} : NamedFor(c.resp, reader[t].ref)
  OBVIOUS
<1> QED BY <1>1, <1>2, <1>3, ReadOutcomeStep

LEMMA NavigationSteps ==
    ASSUME ExtractorInv, NEW t \in ReadTabs, MoveTab(t) \/ MatchTimeout(t) \/ LowerTiers(t)
    PROVE  ExtractorInv'
<1>1. reader[t] \in Readers /\ caps[t] \in SUBSET Captures /\ cdpCaps[t] \in SUBSET Captures
  BY RestKept
<1>2. reader[t].at # "idle" /\ reader[t].at \notin HitPcs
  BY DEF MoveTab, MatchTimeout, LowerTiers, HitPcs, RowPcs
<1>3. ASSUME Finish(t) PROVE ExtractorInv'
  BY <1>2, <1>3, FinishStep
<1>4. ASSUME NEW pc \in {"wait", "cdpWait"}, Reads(t, [reader[t] EXCEPT !.at = pc]),
             UNCHANGED <<caps, cdpCaps, bodies, responses, profile, goodReads, readings, nextRef>>
      PROVE  ExtractorInv'
  <2> DEFINE new == [reader[t] EXCEPT !.at = pc]
  <2>1. reader' = [reader EXCEPT ![t] = new]
    BY <1>4 DEF Reads
  <2>2. /\ new \in Readers /\ new.at = pc /\ new.ref = reader[t].ref /\ new.epoch = reader[t].epoch
        /\ new.hit = reader[t].hit /\ new.via = reader[t].via /\ new.merged = reader[t].merged
    BY <1>1 DEF Readers, ReaderPcs
  <2> HIDE DEF new
  <2>3. new.at \in ReaderPcs \ (RowPcs \cup {"idle"}) /\ new.at \notin HitPcs
    BY <2>2 DEF ReaderPcs, RowPcs, HitPcs
  <2> QED BY <1>2, <1>4, <2>1, <2>2, <2>3, MovedStep
<1>5. ASSUME NEW c \in Captures, NEW tier \in {"network", "cdp"},
             tier = "network" => NamedFor(c.resp, reader[t].ref),
             Reads(t, Hit(t, c, tier)),
             UNCHANGED <<caps, cdpCaps, bodies, responses, profile, goodReads, readings, nextRef>>
      PROVE  ExtractorInv'
  <2> DEFINE new == Hit(t, c, tier)
  <2>1. reader' = [reader EXCEPT ![t] = new]
    BY <1>5 DEF Reads
  <2>2. \A x \in caps[t] : x.kind # "other" => NamedFor(x.resp, reader[t].ref)
    BY <1>2 DEF ExtractorInv, TabOK
  <2>3. /\ new \in Readers /\ new.ref = reader[t].ref /\ new.epoch = reader[t].epoch
        /\ TabOK(new, caps[t], goodReads)
    BY <1>1, <1>2, <1>5, <2>2, HitStep
  <2> HIDE DEF new
  <2> QED BY <1>2, <1>5, <2>1, <2>3, QuietReaderStep
<1>6. CASE MoveTab(t) /\ ~Finish(t)
  <2>1. UNCHANGED <<caps, cdpCaps, bodies, responses, profile, goodReads, readings, nextRef>>
    BY <1>6 DEF MoveTab
  <2>2. CASE BestMatches(t) = {}
    BY <1>4, <1>6, <2>1, <2>2 DEF MoveTab
  <2>3. CASE BestMatches(t) # {}
    <3>1. PICK c \in BestMatches(t) : Reads(t, Hit(t, c, "network"))
      BY <1>6, <2>3 DEF MoveTab
    <3>2. c \in caps[t] /\ ScoreAgainstPolicy(c, reader[t]) > 0
      BY DEF BestMatches
    <3>3. c.kind # "other"
      BY <3>2, ScoreCounts
    <3>4. NamedFor(c.resp, reader[t].ref) /\ c \in Captures
      BY <1>1, <1>2, <3>2, <3>3 DEF ExtractorInv, TabOK
    <3> QED BY <1>5, <2>1, <3>1, <3>4
  <2> QED BY <2>2, <2>3
<1>7. CASE MatchTimeout(t)
  <2>1. UNCHANGED <<caps, cdpCaps, bodies, responses, profile, goodReads, readings, nextRef>>
    BY <1>7 DEF MatchTimeout
  <2>2. CASE cdpCaps[t] = {}
    BY <1>4, <1>7, <2>1, <2>2 DEF MatchTimeout
  <2>3. CASE cdpCaps[t] # {}
    <3>1. PICK c \in cdpCaps[t] : Reads(t, Hit(t, c, "cdp"))
      BY <1>7, <2>3 DEF MatchTimeout
    <3> QED BY <1>1, <1>5, <2>1, <3>1
  <2> QED BY <2>2, <2>3
<1>8. CASE LowerTiers(t)
  BY <1>3, <1>8 DEF LowerTiers
<1> QED BY <1>3, <1>6, <1>7, <1>8

LEMMA GetForSuccessStep ==
    ASSUME ExtractorInv, NEW t \in ReadTabs, GetForSuccess(t)
    PROVE  ExtractorInv'
<1> DEFINE f == reader[t].hit.resp.fp
           row == profile[f]
           new == [reader[t] EXCEPT !.at = "okPut", !.row = row]
<1>1. /\ reader' = [reader EXCEPT ![t] = new] /\ reader[t].at = "okGet"
      /\ goodReads' = [goodReads EXCEPT ![f] = @ + 1]
      /\ UNCHANGED <<caps, cdpCaps, bodies, responses, profile, readings, nextRef>>
  BY DEF GetForSuccess, Reads
<1>2. reader[t] \in Readers /\ TabOK(reader[t], caps[t], goodReads) /\ caps[t] \in SUBSET Captures
  BY RestKept DEF ExtractorInv
<1>3. reader[t].at \in HitPcs /\ reader[t].hit \in Captures /\ f \in Endpoints
  BY <1>1, <1>2 DEF TabOK, HitPcs, Captures, Responses
<1>4. row \in EndpointRows \cup {None} /\ (row # None => EarnedBy(row, f, goodReads))
  BY <1>3, RestKept DEF ExtractorInv, RowsEarned
<1>5. /\ goodReads' \in [Endpoints -> Nat] /\ \A g \in Endpoints : goodReads[g] <= goodReads'[g]
      /\ goodReads'[f] = goodReads[f] + 1
  BY <1>1, <1>3, RestKept
<1> HIDE DEF row, f
<1>6. /\ new \in Readers /\ new.at = "okPut" /\ new.row = row /\ new.hit = reader[t].hit /\ new.via = reader[t].via
      /\ new.ref = reader[t].ref /\ new.epoch = reader[t].epoch /\ new.merged = reader[t].merged
  BY <1>2, <1>4 DEF Readers, ReaderPcs, HitPcs, RowPcs
<1> HIDE DEF new
<1>7. row # None => EarnedBy(row, f, goodReads') /\ row.ok < goodReads'[f]
  <2> SUFFICES ASSUME row # None PROVE EarnedBy(row, f, goodReads') /\ row.ok < goodReads'[f]
    OBVIOUS
  <2>1. row \in EndpointRows /\ EarnedBy(row, f, goodReads) /\ goodReads \in [Endpoints -> Nat]
    BY <1>4, RestKept
  <2>2. EarnedBy(row, f, goodReads')
    BY <1>3, <1>5, <2>1, MoreReports
  <2> QED BY <1>3, <1>5, <2>1, <2>2 DEF EarnedBy, EndpointRows
<1>8. TabOK(new, caps[t], goodReads')
  <2>1. new.hit.resp.fp = f
    BY <1>6 DEF f
  <2> QED BY <1>1, <1>2, <1>3, <1>6, <1>7, <2>1 DEF TabOK
<1>9. RowsEarned' /\ OwnReadings'
  <2>1. \A g \in Endpoints : profile[g] # None => EarnedBy(profile[g], g, goodReads')
    <3>1. \A g \in Endpoints : profile[g] # None => profile[g] \in EndpointRows /\ EarnedBy(profile[g], g, goodReads)
      BY RestKept DEF ExtractorInv, RowsEarned
    <3> QED BY <1>5, <3>1, RestKept, MoreReports
  <2>2. RowsEarned'
    BY <1>1, <2>1 DEF RowsEarned, EarnedBy
  <2> QED BY <1>1, <2>2, SameReadings
<1>10. /\ caps' = [caps EXCEPT ![t] = caps[t]] /\ bodies' \subseteq bodies
       /\ cdpCaps' \in [ReadTabs -> SUBSET Captures]
       /\ profile' \in [Endpoints -> EndpointRows \cup {None}]
       /\ readings' \in [ReadRefs -> TakenReadings \cup {None}]
       /\ nextRef' = nextRef
  BY <1>1, RestKept
<1>11. reader[t].epoch <= new.epoch /\ new.epoch < nextRef' /\ nextRef' \in 1 .. NRefs + 1 /\ nextRef <= nextRef'
  BY <1>6, <1>10, RestKept
<1> QED BY <1>1, <1>2, <1>5, <1>6, <1>8, <1>9, <1>10, <1>11, ReaderStep

\* A row is written that was earned.
LEMMA EarnedRowWritten ==
    ASSUME ExtractorInv, NEW f \in Endpoints, NEW row \in EndpointRows, EarnedBy(row, f, goodReads),
           PutProfile(f, row), UNCHANGED goodReads
    PROVE  profile' \in [Endpoints -> EndpointRows \cup {None}] /\ RowsEarned'
<1>1. profile' \in [Endpoints -> EndpointRows \cup {None}]
      /\ \A g \in Endpoints : profile'[g] = IF g = f THEN row ELSE profile[g]
  BY RestKept DEF PutProfile
<1> QED BY <1>1 DEF ExtractorInv, RowsEarned, EarnedBy

LEMMA PromotedEarned ==
    ASSUME NEW row \in EndpointRows, NEW f \in Endpoints, NEW good \in [Endpoints -> Nat],
           EarnedBy(row, f, good), row.ok < good[f]
    PROVE  Promoted(row) \in EndpointRows /\ EarnedBy(Promoted(row), f, good)
<1> DEFINE ok == row.ok + 1
           status == IF row.status = "CANDIDATE" THEN "VALIDATING"
                     ELSE IF row.status \in {"VALIDATING", "DEGRADED"} /\ ok >= PromoteAfter
                     THEN "ACTIVE" ELSE row.status
           new == [row EXCEPT !.ok = ok, !.failed = 0, !.status = status]
<1>1. row.ok \in Nat /\ ok \in Nat /\ status \in {"CANDIDATE", "VALIDATING", "ACTIVE", "DEGRADED"}
  BY DEF EndpointRows
<1>2. ok <= good[f] /\ (status = "ACTIVE" => PromoteAfter <= good[f])
  BY <1>1, ExtractorAssumption DEF EarnedBy
<1>3. Promoted(row) = new
  BY DEF Promoted
<1> HIDE DEF ok, status
<1>4. new \in EndpointRows /\ new.ok = ok /\ new.status = status
  BY <1>1 DEF EndpointRows
<1> QED BY <1>2, <1>3, <1>4 DEF EarnedBy

LEMMA DemotedEarned ==
    ASSUME NEW row \in EndpointRows, NEW f \in Endpoints, NEW good, EarnedBy(row, f, good)
    PROVE  Demoted(row) \in EndpointRows /\ EarnedBy(Demoted(row), f, good)
<1> DEFINE failed == row.failed + 1
           status == IF row.failed + 1 >= DegradeAfter /\ row.status = "ACTIVE"
                     THEN "DEGRADED" ELSE row.status
           new == [row EXCEPT !.failed = failed, !.status = status]
<1>1. failed \in Nat /\ status \in {"CANDIDATE", "VALIDATING", "ACTIVE", "DEGRADED"}
      /\ (status = "ACTIVE" => row.status = "ACTIVE")
  BY DEF EndpointRows
<1>2. Demoted(row) = new
  BY DEF Demoted
<1> HIDE DEF failed, status
<1>3. new \in EndpointRows /\ new.ok = row.ok /\ new.status = status
  BY <1>1 DEF EndpointRows
<1> QED BY <1>1, <1>2, <1>3 DEF EarnedBy

LEMMA CompleteReleaseStep ==
    ASSUME ExtractorInv, NEW t \in ReadTabs, CompleteRelease(t)
    PROVE  ExtractorInv'
<1> DEFINE h == reader[t]
           f == h.hit.resp.fp
           used == {h.hit} \cup h.merged
<1>1. /\ h.at = "okPut" /\ UNCHANGED <<bodies, responses, goodReads, nextRef>>
      /\ IF h.row = None THEN UNCHANGED profile ELSE PutProfile(f, Promoted(h.row))
      /\ ReadOutcome(t, "uncaptured", {}) \/ ReadOutcome(t, h.via, used)
  BY DEF CompleteRelease
<1>2. h \in Readers /\ TabOK(h, caps[t], goodReads) /\ goodReads \in [Endpoints -> Nat]
  BY RestKept DEF ExtractorInv
<1>3. h.at \in HitPcs /\ h.at \in RowPcs /\ h.at # "idle"
  BY <1>1 DEF HitPcs, RowPcs
<1>4. h.hit \in Captures /\ f \in Endpoints /\ h.via \in Tiers
  BY <1>2, <1>3 DEF TabOK, Captures, Responses
<1>5. profile' \in [Endpoints -> EndpointRows \cup {None}] /\ RowsEarned'
  <2>1. CASE h.row = None
    BY <1>1, <2>1, SameRows, RestKept
  <2>2. CASE h.row # None
    <3>1. h.row \in EndpointRows /\ EarnedBy(h.row, f, goodReads) /\ h.row.ok < goodReads[f]
      BY <1>1, <1>2, <1>3, <2>2 DEF TabOK, Readers
    <3>2. Promoted(h.row) \in EndpointRows /\ EarnedBy(Promoted(h.row), f, goodReads)
      BY <1>2, <1>4, <3>1, PromotedEarned
    <3>3. PutProfile(f, Promoted(h.row)) /\ UNCHANGED goodReads
      BY <1>1, <2>2
    <3> QED BY <1>4, <3>2, <3>3, EarnedRowWritten
  <2> QED BY <2>1, <2>2
<1>6. used \in SUBSET Captures /\ (h.via = "network" => \A c \in used : NamedFor(c.resp, h.ref))
  BY <1>2, <1>3, <1>4 DEF TabOK, Readers
<1> HIDE DEF used, f
<1>7. CASE ReadOutcome(t, "uncaptured", {})
  <2>1. {} \in SUBSET Captures /\ "uncaptured" \in Tiers /\ "uncaptured" # "network"
    BY DEF Tiers
  <2> QED BY <1>1, <1>3, <1>5, <1>7, <2>1, ReadOutcomeStep
<1>8. CASE ReadOutcome(t, h.via, used)
  BY <1>1, <1>3, <1>4, <1>5, <1>6, <1>8, ReadOutcomeStep
<1> QED BY <1>1, <1>7, <1>8

\* A hit that did not parse: its failure is still to be reported, or it is given up.
LEMMA AfterFailure ==
    ASSUME ExtractorInv, NEW t \in ReadTabs,
           NEW new \in {[reader[t] EXCEPT !.at = "failGet", !.row = None], WithoutHit(t)}
    PROVE  /\ new \in Readers /\ new.at \in {"failGet", "lower"}
           /\ new.ref = reader[t].ref /\ new.epoch = reader[t].epoch
           /\ new.at \in HitPcs => new.hit = reader[t].hit /\ new.via = reader[t].via
           /\ new.merged = reader[t].merged \/ new.merged = {}
<1>1. reader[t] \in Readers
  BY RestKept
<1>2. CASE new = [reader[t] EXCEPT !.at = "failGet", !.row = None]
  BY <1>1, <1>2 DEF Readers, ReaderPcs, HitPcs
<1>3. CASE new = WithoutHit(t)
  BY <1>1, <1>3 DEF WithoutHit, IdleReader, Readers, ReaderPcs, HitPcs, RowPcs
<1> QED BY <1>2, <1>3

LEMMA ReadRowStep ==
    ASSUME ExtractorInv, NEW t \in ReadTabs, GetForDrift(t) \/ GetForFailure(t)
    PROVE  ExtractorInv'
<1> DEFINE f == reader[t].hit.resp.fp
<1>1. /\ reader[t].at \in {"driftGet", "failGet"}
      /\ UNCHANGED <<caps, cdpCaps, bodies, responses, profile, goodReads, readings, nextRef>>
      /\ \/ \E new \in {[reader[t] EXCEPT !.at = "failGet", !.row = None], WithoutHit(t)} :
              reader' = [reader EXCEPT ![t] = new]
         \/ /\ profile[f] # None
            /\ \E pc \in {"driftPut", "failPut"} :
                 reader' = [reader EXCEPT ![t] = [reader[t] EXCEPT !.at = pc, !.row = profile[f]]]
  BY DEF GetForDrift, GetForFailure, Reads
<1>2. reader[t] \in Readers /\ TabOK(reader[t], caps[t], goodReads)
  BY RestKept DEF ExtractorInv
<1>3. reader[t].at \in HitPcs /\ reader[t].at # "idle" /\ reader[t].hit \in Captures /\ f \in Endpoints
  BY <1>1, <1>2 DEF TabOK, HitPcs, Captures, Responses
<1>4. ASSUME NEW new \in {[reader[t] EXCEPT !.at = "failGet", !.row = None], WithoutHit(t)},
             reader' = [reader EXCEPT ![t] = new]
      PROVE  ExtractorInv'
  <2>1. /\ new \in Readers /\ new.at \in {"failGet", "lower"}
        /\ new.ref = reader[t].ref /\ new.epoch = reader[t].epoch
        /\ new.at \in HitPcs => new.hit = reader[t].hit /\ new.via = reader[t].via
        /\ new.merged = reader[t].merged \/ new.merged = {}
    BY AfterFailure
  <2>2. new.at \in ReaderPcs \ (RowPcs \cup {"idle"})
    BY <2>1 DEF ReaderPcs, RowPcs, HitPcs
  <2> QED BY <1>1, <1>3, <1>4, <2>1, <2>2, MovedStep
<1>5. ASSUME profile[f] # None, NEW pc \in {"driftPut", "failPut"},
             reader' = [reader EXCEPT ![t] = [reader[t] EXCEPT !.at = pc, !.row = profile[f]]]
      PROVE  ExtractorInv'
  <2> DEFINE row == profile[f]
             new == [reader[t] EXCEPT !.at = pc, !.row = row]
  <2>1. reader' = [reader EXCEPT ![t] = new]
    BY <1>5
  <2>2. row \in EndpointRows /\ EarnedBy(row, f, goodReads)
    BY <1>3, <1>5, RestKept DEF ExtractorInv, RowsEarned
  <2> HIDE DEF row
  <2>3. /\ new \in Readers /\ new.at = pc /\ new.ref = reader[t].ref /\ new.epoch = reader[t].epoch
        /\ new.hit = reader[t].hit /\ new.via = reader[t].via /\ new.merged = reader[t].merged
        /\ new.row = row
    BY <1>2, <2>2 DEF Readers, ReaderPcs, HitPcs, RowPcs
  <2> HIDE DEF new, f
  <2>4. new.hit.resp.fp = f
    BY <2>3 DEF f
  <2>5. TabOK(new, caps[t], goodReads)
    BY <1>2, <1>3, <2>2, <2>3, <2>4 DEF TabOK
  <2> QED BY <1>1, <1>3, <2>1, <2>3, <2>5, QuietReaderStep
<1> QED BY <1>1, <1>4, <1>5

LEMMA WriteRowStep ==
    ASSUME ExtractorInv, NEW t \in ReadTabs, PutDrift(t) \/ PutFailure(t)
    PROVE  ExtractorInv'
<1> DEFINE f == reader[t].hit.resp.fp
           row == reader[t].row
           drift == [row EXCEPT !.status = "DEGRADED"]
<1>1. /\ reader[t].at \in {"driftPut", "failPut"}
      /\ UNCHANGED <<caps, cdpCaps, bodies, responses, goodReads, readings, nextRef>>
      /\ PutProfile(f, drift) \/ PutProfile(f, Demoted(row))
      /\ \E new \in {[reader[t] EXCEPT !.at = "failGet", !.row = None], WithoutHit(t)} :
           reader' = [reader EXCEPT ![t] = new]
  BY DEF PutDrift, PutFailure, Reads
<1>2. reader[t] \in Readers /\ TabOK(reader[t], caps[t], goodReads) /\ caps[t] \in SUBSET Captures
  BY RestKept DEF ExtractorInv
<1>3. reader[t].at \in HitPcs /\ reader[t].at \in RowPcs /\ reader[t].at # "idle"
      /\ reader[t].hit \in Captures /\ f \in Endpoints
  BY <1>1, <1>2 DEF TabOK, HitPcs, RowPcs, Captures, Responses
<1>4. row \in EndpointRows /\ EarnedBy(row, f, goodReads)
  BY <1>1, <1>2, <1>3 DEF TabOK, Readers
<1> HIDE DEF row, f
<1>5. drift \in EndpointRows /\ EarnedBy(drift, f, goodReads)
  BY <1>4 DEF EndpointRows, EarnedBy
<1>6. Demoted(row) \in EndpointRows /\ EarnedBy(Demoted(row), f, goodReads)
  BY <1>3, <1>4, DemotedEarned
<1> HIDE DEF drift
<1>7. profile' \in [Endpoints -> EndpointRows \cup {None}] /\ RowsEarned'
  BY <1>1, <1>3, <1>5, <1>6, EarnedRowWritten
<1>8. PICK new \in {[reader[t] EXCEPT !.at = "failGet", !.row = None], WithoutHit(t)} :
        reader' = [reader EXCEPT ![t] = new]
  BY <1>1
<1>9. /\ new \in Readers /\ new.at \in {"failGet", "lower"}
      /\ new.ref = reader[t].ref /\ new.epoch = reader[t].epoch
      /\ new.at \in HitPcs => new.hit = reader[t].hit /\ new.via = reader[t].via
      /\ new.merged = reader[t].merged \/ new.merged = {}
  BY AfterFailure
<1>10. reader' = [reader EXCEPT ![t] = new]
  BY <1>8
<1>11. TabOK(new, caps[t], goodReads')
  <2>1. new.at \notin RowPcs /\ new.at \notin {"idle", "okPut"}
    BY <1>9 DEF RowPcs
  <2> QED BY <1>2, <1>3, <1>9, <2>1 DEF TabOK
<1>12. /\ caps' = [caps EXCEPT ![t] = caps[t]] /\ bodies' \subseteq bodies
       /\ cdpCaps' \in [ReadTabs -> SUBSET Captures]
       /\ readings' \in [ReadRefs -> TakenReadings \cup {None}]
       /\ nextRef' = nextRef /\ goodReads' = goodReads
  BY <1>1, RestKept
<1>13. reader[t].epoch <= new.epoch /\ new.epoch < nextRef' /\ nextRef' \in 1 .. NRefs + 1 /\ nextRef <= nextRef'
  BY <1>9, <1>12, RestKept
<1>14. /\ OwnReadings' /\ goodReads' \in [Endpoints -> Nat]
       /\ \A g \in Endpoints : goodReads[g] <= goodReads'[g]
  BY <1>1, <1>12, RestKept, SameReadings
<1> QED BY <1>1, <1>2, <1>3, <1>7, <1>9, <1>10, <1>11, <1>12, <1>13, <1>14, ReaderStep

LEMMA RegistryFailsStep ==
    ASSUME ExtractorInv, NEW t \in ReadTabs, RegistryFails(t)
    PROVE  ExtractorInv'
BY FinishStep DEF RegistryFails

LEMMA ExtractorNextInv ==
    ASSUME ExtractorInv, [ExtractorNext]_extractorVars
    PROVE  ExtractorInv'
<1>1. CASE UNCHANGED extractorVars
  <2>1. UNCHANGED <<reader, caps, cdpCaps, bodies, responses, profile, goodReads, readings, nextRef>>
    BY <1>1 DEF extractorVars, extractorState
  <2> QED BY <2>1 DEF ExtractorInv, ExtractorSane, RowsEarned, OwnReadings, EarnedBy, TabOK, NamedFor, BodyOK
<1>2. CASE ExtractorNext
  BY <1>2, ResponseArrivesStep, DiscoveryBodyStep, CdpBodyStep, StartReleaseStep, WaitingSteps,
     NavigationSteps, GetForSuccessStep, CompleteReleaseStep, ReadRowStep, WriteRowStep, RegistryFailsStep
     DEF ExtractorNext
<1> QED BY <1>1, <1>2

LEMMA ExtractorInvSound == ASSUME ExtractorInv PROVE ExtractorTypeOK /\ ReadingsSound
<1>1. ExtractorTypeOK
  <2>1. ASSUME NEW t \in ReadTabs
        PROVE  /\ reader[t].ref \in ReadRefs \cup {None} /\ reader[t].epoch \in 0 .. NRefs
               /\ reader[t].active \subseteq Endpoints /\ reader[t].heuristic \in BOOLEAN
    <3>1. reader[t] \in Readers /\ reader[t].epoch \in Nat /\ reader[t].epoch < nextRef /\ nextRef \in 1 .. NRefs + 1
      BY RestKept
    <3> QED BY <3>1, ExtractorAssumption DEF Readers, MaybeRef
  <2>2. \A f \in Endpoints : StatusOfProfile(f) \in {"none", "CANDIDATE", "VALIDATING", "ACTIVE", "DEGRADED"}
    BY RestKept DEF StatusOfProfile, EndpointRows
  <2>3. responses \in 0 .. MaxBodies /\ nextRef \in 1 .. (NRefs + 1)
    BY DEF ExtractorInv, ExtractorSane
  <2> QED BY <2>1, <2>2, <2>3 DEF ExtractorTypeOK
<1>2. NamedElsewhereUnused
  BY DEF ExtractorInv, OwnReadings, NamedElsewhereUnused, ForeignData
<1>3. PromotionEarned
  BY DEF ExtractorInv, RowsEarned, EarnedBy, PromotionEarned, StatusOfProfile
<1> QED BY <1>1, <1>2, <1>3 DEF ReadingsSound

(* For any number of tabs, releases, endpoints and bodies, in any order: a   *)
(* release completed from the network listener uses no payload of another    *)
(* release of the chunk, and an endpoint is trusted only when it earned it.  *)
THEOREM ReadingPromises == ExtractorSpec => [](ExtractorTypeOK /\ ReadingsSound)
<1>1. ExtractorInit => ExtractorInv
  BY ExtractorInitInv
<1>2. ExtractorInv /\ [ExtractorNext]_extractorVars => ExtractorInv'
  BY ExtractorNextInv
<1>3. ExtractorInv => ExtractorTypeOK /\ ReadingsSound
  BY ExtractorInvSound
<1> QED BY <1>1, <1>2, <1>3, PTL DEF ExtractorSpec

-----------------------------------------------------------------------------
(* The audit: matching. *)

\* Scores and similarities are in thousandths.
IsScore(x) == x \in Int /\ 0 <= x /\ x <= 1000

\* What the matcher compares: an item with finite credits and version tags.
ItemOK(t) == IsFiniteSet(t.keys) /\ IsFiniteSet(t.versions)

(* Every key is an artist or a set of artists the row credits. *)
LEMMA ItemsFinite ==
    ASSUME NEW raw, CreditsFinite(raw)
    PROVE  ItemOK(NormalizedItem(raw))
<1> DEFINE parsed == ParseTitle(raw.title)
           names == {raw.artist} \cup {{f} : f \in parsed.featured}
           credited == raw.artist \cup parsed.featured
<1>1. IsFiniteSet(parsed.featured) /\ IsFiniteSet(parsed.versions)
  <2>1. /\ parsed.versions = {} \/ \E x : parsed.versions = {x}
        /\ parsed.featured = {} \/ (/\ raw.title.seg # None /\ raw.title.seg.kind = "feat"
                                    /\ parsed.featured = raw.title.seg.val)
    BY DEF ParseTitle
  <2> QED BY <2>1, FS_EmptySet, FS_Singleton DEF CreditsFinite
<1>2. /\ NormalizedItem(raw).keys = ArtistKeys(names)
      /\ NormalizedItem(raw).versions = parsed.versions
  BY DEF NormalizedItem
<1>3. IsFiniteSet(credited)
  BY <1>1, FS_Union DEF CreditsFinite
<1>4. IsFiniteSet(SUBSET credited)
  BY <1>3, FS_SUBSET
<1>5. ArtistKeys(names) \subseteq SUBSET credited
  <2> HIDE DEF parsed
  <2>1. \A n \in names : n \subseteq credited
    OBVIOUS
  <2> QED BY <2>1 DEF ArtistKeys
<1>6. IsFiniteSet(ArtistKeys(names))
  BY <1>4, <1>5, FS_Subset
<1> QED BY <1>1, <1>2, <1>6 DEF ItemOK

(* A non-empty set of numbers has a least element. *)
LEMMA LeastNumber ==
    ASSUME NEW S, S \subseteq Nat, S # {}
    PROVE  \E x \in S : \A y \in S : x <= y
<1>1. IsWellFoundedOn({p \in Nat \X Nat : p[1] < p[2]}, Nat)
  <2>1. OpToRel(<, Nat) = {p \in Nat \X Nat : p[1] < p[2]}
    BY DEF OpToRel
  <2> QED BY <2>1, NatLessThanWellFounded
<1>2. PICK x \in S : \A y \in S : <<y, x>> \notin {p \in Nat \X Nat : p[1] < p[2]}
  BY <1>1, WFMin
<1>3. \A y \in S : x <= y
  <2> TAKE y \in S
  <2>1. x \in Nat /\ y \in Nat
    OBVIOUS
  <2>2. CASE y < x
    <3>1. <<y, x>> \in Nat \X Nat /\ <<y, x>>[1] < <<y, x>>[2]
      BY <2>1, <2>2
    <3> QED BY <3>1, <1>2
  <2> QED BY <2>1, <2>2
<1> QED BY <1>2, <1>3

(* The overlap of two finite sets is a share in thousandths. *)
LEMMA OverlapBounds ==
    ASSUME NEW s, NEW t, IsFiniteSet(s), IsFiniteSet(t)
    PROVE  IsScore(Overlap(s, t))
<1>1. CASE s = {} \/ t = {}
  BY <1>1 DEF Overlap, IsScore
<1>2. CASE s # {} /\ t # {}
  <2> DEFINE c == Cardinality(s \intersect t)
             m == SmallerOf(Cardinality(s), Cardinality(t))
  <2>1. /\ Cardinality(s) \in Nat /\ Cardinality(t) \in Nat
        /\ Cardinality(s) # 0 /\ Cardinality(t) # 0
    BY <1>2, FS_CardinalityType, FS_EmptySet
  <2>2. IsFiniteSet(s \intersect t) /\ c <= Cardinality(s)
    BY FS_Intersection
  <2>3. c <= Cardinality(t)
    BY FS_Intersection
  <2>4. c \in Nat
    BY <2>2, FS_CardinalityType
  <2>5. m \in Nat \ {0} /\ c <= m
    BY <2>1, <2>2, <2>3 DEF SmallerOf
  <2>6. Overlap(s, t) = (1000 * c) \div m
    BY <1>2 DEF Overlap
  <2> HIDE DEF c, m
  <2>7. IsScore((1000 * c) \div m)
    <3>1. (1000 * c) <= 1000 * m /\ 1000 * c >= 0 /\ (1000 * c) \in Int
      BY <2>4, <2>5
    <3>2. (1000 * c) \div m >= 0 /\ m * ((1000 * c) \div m) <= 1000 * c /\ (1000 * c) \div m \in Int
      BY <2>4, <2>5, <3>1, Z3
    <3>3. m * ((1000 * c) \div m) <= m * 1000
      BY <3>1, <3>2, <2>5
    <3> QED BY <3>2, <3>3, <2>5 DEF IsScore
  <2> QED BY <2>6, <2>7
<1> QED BY <1>1, <1>2

(* The weighted score is in thousandths, and near the top for an upload with *)
(* the track's title, versions and artists whose length does not contradict. *)
LEMMA WeightedBounds ==
    ASSUME NEW s, NEW t, ItemOK(s), ItemOK(t)
    PROVE  /\ IsScore(Weighted(s, t))
           /\ (/\ s.base = t.base /\ s.versions = t.versions
               /\ DurationScore(s, t) # 0 /\ Overlap(s.keys, t.keys) >= 1000)
              => Weighted(s, t) >= 975
<1> PICK d : d = DurationScore(s, t)
  OBVIOUS
<1> PICK ts : ts = TitleSimilarity(s.base, t.base)
  OBVIOUS
<1> PICK ov : ov = Overlap(s.keys, t.keys)
  OBVIOUS
<1> PICK vs : vs = VersionScore(s, t)
  OBVIOUS
<1> PICK sum : sum = 55 * ts + 30 * ov + 10 * vs
  OBVIOUS
<1>1. ts \in {1000, 920, 300} /\ (s.base = t.base => ts = 1000)
  BY DEF TitleSimilarity
<1>2. IsScore(ov)
  BY OverlapBounds DEF ItemOK
<1>3. vs \in {0, 500, 1000} /\ (s.versions = t.versions => vs = 1000)
  BY DEF VersionScore, VersionMismatch
<1>4. d \in {None, 0, 500, 1000}
  BY DEF DurationScore
<1>5. Weighted(s, t) = IF d = None THEN sum \div 95 ELSE (sum + 5 * d) \div 100
  BY DEF Weighted
<1>6. sum \in Int /\ 0 <= sum /\ sum <= 95000
  BY <1>1, <1>2, <1>3, SMT DEF IsScore
<1>7. s.base = t.base /\ s.versions = t.versions /\ ov >= 1000 => sum = 95000
  <2>1. SUFFICES ASSUME s.base = t.base, s.versions = t.versions, ov >= 1000
                 PROVE  sum = 95000
    OBVIOUS
  <2>2. ts = 1000 /\ vs = 1000
    BY <2>1, <1>1, <1>3
  <2>3. ov = 1000
    BY <2>1, <1>2, SMT DEF IsScore
  <2> QED BY <2>2, <2>3, SMT
<1>8. CASE d = None
  <2>1. IsScore(sum \div 95) /\ (sum = 95000 => sum \div 95 >= 975)
    BY <1>6, Z3 DEF IsScore
  <2> QED BY <2>1, <1>5, <1>7, <1>8, SMT
<1>9. CASE d # None
  <2> PICK n : n = sum + 5 * d
    OBVIOUS
  <2>1. d \in {0, 500, 1000}
    BY <1>4, <1>9
  <2>2. /\ n \in Int /\ 0 <= n /\ n <= 100000
        /\ sum = 95000 /\ d # 0 => n >= 97500
    BY <2>1, <1>6, SMT
  <2>3. IsScore(n \div 100) /\ (n >= 97500 => n \div 100 >= 975)
    BY <2>2, Z3 DEF IsScore
  <2>4. Weighted(s, t) = n \div 100
    BY <1>5, <1>9
  <2> QED BY <2>2, <2>3, <2>4, <1>7, SMT
<1> QED BY <1>8, <1>9

(* Metadata: the least of the weighted score and the limits that apply. *)
LEMMA MetadataBounds ==
    ASSUME NEW s, NEW t, ItemOK(s), ItemOK(t)
    PROVE  /\ IsScore(MetadataScore(s, t))
           /\ ArtistMismatch(s, t) => MetadataScore(s, t) <= 550
           /\ (/\ s.base = t.base /\ s.versions = t.versions /\ ~IsrcConflict(s, t)
               /\ DurationScore(s, t) # 0 /\ Overlap(s.keys, t.keys) >= 1000)
              => MetadataScore(s, t) >= 828
<1> DEFINE w == Weighted(s, t)
           limits == ScoreCaps(s, t)
           scores == limits \cup {w}
           lowest == CHOOSE c \in scores : \A other \in scores : c <= other
           common == s.base \in CommonBases /\ s.isrc = None
           share == (85 * lowest) \div 100
<1>1. IsScore(w)
  BY WeightedBounds
<1>2. limits \subseteq {400, 550, 600} /\ (ArtistMismatch(s, t) => 550 \in limits)
  BY DEF ScoreCaps
<1>3. scores \subseteq Nat /\ scores # {}
  BY <1>1, <1>2 DEF IsScore
<1>4. \E c \in scores : \A other \in scores : c <= other
  BY <1>3, LeastNumber
<1>5. lowest \in scores /\ \A other \in scores : lowest <= other
  BY <1>4
<1> HIDE DEF w, limits, lowest
<1>6. /\ IsScore(lowest)
      /\ ArtistMismatch(s, t) => lowest <= 550
      /\ limits = {} /\ w >= 975 => lowest >= 975
  BY <1>1, <1>2, <1>5 DEF IsScore
<1>7. (/\ s.base = t.base /\ s.versions = t.versions /\ ~IsrcConflict(s, t)
       /\ DurationScore(s, t) # 0 /\ Overlap(s.keys, t.keys) >= 1000)
      => limits = {} /\ w >= 975
  <2> USE DEF w, limits
  <2> SUFFICES ASSUME s.base = t.base, s.versions = t.versions, ~IsrcConflict(s, t),
                      DurationScore(s, t) # 0, Overlap(s.keys, t.keys) >= 1000
               PROVE  limits = {} /\ w >= 975
    OBVIOUS
  <2>1. Overlap(s.keys, t.keys) # 0
    BY SMT
  <2>2. limits = {}
    BY <2>1 DEF ScoreCaps, VersionMismatch, ArtistMismatch
  <2> QED BY <2>2, WeightedBounds
<1>8. MetadataScore(s, t) = SmallerOf(IF common THEN share ELSE lowest, 970)
  BY DEF MetadataScore, MetadataScoreCap, w, limits, lowest
<1> HIDE DEF common
<1>9. IsScore(share) /\ share <= lowest /\ (lowest >= 975 => share >= 828)
  <2> PICK n : n = 85 * lowest
    OBVIOUS
  <2>1. n \in Int /\ 0 <= n /\ n <= 85000 /\ n <= 100 * lowest
    BY <1>6, SMT DEF IsScore
  <2>2. /\ IsScore(n \div 100)
        /\ n >= 82800 => n \div 100 >= 828
    BY <2>1, Z3 DEF IsScore
  <2>3. 100 * (n \div 100) <= n
    BY <2>1, Z3
  <2>4. n \div 100 <= lowest
    BY <1>6, <2>1, <2>2, <2>3, SMT DEF IsScore
  <2>5. lowest >= 975 => n >= 82800
    BY <1>6, SMT DEF IsScore
  <2> QED BY <2>2, <2>4, <2>5
<1> HIDE DEF share
<1>10. PICK final \in {share, lowest} : MetadataScore(s, t) = SmallerOf(final, 970)
  <2>1. CASE common
    BY <2>1, <1>8
  <2>2. CASE ~common
    BY <2>2, <1>8
  <2> QED BY <2>1, <2>2
<1>11. /\ IsScore(MetadataScore(s, t)) /\ MetadataScore(s, t) <= lowest
       /\ lowest >= 975 => MetadataScore(s, t) >= 828
  BY <1>6, <1>9, <1>10, SMT DEF IsScore, SmallerOf
<1>12. ArtistMismatch(s, t) => MetadataScore(s, t) <= 550
  BY <1>6, <1>11, SMT DEF IsScore
<1> QED BY <1>6, <1>7, <1>11, <1>12

LEMMA ScoreBounds ==
    ASSUME NEW s, NEW t, ItemOK(s), ItemOK(t)
    PROVE  IsScore(ScoreMatch(s, t))
<1>1. IsScore(1000)
  BY DEF IsScore
<1> QED BY <1>1, MetadataBounds DEF ScoreMatch

(* Among finitely many scores there is a first one that is the best. *)
LEMMA FirstOfBest ==
    ASSUME NEW n \in Nat \ {0}, NEW score, \A i \in 1 .. n : IsScore(score[i])
    PROVE  \E i \in 1 .. n : \A j \in 1 .. n :
             score[j] < score[i] \/ (score[j] = score[i] /\ i <= j)
<1> DEFINE losses == {x \in Nat : \E i \in 1 .. n : x = 1000 - score[i]}
<1>1. 1000 - score[1] \in losses
  <2>1. 1 \in 1 .. n /\ 1000 - score[1] \in Nat
    BY SMT DEF IsScore
  <2> QED BY <2>1
<1>2. losses \subseteq Nat /\ losses # {}
  BY <1>1
<1>3. PICK loss \in losses : \A y \in losses : loss <= y
  BY <1>2, LeastNumber
<1>4. PICK b \in 1 .. n : loss = 1000 - score[b]
  BY <1>3
<1>5. \A j \in 1 .. n : score[j] <= score[b]
  <2> TAKE j \in 1 .. n
  <2>1. IsScore(score[j]) /\ IsScore(score[b])
    OBVIOUS
  <2>2. 1000 - score[j] \in losses
    BY <2>1 DEF IsScore
  <2>3. 1000 - score[b] <= 1000 - score[j]
    BY <2>2, <1>3, <1>4
  <2> HIDE DEF losses
  <2> QED BY <2>1, <2>3, SMT DEF IsScore
<1> DEFINE best == {i \in 1 .. n : score[i] = score[b]}
<1>6. best \subseteq Nat /\ best # {}
  OBVIOUS
<1>7. PICK i \in best : \A y \in best : i <= y
  BY <1>6, LeastNumber
<1>8. i \in 1 .. n /\ score[i] = score[b]
  BY <1>7
<1>9. ASSUME NEW j \in 1 .. n
      PROVE  score[j] < score[i] \/ (score[j] = score[i] /\ i <= j)
  <2>1. IsScore(score[j]) /\ IsScore(score[i]) /\ score[j] <= score[i]
    BY <1>5, <1>8
  <2>2. CASE score[j] = score[i]
    <3>1. i <= j
      BY <2>2, <1>7, <1>8
    <3> QED BY <3>1, <2>2
  <2>3. CASE score[j] # score[i]
    <3> HIDE DEF losses, best
    <3> QED BY <2>1, <2>3, SMT DEF IsScore
  <2> QED BY <2>2, <2>3
<1> QED BY <1>8, <1>9

(* So BestIndex finds an item, and none scores more. *)
LEMMA BestIsBest ==
    ASSUME NEW s, ItemOK(s), NEW n \in Nat \ {0}, NEW items,
           DOMAIN items = 1 .. n, \A i \in 1 .. n : ItemOK(items[i])
    PROVE  /\ BestIndex(s, items) \in 1 .. n
           /\ \A j \in 1 .. n :
                ScoreMatch(s, items[j]) <= ScoreMatch(s, items[BestIndex(s, items)])
<1> PICK score : score = [i \in 1 .. n |-> ScoreMatch(s, items[i])]
  OBVIOUS
<1>1. \A i \in 1 .. n : score[i] = ScoreMatch(s, items[i]) /\ IsScore(score[i])
  BY ScoreBounds
<1>2. PICK b : b = CHOOSE i \in 1 .. n : \A j \in 1 .. n :
                     score[j] < score[i] \/ (score[j] = score[i] /\ i <= j)
  OBVIOUS
<1>3. b \in 1 .. n /\ \A j \in 1 .. n : score[j] < score[b] \/ (score[j] = score[b] /\ b <= j)
  BY <1>1, <1>2, FirstOfBest
<1>4. BestIndex(s, items) = b
  BY <1>1, <1>2 DEF BestIndex
<1>5. \A j \in 1 .. n : score[j] <= score[b]
  BY <1>1, <1>3, SMT DEF IsScore
<1> QED BY <1>1, <1>3, <1>4, <1>5

\* No upload among these is the recording s with the same artists, or one
\* that carries its ISRC credits somebody else.
UnderOtherName(s, t) == SameIsrc(s, t) /\ ArtistMismatch(s, t)
OtherSong(s, t) == SameRecording(s, t) => Overlap(s.keys, t.keys) < 1000
NotAmong(s, items) ==
    (\E t \in items : UnderOtherName(s, t)) \/ (\A t \in items : OtherSong(s, t))

(* An upload of the same recording by the same artists scores at least 828.  *)
LEMMA SameRecordingScores ==
    ASSUME NEW s, NEW t, ItemOK(s), ItemOK(t), SameRecording(s, t),
           ~(Overlap(s.keys, t.keys) < 1000)
    PROVE  ScoreMatch(s, t) >= 828
<1>1. Overlap(s.keys, t.keys) >= 1000
  <2>1. IsScore(Overlap(s.keys, t.keys))
    BY OverlapBounds DEF ItemOK
  <2> QED BY <2>1, SMT DEF IsScore
<1>2. CASE SameIsrc(s, t)
  <2>1. ScoreMatch(s, t) = 1000
    BY <1>2 DEF ScoreMatch
  <2> QED BY <2>1, SMT
<1>3. CASE ~SameIsrc(s, t)
  <2>1. MetadataScore(s, t) >= 828
    BY <1>1, <1>3, MetadataBounds DEF SameRecording
  <2> QED BY <2>1, <1>3 DEF ScoreMatch
<1> QED BY <1>2, <1>3

(* Such a candidate is matched or reviewed, or has the ISRC and credits      *)
(* somebody else.                                                            *)
LEMMA ProbableIsSettled ==
    ASSUME NEW s, NEW t, ItemOK(s), ItemOK(t), ScoreMatch(s, t) >= 828,
           Decision(s, t) # "matched", Decision(s, t) # "review"
    PROVE  SameIsrc(s, t) /\ ArtistMismatch(s, t)
<1> PICK n : n = ScoreMatch(s, t)
  OBVIOUS
<1>1. n \in Int /\ n >= 828
  <2>1. IsScore(ScoreMatch(s, t))
    BY ScoreBounds
  <2> QED BY <2>1, SMT DEF IsScore
<1>2. /\ n >= 900 => ClassifyConfidence(n) \in {"confirmed", "strong"}
      /\ ~(n >= 900) => ClassifyConfidence(n) = "probable"
  BY <1>1, SMT DEF ClassifyConfidence
<1>3. n >= 900 /\ ArtistMismatch(s, t)
  <2>1. n >= 900
    <3>1. SUFFICES ASSUME ~(n >= 900) PROVE Decision(s, t) = "review"
      OBVIOUS
    <3>2. ClassifyConfidence(ScoreMatch(s, t)) = "probable"
      BY <3>1, <1>2
    <3> QED BY <3>2 DEF Decision
  <2>2. ClassifyConfidence(ScoreMatch(s, t)) \in {"confirmed", "strong"}
    BY <2>1, <1>2
  <2>3. ArtistMismatch(s, t)
    BY <2>2 DEF Decision
  <2> QED BY <2>1, <2>3
<1>4. SameIsrc(s, t)
  <2>1. SUFFICES ASSUME ~SameIsrc(s, t) PROVE FALSE
    OBVIOUS
  <2>2. n = MetadataScore(s, t)
    BY <2>1 DEF ScoreMatch
  <2>3. n <= 550
    BY <2>2, <1>3, MetadataBounds
  <2> QED BY <2>3, <1>1, <1>3, SMT
<1> QED BY <1>3, <1>4

(* The best candidate scores at least as much: no such upload is unmatched.  *)
LEMMA UnmatchedIsAbsent ==
    ASSUME NEW s, ItemOK(s), NEW n \in Nat \ {0}, NEW items,
           DOMAIN items = 1 .. n, \A i \in 1 .. n : ItemOK(items[i]),
           Decision(s, items[BestIndex(s, items)]) # "matched",
           Decision(s, items[BestIndex(s, items)]) # "review"
    PROVE  \/ \E i \in 1 .. n : UnderOtherName(s, items[i])
           \/ \A i \in 1 .. n : OtherSong(s, items[i])
<1> PICK b : b = items[BestIndex(s, items)]
  OBVIOUS
<1>1. /\ ItemOK(b) /\ \E i \in 1 .. n : b = items[i]
      /\ \A i \in 1 .. n : ScoreMatch(s, items[i]) <= ScoreMatch(s, b)
  BY BestIsBest
<1> SUFFICES ASSUME NEW i \in 1 .. n, SameRecording(s, items[i]),
                    ~(Overlap(s.keys, items[i].keys) < 1000)
             PROVE  SameIsrc(s, b) /\ ArtistMismatch(s, b)
  BY <1>1, Zenon DEF UnderOtherName, OtherSong
<1>2. ScoreMatch(s, items[i]) >= 828
  BY SameRecordingScores
<1>3. ScoreMatch(s, b) >= 828
  <2>1. ItemOK(items[i]) /\ ItemOK(b)
    BY <1>1
  <2>2. IsScore(ScoreMatch(s, b)) /\ IsScore(ScoreMatch(s, items[i]))
    BY <2>1, ScoreBounds
  <2>3. ScoreMatch(s, items[i]) <= ScoreMatch(s, b)
    BY <1>1
  <2> QED BY <2>2, <2>3, <1>2, SMT DEF IsScore
<1>4. Decision(s, b) # "matched" /\ Decision(s, b) # "review"
  OBVIOUS
<1> QED BY <1>1, <1>3, <1>4, ProbableIsSettled

-----------------------------------------------------------------------------
(* The audit: positions in order. *)

(* A set of positions has a last one. *)
LEMMA LastPosition ==
    ASSUME NEW n \in Nat, NEW S \in SUBSET (1 .. n), S # {}
    PROVE  \E x \in S : \A y \in S : y <= x
<1> DEFINE back == {z \in Nat : \E x \in S : z = n - x}
<1>1. PICK x0 \in S : TRUE
  OBVIOUS
<1>2. n - x0 \in back
  OBVIOUS
<1>3. PICK z \in back : \A y \in back : z <= y
  BY <1>2, LeastNumber
<1>4. PICK x \in S : z = n - x
  BY <1>3
<1>5. ASSUME NEW y \in S PROVE y <= x
  <2>1. n - y \in back
    OBVIOUS
  <2>2. n - x <= n - y
    BY <2>1, <1>3, <1>4
  <2> HIDE DEF back
  <2> QED BY <2>2
<1> QED BY <1>5

(* So InOrder finds the k-th position of K for every k up to its size.      *)
LEMMA OrderPlaces ==
    ASSUME NEW n \in Nat, NEW K \in SUBSET (1 .. n)
    PROVE  InOrder(K) \in Seq(K)
<1>1. IsFiniteSet(1 .. n)
  BY FS_Interval
<1>2. \A S \in SUBSET (1 .. n) : IsFiniteSet(S) /\ Cardinality(S) \in Nat
  BY <1>1, FS_Subset, FS_CardinalityType
<1> DEFINE below(i) == {j \in K : j < i}
<1>3. ASSUME NEW k \in 1 .. Cardinality(K)
      PROVE  \E i \in K : Cardinality(below(i)) = k - 1
  <2>1. K # {}
    <3>1. SUFFICES ASSUME K = {} PROVE FALSE
      OBVIOUS
    <3>2. Cardinality(K) = 0
      BY <3>1, FS_EmptySet
    <3> QED BY <3>2
  <2>2. PICK last \in K : \A y \in K : y <= last
    BY <2>1, LastPosition
  <2>3. ASSUME NEW i \in K, NEW S \in SUBSET K, i \notin S
        PROVE  Cardinality(S \cup {i}) = Cardinality(S) + 1
    BY <2>3, <1>2, FS_AddElement
  <2>4. Cardinality(below(last)) >= k - 1
    <3>1. K = below(last) \cup {last} /\ last \notin below(last) /\ below(last) \in SUBSET K
      <4>1. \A y \in K : y \in below(last) \/ y = last
        <5> TAKE y \in K
        <5>1. y \in Nat /\ last \in Nat /\ y <= last
          BY <2>2
        <5> QED BY <5>1
      <4>2. last \notin below(last) /\ below(last) \in SUBSET K
        OBVIOUS
      <4> HIDE DEF below
      <4> QED BY <4>1, <4>2
    <3>2. Cardinality(K) = Cardinality(below(last)) + 1
      BY <3>1, <2>3
    <3>3. Cardinality(below(last)) \in Nat /\ Cardinality(K) \in Nat
      BY <1>2
    <3> HIDE DEF below
    <3> QED BY <3>2, <3>3
  <2> DEFINE far == {i \in K : Cardinality(below(i)) >= k - 1}
  <2>5. far \subseteq Nat /\ far # {}
    <3>1. last \in far
      <4> HIDE DEF below
      <4> QED BY <2>4
    <3>2. K \subseteq Nat /\ far \subseteq K
      OBVIOUS
    <3> HIDE DEF far
    <3> QED BY <3>1, <3>2
  <2>6. PICK i \in far : \A y \in far : i <= y
    BY <2>5, LeastNumber
  <2>7. Cardinality(below(i)) = k - 1
    <3>1. SUFFICES ASSUME Cardinality(below(i)) # k - 1 PROVE FALSE
      OBVIOUS
    <3>2. Cardinality(below(i)) \in Nat /\ Cardinality(below(i)) >= k - 1
      BY <2>6, <1>2
    <3>3. Cardinality(below(i)) >= k
      <4> HIDE DEF below
      <4> QED BY <3>1, <3>2
    <3>4. below(i) # {}
      <4>1. SUFFICES ASSUME below(i) = {} PROVE FALSE
        OBVIOUS
      <4>2. Cardinality(below(i)) = 0
        BY <4>1, FS_EmptySet
      <4> HIDE DEF below
      <4> QED BY <4>2, <3>3
    <3>5. below(i) \in SUBSET (1 .. n)
      OBVIOUS
    <3>6. PICK m \in below(i) : \A y \in below(i) : y <= m
      BY <3>4, <3>5, LastPosition
    <3>7. m \in K /\ m < i
      BY <3>6
    <3>8. below(i) = below(m) \cup {m} /\ m \notin below(m) /\ below(m) \in SUBSET K
      <4>1. \A y \in below(i) : y \in below(m) \/ y = m
        <5> TAKE y \in below(i)
        <5>1. y \in Nat /\ m \in Nat /\ y <= m /\ y \in K
          BY <3>6, <3>7
        <5> QED BY <5>1
      <4>2. \A y \in below(m) : y \in below(i)
        <5> TAKE y \in below(m)
        <5>1. y \in Nat /\ m \in Nat /\ i \in Nat /\ y < m /\ m < i /\ y \in K
          BY <3>7, <2>5, <2>6
        <5> QED BY <5>1
      <4>3. m \notin below(m) /\ below(m) \in SUBSET K /\ m \in below(i)
        BY <3>6
      <4> HIDE DEF below
      <4> QED BY <4>1, <4>2, <4>3
    <3>9. Cardinality(below(i)) = Cardinality(below(m)) + 1
      BY <3>7, <3>8, <2>3
    <3>10. Cardinality(below(m)) \in Nat
      BY <1>2
    <3>11. Cardinality(below(m)) >= k - 1
      <4> HIDE DEF below
      <4> QED BY <3>3, <3>9, <3>10
    <3>12. m \in far
      BY <3>7, <3>11
    <3>13. i <= m /\ i \in Nat /\ m \in Nat
      BY <3>12, <2>6
    <3> HIDE DEF far, below
    <3> QED BY <3>7, <3>13
  <2> QED BY <2>6, <2>7
<1>4. \A k \in 1 .. Cardinality(K) :
        (CHOOSE i \in K : Cardinality({j \in K : j < i}) = k - 1) \in K
  BY <1>3
<1>5. Cardinality(K) \in Nat
  BY <1>2
<1>6. /\ InOrder(K) = [k \in 1 .. Cardinality(K) |-> InOrder(K)[k]]
      /\ \A k \in 1 .. Cardinality(K) : InOrder(K)[k] \in K
  <2>1. InOrder(K) = [k \in 1 .. Cardinality(K) |-> InOrder(K)[k]]
    <3> DEFINE place(k) == CHOOSE i \in K : Cardinality({j \in K : j < i}) = k - 1
    <3>1. InOrder(K) = [k \in 1 .. Cardinality(K) |-> place(k)]
      BY DEF InOrder
    <3> HIDE DEF place
    <3> QED BY <3>1
  <2>2. ASSUME NEW k \in 1 .. Cardinality(K) PROVE InOrder(K)[k] \in K
    <3>1. InOrder(K)[k] = CHOOSE i \in K : Cardinality({j \in K : j < i}) = k - 1
      BY Zenon DEF InOrder
    <3> QED BY <3>1, <1>4, Zenon
  <2> QED BY <2>1, <2>2
<1> QED BY <1>5, <1>6
-----------------------------------------------------------------------------
(* The audit: classification. *)

Statuses == {"present", "present-unplayable", "present-duplicate-profile",
             "present-wrong-profile", "missing", "review"}
Reasons == {None, "TAKEDOWN_OR_REMOVAL", "PROCESSING_DELAY", "DUPLICATE_ARTIST_PROFILE",
            "WRONG_ARTIST_PROFILE", "MISSING_ON_PLATFORM", "UNKNOWN_NEEDS_REVIEW"}
Scores == {x \in Int : IsScore(x)}
ScoredVerdicts == [status : Statuses, reason : Reasons, score : Scores]

\* The uploads the run has listed, as the matcher sees them.
ListedItems == {NormalizedItem(audit.listed[j]) : j \in DOMAIN audit.listed}

LEMMA VerdictIsScored ==
    ASSUME NEW status \in Statuses, NEW reason \in Reasons, NEW score, IsScore(score)
    PROVE  /\ Verdict(status, reason, score) \in ScoredVerdicts
           /\ Verdict(status, reason, score).status = status
<1>1. score \in Scores
  BY DEF Scores, IsScore
<1> QED BY <1>1 DEF Verdict, ScoredVerdicts

(* A verdict is well-formed, and a track is missing only when nothing listed *)
(* is its recording by its artists.                                          *)
LEMMA ClassifySound ==
    ASSUME NEW row \in RawRows, audit.listed \in Seq(RawUploads)
    PROVE  /\ Classify(row) \in ScoredVerdicts
           /\ Classify(row).status = "missing" => NotAmong(NormalizedItem(row), ListedItems)
<1>1. ASSUME NEW upload, NEW score, IsScore(score)
      PROVE  /\ MatchedVerdict(upload, score) \in ScoredVerdicts
             /\ MatchedVerdict(upload, score).status # "missing"
  <2>1. \E status \in Statuses \ {"missing"} : \E reason \in Reasons :
          MatchedVerdict(upload, score) = Verdict(status, reason, score)
    BY DEF MatchedVerdict, Statuses, Reasons
  <2>2. PICK status \in Statuses \ {"missing"} : \E reason \in Reasons :
          MatchedVerdict(upload, score) = Verdict(status, reason, score)
    BY <2>1
  <2>3. PICK reason \in Reasons : MatchedVerdict(upload, score) = Verdict(status, reason, score)
    BY <2>2
  <2> QED BY <1>1, <2>3, VerdictIsScored
<1>2. UnmatchedVerdict(row) \in ScoredVerdicts
  <2>1. IsScore(950) /\ IsScore(600) /\ IsScore(850)
    BY DEF IsScore
  <2>2. PICK score : IsScore(score) /\ \E status \in Statuses : \E reason \in Reasons :
          UnmatchedVerdict(row) = Verdict(status, reason, score)
    BY <2>1 DEF UnmatchedVerdict, Statuses, Reasons
  <2>3. PICK status \in Statuses : \E reason \in Reasons :
          UnmatchedVerdict(row) = Verdict(status, reason, score)
    BY <2>2
  <2>4. PICK reason \in Reasons : UnmatchedVerdict(row) = Verdict(status, reason, score)
    BY <2>3
  <2> QED BY <2>2, <2>4, VerdictIsScored
<1>3. CASE audit.listed = <<>>
  <2>1. Classify(row) = UnmatchedVerdict(row)
    BY <1>3 DEF Classify
  <2>2. ListedItems = {}
    BY <1>3 DEF ListedItems
  <2> QED BY <2>1, <2>2, <1>2 DEF NotAmong
<1>4. CASE audit.listed # <<>>
  <2> PICK n : n = Len(audit.listed)
    OBVIOUS
  <2>1. n \in Nat \ {0} /\ DOMAIN audit.listed = 1 .. n
    BY <1>4
  <2> PICK items : items = [i \in DOMAIN audit.listed |-> NormalizedItem(audit.listed[i])]
    OBVIOUS
  <2> PICK subject : subject = NormalizedItem(row)
    OBVIOUS
  <2> PICK best : best = BestIndex(subject, items)
    OBVIOUS
  <2> PICK score : score = ScoreMatch(subject, items[best])
    OBVIOUS
  <2> PICK decision : decision = Decision(subject, items[best])
    OBVIOUS
  <2>2. ItemOK(subject)
    BY AuditAssumption, ItemsFinite
  <2>3. DOMAIN items = 1 .. n /\ \A i \in 1 .. n : ItemOK(items[i])
    <3>1. \A i \in 1 .. n : items[i] = NormalizedItem(audit.listed[i]) /\ audit.listed[i] \in RawUploads
      BY <2>1
    <3>2. \A i \in 1 .. n : CreditsFinite(audit.listed[i])
      BY <3>1, AuditAssumption
    <3>3. \A i \in 1 .. n : ItemOK(NormalizedItem(audit.listed[i]))
      BY <3>2, ItemsFinite
    <3> QED BY <2>1, <3>1, <3>3
  <2>4. best \in 1 .. n
    BY <2>1, <2>2, <2>3, BestIsBest
  <2>5. IsScore(score)
    <3>1. ItemOK(items[best])
      BY <2>3, <2>4
    <3> QED BY <2>2, <3>1, ScoreBounds
  <2>6. \A t : t \in ListedItems <=> \E i \in 1 .. n : t = items[i]
    BY <2>1 DEF ListedItems
  <2>7. Classify(row) =
          CASE decision = "matched"       -> MatchedVerdict(audit.listed[best], score)
            [] decision = "review"        -> Verdict("review", "UNKNOWN_NEEDS_REVIEW", score)
            [] decision = "wrong-profile" -> Verdict("review", "WRONG_ARTIST_PROFILE", score)
            [] OTHER                      -> UnmatchedVerdict(row)
    BY <1>4 DEF Classify
  <2>8. CASE decision = "matched"
    <3>1. Classify(row) = MatchedVerdict(audit.listed[best], score)
      BY <2>7, <2>8
    <3> QED BY <3>1, <2>5, <1>1
  <2>9. CASE decision \in {"review", "wrong-profile"}
    <3>1. PICK reason \in Reasons : Classify(row) = Verdict("review", reason, score)
      BY <2>7, <2>9 DEF Reasons
    <3>2. "review" \in Statuses /\ "review" # "missing"
      BY DEF Statuses
    <3> QED BY <3>1, <3>2, <2>5, VerdictIsScored
  <2>10. CASE decision \notin {"matched", "review", "wrong-profile"}
    <3>1. Classify(row) = UnmatchedVerdict(row)
      BY <2>7, <2>10
    <3>2. NotAmong(subject, ListedItems)
      <4>1. /\ Decision(subject, items[BestIndex(subject, items)]) # "matched"
            /\ Decision(subject, items[BestIndex(subject, items)]) # "review"
        BY <2>10
      <4>2. n \in Nat \ {0} /\ ItemOK(subject) /\ DOMAIN items = 1 .. n
        BY <2>1, <2>2, <2>3
      <4>3. \A i \in 1 .. n : ItemOK(items[i])
        BY <2>3
      <4>4. \/ \E i \in 1 .. n : UnderOtherName(subject, items[i])
            \/ \A i \in 1 .. n : OtherSong(subject, items[i])
        BY <4>1, <4>2, <4>3, UnmatchedIsAbsent, Zenon
      <4>5. CASE \E i \in 1 .. n : UnderOtherName(subject, items[i])
        <5>1. PICK i \in 1 .. n : UnderOtherName(subject, items[i])
          BY <4>5
        <5>2. items[i] \in ListedItems
          BY <2>6
        <5> QED BY <5>1, <5>2, Zenon DEF NotAmong
      <4>6. CASE \A i \in 1 .. n : OtherSong(subject, items[i])
        <5>1. ASSUME NEW t \in ListedItems PROVE OtherSong(subject, t)
          <6>1. PICK i \in 1 .. n : t = items[i]
            BY <2>6
          <6>2. OtherSong(subject, items[i])
            BY <4>6
          <6> QED BY <6>1, <6>2, Zenon
        <5> QED BY <5>1, Zenon DEF NotAmong
      <4> QED BY <4>4, <4>5, <4>6
    <3> QED BY <3>1, <3>2, <1>2
  <2> QED BY <2>8, <2>9, <2>10
<1> QED BY <1>3, <1>4
-----------------------------------------------------------------------------
(* The audit: its states. *)

AuditPcs == {"idle", "resolve", "list", "audit", "packet"}
AuditFields == {"pc", "no", "canonical", "listed", "complete", "classified", "issues",
                "packet", "stored"}

AuditShape ==
    /\ export \in [1 .. NRows -> RawRows] /\ uploads \in Seq(RawUploads)
    /\ DOMAIN audit = AuditFields /\ audit.pc \in AuditPcs /\ audit.no \in Nat
    /\ audit.listed \in Seq(RawUploads) /\ audit.classified \in Seq(ScoredVerdicts)
    /\ audit.packet \in Templates \cup {None} /\ audit.stored \in 0 .. Len(Formats)
    /\ DOMAIN library = {"tracks", "issues", "packets", "runs"}
    /\ DOMAIN library.packets = Templates
    /\ DOMAIN objects = Templates
    /\ \A t \in Templates : DOMAIN objects[t] = 1 .. Len(Formats)

(* What the run has classified so far is listed in order, and a missing      *)
(* track is in none of the uploads it listed.                                *)
AbsentSoFar ==
    /\ audit.pc \in {"idle", "resolve", "list"} => audit.classified = <<>>
    /\ Len(audit.classified) <= Len(Expected)
    /\ \A i \in 1 .. Len(audit.classified) : audit.classified[i].status = "missing" =>
         NotAmong(NormalizedItem(export[Expected[i]]), ListedItems)

\* Packet t and its artifacts hold exactly these rows.
Whole(t, rows) ==
    /\ library.packets[t] = rows
    /\ \A f \in 1 .. Len(Formats) : objects[t][f] = rows

(* A run in progress is later than every recorded one; the packets it has    *)
(* written are whole, the one it writes is so up to the last artifact.       *)
PacketsSoFar ==
    /\ \A r \in library.runs : r.no \in 1 .. audit.no
    /\ audit.pc # "idle" => audit.no # 0 /\ \A r \in library.runs : r.no < audit.no
    /\ audit.pc = "idle" => \A r \in library.runs :
         r.no = audit.no => \A t \in Templates : Whole(t, r.missing)
    /\ audit.pc # "packet" => audit.stored = 0
    /\ audit.pc = "packet" =>
         /\ audit.packet \in Templates
         /\ \A f \in 1 .. audit.stored : objects[audit.packet][f] = MissingRows
         /\ audit.packet = "audiomack-verify" => Whole("distrokid-missing-audiomack", MissingRows)

AuditInv == AuditShape /\ AbsentSoFar /\ PacketsSoFar

LEMMA SeqElements ==
    ASSUME NEW S, NEW q \in Seq(S)
    PROVE  Len(q) \in Nat /\ DOMAIN q = 1 .. Len(q) /\ \A k \in 1 .. Len(q) : q[k] \in S
<1> QED OBVIOUS

LEMMA SeqOfMore ==
    ASSUME NEW S, NEW T, S \in SUBSET T, NEW q \in Seq(S)
    PROVE  q \in Seq(T)
<1>1. Len(q) \in Nat /\ q = [k \in 1 .. Len(q) |-> q[k]] /\ \A k \in 1 .. Len(q) : q[k] \in T
  OBVIOUS
<1> QED BY <1>1

LEMMA ExpectedPlaces == ASSUME AuditShape PROVE Expected \in Seq(1 .. NRows)
<1> PICK K : K = {i \in DOMAIN export : OptedIn(export[i].rel)}
  OBVIOUS
<1>1. NRows \in Nat /\ DOMAIN export = 1 .. NRows
  BY AuditAssumption DEF AuditShape
<1>2. K \in SUBSET (1 .. NRows)
  BY <1>1
<1>3. InOrder(K) \in Seq(K)
  BY <1>1, <1>2, OrderPlaces
<1>4. Expected = InOrder(K)
  BY DEF Expected
<1> QED BY <1>2, <1>3, <1>4, SeqOfMore

LEMMA OnPageUploads == ASSUME AuditShape PROVE OnPage \in Seq(RawUploads)
<1> PICK n : n = Len(uploads)
  OBVIOUS
<1> PICK K : K = {i \in DOMAIN uploads : uploads[i].listed}
  OBVIOUS
<1> PICK places : places = InOrder(K)
  OBVIOUS
<1>1. n \in Nat /\ DOMAIN uploads = 1 .. n /\ \A i \in 1 .. n : uploads[i] \in RawUploads
  BY DEF AuditShape
<1>2. K \in SUBSET (1 .. n)
  BY <1>1
<1>3. places \in Seq(K)
  BY <1>1, <1>2, OrderPlaces
<1> PICK m : m = Len(places)
  OBVIOUS
<1>4. m \in Nat /\ DOMAIN places = 1 .. m /\ \A k \in 1 .. m : places[k] \in K
  BY <1>3, SeqElements, Zenon
<1>5. \A k \in 1 .. m : uploads[places[k]] \in RawUploads
  BY <1>1, <1>2, <1>4
<1>6. OnPage = [k \in 1 .. m |-> uploads[places[k]]]
  BY <1>4 DEF OnPage
<1>7. [k \in 1 .. m |-> uploads[places[k]]] \in [1 .. m -> RawUploads]
  BY <1>5
<1> QED BY <1>4, <1>6, <1>7

(* The tracks reported missing depend on the export and the verdicts alone.  *)
LEMMA RowsStay ==
    ASSUME export' = export
    PROVE  /\ Expected' = Expected
           /\ audit'.classified = audit.classified => MissingRows' = MissingRows
<1>1. Expected' = Expected
  BY DEF Expected, InOrder, OptedIn, FirstOf
<1>2. \A i : TrackId(i)' = TrackId(i)
  BY DEF TrackId
<1>3. ASSUME audit'.classified = audit.classified PROVE MissingRows' = MissingRows
  BY <1>1, <1>2, <1>3 DEF MissingRows
<1> QED BY <1>1, <1>3

LEMMA AuditInitInv == AuditInit => AuditInv
<1> SUFFICES ASSUME AuditInit PROVE AuditInv
  OBVIOUS
<1>1. AuditShape
  <2>1. export \in [1 .. NRows -> RawRows] /\ uploads \in Seq(RawUploads)
    <3>1. export \in [1 .. NRows -> RawRows] /\ uploads \in [1 .. NUploads -> RawUploads]
      BY DEF AuditInit
    <3>2. \A n \in Nat : [1 .. n -> RawUploads] \subseteq Seq(RawUploads)
      OBVIOUS
    <3>3. [1 .. NUploads -> RawUploads] \subseteq Seq(RawUploads)
      BY <3>2, AuditAssumption
    <3> QED BY <3>1, <3>3
  <2>2. /\ DOMAIN audit = AuditFields /\ audit.pc \in AuditPcs /\ audit.no \in Nat
        /\ audit.listed = <<>> /\ audit.classified = <<>>
        /\ audit.packet = None /\ audit.stored = 0
    BY DEF AuditInit, NoAudit, AuditPcs, AuditFields
  <2>3. Len(Formats) = 3
    BY DEF Formats
  <2>4. /\ DOMAIN library = {"tracks", "issues", "packets", "runs"}
        /\ DOMAIN library.packets = Templates
        /\ DOMAIN objects = Templates
        /\ \A t \in Templates : DOMAIN objects[t] = 1 .. Len(Formats)
    BY DEF AuditInit
  <2> QED BY <2>1, <2>2, <2>3, <2>4 DEF AuditShape
<1>2. AbsentSoFar
  <2>1. audit.classified = <<>>
    BY DEF AuditInit, NoAudit
  <2>2. Len(Expected) \in Nat
    BY <1>1, ExpectedPlaces
  <2> QED BY <2>1, <2>2 DEF AbsentSoFar
<1>3. PacketsSoFar
  BY DEF AuditInit, PacketsSoFar, NoAudit
<1> QED BY <1>1, <1>2, <1>3 DEF AuditInv
-----------------------------------------------------------------------------
(* The audit: its steps. *)

LEMMA AbsentAtFirst ==
    ASSUME AuditShape, export' = export, audit'.classified = <<>> PROVE AbsentSoFar'
<1>1. Expected' \in Seq(1 .. NRows)
  BY ExpectedPlaces, RowsStay
<1>2. Len(Expected)' \in Nat
  BY <1>1
<1> QED BY <1>2 DEF AbsentSoFar

LEMMA AbsentStays ==
    ASSUME AbsentSoFar, export' = export, audit'.listed = audit.listed,
           audit'.classified = audit.classified,
           audit'.pc \in {"idle", "resolve", "list"} => audit.classified = <<>>
    PROVE  AbsentSoFar'
<1>1. ListedItems' = ListedItems
  BY DEF ListedItems
<1>2. Expected' = Expected
  BY RowsStay
<1> QED BY <1>1, <1>2 DEF AbsentSoFar

LEMMA PacketsStay ==
    ASSUME PacketsSoFar, audit.pc \notin {"idle", "packet"}, audit'.pc \notin {"idle", "packet"},
           audit'.no = audit.no, audit'.stored = audit.stored, library'.runs = library.runs
    PROVE  PacketsSoFar'
<1> QED BY DEF PacketsSoFar

LEMMA OutsideStep ==
    ASSUME AuditInv, (\E i \in DOMAIN uploads : Withdraw(i)) \/ RevokeConsent \/ UNCHANGED auditVars
    PROVE  AuditInv'
<1>1. export' = export /\ audit' = audit /\ library' = library /\ objects' = objects
  BY DEF Withdraw, RevokeConsent, auditVars, auditState
<1>2. uploads' \in Seq(RawUploads)
  <2>1. CASE \E i \in DOMAIN uploads : Withdraw(i)
    <3>1. PICK i \in DOMAIN uploads : Withdraw(i)
      BY <2>1
    <3> PICK n : n = Len(uploads)
      OBVIOUS
    <3>2. n \in Nat /\ DOMAIN uploads = 1 .. n /\ \A j \in 1 .. n : uploads[j] \in RawUploads
      BY SeqElements DEF AuditInv, AuditShape
    <3>3. n - 1 \in Nat
      BY <3>2
    <3>4. uploads' = [j \in 1 .. n - 1 |-> IF j < i THEN uploads[j] ELSE uploads[j + 1]]
      BY <3>1 DEF Withdraw
    <3>5. \A j \in 1 .. n - 1 : (IF j < i THEN uploads[j] ELSE uploads[j + 1]) \in RawUploads
      <4> TAKE j \in 1 .. n - 1
      <4>1. j \in 1 .. n /\ j + 1 \in 1 .. n
        BY <3>2
      <4> QED BY <4>1, <3>2
    <3>6. uploads' \in [1 .. n - 1 -> RawUploads]
      BY <3>4, <3>5
    <3> QED BY <3>3, <3>6
  <2>2. CASE RevokeConsent \/ UNCHANGED auditVars
    BY <2>2 DEF RevokeConsent, auditVars, auditState, AuditInv, AuditShape
  <2> QED BY <2>1, <2>2
<1>3. AuditShape'
  BY <1>1, <1>2 DEF AuditInv, AuditShape
<1>4. AbsentSoFar'
  BY <1>1, AbsentStays DEF AuditInv, AbsentSoFar
<1>5. PacketsSoFar'
  <2>1. MissingRows' = MissingRows
    BY <1>1, RowsStay
  <2> QED BY <1>1, <2>1 DEF AuditInv, PacketsSoFar, Whole
<1> QED BY <1>3, <1>4, <1>5 DEF AuditInv

LEMMA StartAuditStep == ASSUME AuditInv, StartAudit PROVE AuditInv'
<1>1. /\ export' = export /\ uploads' = uploads /\ objects' = objects
      /\ DOMAIN audit' = AuditFields /\ audit'.pc = "resolve" /\ audit'.no = audit.no + 1
      /\ audit'.listed = <<>> /\ audit'.classified = <<>>
      /\ audit'.packet = None /\ audit'.stored = 0
      /\ audit.pc = "idle"
  BY DEF StartAudit, NoAudit, AuditFields
<1>2. /\ DOMAIN library' = DOMAIN library
      /\ library'.packets = library.packets /\ library'.runs = library.runs
  BY DEF StartAudit, AuditInv, AuditShape
<1>3. AuditShape'
  <2>1. audit'.no \in Nat /\ audit'.pc \in AuditPcs /\ audit'.stored \in 0 .. Len(Formats)
    BY <1>1 DEF AuditInv, AuditShape, AuditPcs, Formats
  <2> QED BY <1>1, <1>2, <2>1 DEF AuditInv, AuditShape
<1>4. AbsentSoFar'
  BY <1>1, AbsentAtFirst DEF AuditInv
<1>5. PacketsSoFar'
  <2>1. \A r \in library.runs : r.no \in 1 .. audit.no
    BY DEF AuditInv, PacketsSoFar
  <2>2. audit.no \in Nat
    BY DEF AuditInv, AuditShape
  <2>3. \A r \in library'.runs : r.no \in 1 .. audit'.no /\ r.no < audit'.no
    BY <1>1, <1>2, <2>1, <2>2
  <2> QED BY <1>1, <2>2, <2>3 DEF PacketsSoFar
<1> QED BY <1>3, <1>4, <1>5 DEF AuditInv

LEMMA ResolveStep == ASSUME AuditInv, ResolveProfile PROVE AuditInv'
<1>1. /\ export' = export /\ uploads' = uploads /\ objects' = objects /\ library' = library
      /\ DOMAIN audit' = DOMAIN audit /\ audit.pc = "resolve" /\ audit'.pc = "list"
      /\ audit'.no = audit.no /\ audit'.listed = audit.listed
      /\ audit'.classified = audit.classified
      /\ audit'.packet = audit.packet /\ audit'.stored = audit.stored
  BY DEF ResolveProfile, AuditInv, AuditShape, AuditFields
<1>2. AuditShape'
  BY <1>1 DEF AuditInv, AuditShape, AuditPcs
<1>3. AbsentSoFar'
  BY <1>1, AbsentStays DEF AuditInv, AbsentSoFar
<1>4. PacketsSoFar'
  BY <1>1, PacketsStay DEF AuditInv
<1> QED BY <1>2, <1>3, <1>4 DEF AuditInv

LEMMA ListStep == ASSUME AuditInv, ListUploads PROVE AuditInv'
<1>1. /\ export' = export /\ uploads' = uploads /\ objects' = objects /\ library' = library
      /\ DOMAIN audit' = DOMAIN audit /\ audit.pc = "list" /\ audit'.pc = "audit"
      /\ audit'.no = audit.no /\ audit'.classified = audit.classified
      /\ audit'.packet = audit.packet /\ audit'.stored = audit.stored
  BY DEF ListUploads, AuditInv, AuditShape, AuditFields
<1>2. audit'.listed \in Seq(RawUploads)
  <2>1. CASE audit.canonical = None
    <3>1. audit'.listed = audit.listed
      BY <2>1 DEF ListUploads, AuditInv, AuditShape, AuditFields
    <3> QED BY <3>1 DEF AuditInv, AuditShape
  <2>2. CASE audit.canonical # None
    <3>1. PICK n \in 0 .. Len(OnPage) : audit'.listed = SubSeq(OnPage, 1, n)
      BY <2>2 DEF ListUploads, AuditInv, AuditShape, AuditFields
    <3>2. OnPage \in Seq(RawUploads)
      BY OnPageUploads DEF AuditInv
    <3> HIDE DEF OnPage
    <3>3. n \in Nat /\ \A k \in 1 .. n : OnPage[k] \in RawUploads
      BY <3>1, <3>2, SeqElements
    <3>4. SubSeq(OnPage, 1, n) = [k \in 1 .. n |-> OnPage[k]]
      BY <3>2, <3>3
    <3>5. [k \in 1 .. n |-> OnPage[k]] \in [1 .. n -> RawUploads]
      BY <3>3
    <3> QED BY <3>1, <3>3, <3>4, <3>5
  <2> QED BY <2>1, <2>2
<1>3. AuditShape'
  BY <1>1, <1>2 DEF AuditInv, AuditShape, AuditPcs
<1>4. AbsentSoFar'
  BY <1>1, AbsentAtFirst DEF AuditInv, AbsentSoFar
<1>5. PacketsSoFar'
  BY <1>1, PacketsStay DEF AuditInv
<1> QED BY <1>3, <1>4, <1>5 DEF AuditInv

LEMMA ClassifyStep == ASSUME AuditInv, ClassifyNext PROVE AuditInv'
<1> PICK n : n = Len(audit.classified)
  OBVIOUS
<1> PICK i : i = Expected[n + 1]
  OBVIOUS
<1> PICK judged : judged = Classify(export[i])
  OBVIOUS
<1>1. /\ export' = export /\ uploads' = uploads /\ objects' = objects /\ library' = library
      /\ DOMAIN audit' = DOMAIN audit /\ audit.pc = "audit" /\ audit'.pc = "audit"
      /\ audit'.no = audit.no /\ audit'.listed = audit.listed
      /\ audit'.packet = audit.packet /\ audit'.stored = audit.stored
  BY DEF ClassifyNext, AuditInv, AuditShape, AuditFields
<1>2. n < Len(Expected) /\ audit'.classified = Append(audit.classified, judged)
  BY DEF ClassifyNext, AuditInv, AuditShape, AuditFields
<1>3. /\ n \in Nat /\ audit.classified \in Seq(ScoredVerdicts)
      /\ Len(Expected) \in Nat /\ \A k \in 1 .. Len(Expected) : Expected[k] \in 1 .. NRows
  <2>1. Expected \in Seq(1 .. NRows)
    BY ExpectedPlaces DEF AuditInv
  <2> QED BY <2>1, SeqElements DEF AuditInv, AuditShape
<1>4. export[i] \in RawRows
  <2>1. n + 1 \in 1 .. Len(Expected)
    BY <1>2, <1>3
  <2>2. i \in 1 .. NRows
    BY <2>1, <1>3
  <2> QED BY <2>2 DEF AuditInv, AuditShape
<1>5. /\ judged \in ScoredVerdicts
      /\ judged.status = "missing" => NotAmong(NormalizedItem(export[i]), ListedItems)
  BY <1>4, ClassifySound DEF AuditInv, AuditShape
<1>6. /\ audit'.classified \in Seq(ScoredVerdicts) /\ Len(audit'.classified) = n + 1
      /\ audit'.classified[n + 1] = judged
      /\ \A k \in 1 .. n : audit'.classified[k] = audit.classified[k]
  BY <1>2, <1>3, <1>5
<1>7. AuditShape'
  BY <1>1, <1>6 DEF AuditInv, AuditShape, AuditPcs
<1>8. AbsentSoFar'
  <2>1. Expected' = Expected /\ ListedItems' = ListedItems
    BY <1>1, RowsStay DEF ListedItems
  <2>2. Len(audit'.classified) <= Len(Expected')
    BY <2>1, <1>2, <1>3, <1>6
  <2>3. ASSUME NEW k \in 1 .. n + 1, audit'.classified[k].status = "missing"
        PROVE  NotAmong(NormalizedItem(export[Expected[k]]), ListedItems)
    <3>1. CASE k = n + 1
      BY <3>1, <2>3, <1>5, <1>6
    <3>2. CASE k # n + 1
      <4>1. k \in 1 .. n
        BY <3>2, <1>3
      <4>2. audit.classified[k].status = "missing"
        BY <4>1, <2>3, <1>6
      <4> QED BY <4>1, <4>2 DEF AuditInv, AbsentSoFar
    <3> QED BY <3>1, <3>2
  <2> QED BY <1>1, <1>6, <2>1, <2>2, <2>3 DEF AbsentSoFar
<1>9. PacketsSoFar'
  BY <1>1, PacketsStay DEF AuditInv
<1> QED BY <1>7, <1>8, <1>9 DEF AuditInv

LEMMA PutIssuesStep == ASSUME AuditInv, PutIssues PROVE AuditInv'
<1>1. /\ export' = export /\ uploads' = uploads /\ objects' = objects
      /\ DOMAIN audit' = DOMAIN audit /\ audit.pc = "audit" /\ audit'.pc = "packet"
      /\ audit'.no = audit.no /\ audit'.listed = audit.listed
      /\ audit'.classified = audit.classified
      /\ audit'.packet = "distrokid-missing-audiomack" /\ audit'.stored = audit.stored
  BY DEF PutIssues, AuditInv, AuditShape, AuditFields
<1>2. /\ DOMAIN library' = DOMAIN library
      /\ library'.packets = library.packets /\ library'.runs = library.runs
  BY DEF PutIssues, AuditInv, AuditShape
<1>3. AuditShape'
  BY <1>1, <1>2 DEF AuditInv, AuditShape, AuditPcs, Templates
<1>4. AbsentSoFar'
  BY <1>1, AbsentStays DEF AuditInv, AbsentSoFar
<1>5. PacketsSoFar'
  <2>1. audit.stored = 0 /\ "distrokid-missing-audiomack" \in Templates
    BY <1>1 DEF AuditInv, PacketsSoFar, Templates
  <2> QED BY <1>1, <1>2, <2>1 DEF AuditInv, PacketsSoFar
<1> QED BY <1>3, <1>4, <1>5 DEF AuditInv

LEMMA PutArtifactStep == ASSUME AuditInv, PutArtifact PROVE AuditInv'
<1> PICK t : t = audit.packet
  OBVIOUS
<1> PICK k : k = audit.stored
  OBVIOUS
<1>1. /\ export' = export /\ uploads' = uploads /\ library' = library
      /\ DOMAIN audit' = DOMAIN audit /\ audit.pc = "packet" /\ audit'.pc = "packet"
      /\ audit'.no = audit.no /\ audit'.listed = audit.listed
      /\ audit'.classified = audit.classified
      /\ audit'.packet = t /\ audit'.stored = k + 1 /\ k < Len(Formats)
      /\ objects' = [objects EXCEPT ![t][k + 1] = MissingRows]
  BY DEF PutArtifact, AuditInv, AuditShape, AuditFields
<1>2. /\ t \in Templates /\ k \in 0 .. Len(Formats) /\ Len(Formats) = 3
      /\ k + 1 \in 1 .. Len(Formats)
  BY <1>1 DEF AuditInv, AuditShape, PacketsSoFar, Formats
<1>3. /\ DOMAIN objects' = Templates
      /\ \A u \in Templates : DOMAIN objects'[u] = 1 .. Len(Formats)
      /\ objects'[t][k + 1] = MissingRows
      /\ \A f \in 1 .. k : objects'[t][f] = objects[t][f]
      /\ \A u \in Templates : u # t => objects'[u] = objects[u]
  BY <1>1, <1>2 DEF AuditInv, AuditShape
<1>4. AuditShape'
  BY <1>1, <1>2, <1>3 DEF AuditInv, AuditShape
<1>5. AbsentSoFar'
  BY <1>1, AbsentStays DEF AuditInv, AbsentSoFar
<1>6. PacketsSoFar'
  <2>1. MissingRows' = MissingRows
    BY <1>1, RowsStay
  <2>2. \A f \in 1 .. k : objects[t][f] = MissingRows
    BY <1>1 DEF AuditInv, PacketsSoFar
  <2>3. \A f \in 1 .. k + 1 : objects'[t][f] = MissingRows
    BY <2>2, <1>2, <1>3
  <2>4. t = "audiomack-verify" => Whole("distrokid-missing-audiomack", MissingRows)'
    <3>1. SUFFICES ASSUME t = "audiomack-verify"
                   PROVE  Whole("distrokid-missing-audiomack", MissingRows)'
      OBVIOUS
    <3>2. Whole("distrokid-missing-audiomack", MissingRows)
      BY <3>1, <1>1 DEF AuditInv, PacketsSoFar
    <3>3. "distrokid-missing-audiomack" \in Templates /\ "distrokid-missing-audiomack" # t
      BY <3>1 DEF Templates
    <3> QED BY <3>2, <3>3, <2>1, <1>1, <1>3 DEF Whole
  <2> QED BY <1>1, <1>2, <2>1, <2>3, <2>4 DEF AuditInv, PacketsSoFar
<1> QED BY <1>4, <1>5, <1>6 DEF AuditInv

LEMMA PutPacketStep == ASSUME AuditInv, PutPacket PROVE AuditInv'
<1> PICK t : t = audit.packet
  OBVIOUS
<1>1. /\ export' = export /\ uploads' = uploads /\ objects' = objects
      /\ audit.pc = "packet" /\ audit.stored = Len(Formats) /\ t \in Templates
      /\ DOMAIN library' = DOMAIN library
      /\ library'.packets = [library.packets EXCEPT ![t] = MissingRows]
  BY DEF PutPacket, ArtifactsStored, AuditInv, AuditShape, PacketsSoFar
<1>2. /\ DOMAIN library'.packets = Templates /\ library'.packets[t] = MissingRows
      /\ \A u \in Templates : u # t => library'.packets[u] = library.packets[u]
  BY <1>1 DEF AuditInv, AuditShape
<1>4. CASE t = "distrokid-missing-audiomack"
  <2>1. /\ DOMAIN audit' = DOMAIN audit /\ audit'.pc = "packet" /\ audit'.no = audit.no
        /\ audit'.listed = audit.listed /\ audit'.classified = audit.classified
        /\ audit'.packet = "audiomack-verify" /\ audit'.stored = 0
        /\ library'.runs = library.runs
    BY <1>4 DEF PutPacket, AuditInv, AuditShape, AuditFields
  <2>2. AuditShape'
    BY <1>1, <1>2, <2>1 DEF AuditInv, AuditShape, Templates, Formats
  <2>3. AbsentSoFar'
    BY <1>1, <2>1, AbsentStays DEF AuditInv, AbsentSoFar
  <2>4. PacketsSoFar'
    <3>1. MissingRows' = MissingRows
      BY <1>1, <2>1, RowsStay
    <3>2. \A f \in 1 .. Len(Formats) : objects[t][f] = MissingRows
      BY <1>1 DEF AuditInv, PacketsSoFar
    <3>3. Whole("distrokid-missing-audiomack", MissingRows)'
      BY <1>1, <1>2, <1>4, <3>1, <3>2 DEF Whole
    <3>4. "audiomack-verify" \in Templates
      BY DEF Templates
    <3> QED BY <1>1, <2>1, <3>3, <3>4 DEF AuditInv, PacketsSoFar
  <2> QED BY <2>2, <2>3, <2>4 DEF AuditInv
<1>5. CASE t = "audiomack-verify"
  <2>1. /\ DOMAIN audit' = AuditFields /\ audit'.pc = "idle" /\ audit'.no = audit.no
        /\ audit'.listed = <<>> /\ audit'.classified = <<>>
        /\ audit'.packet = None /\ audit'.stored = 0
    BY <1>5 DEF PutPacket, NoAudit, AuditFields
  <2>2. library'.runs = library.runs \cup {ScanRun}
    BY <1>5 DEF PutPacket, AuditInv, AuditShape
  <2>3. ScanRun.no = audit.no /\ ScanRun.missing = MissingRows
    BY DEF ScanRun
  <2>4. AuditShape'
    BY <1>1, <1>2, <2>1 DEF AuditInv, AuditShape, AuditPcs, Formats
  <2>5. AbsentSoFar'
    BY <1>1, <2>1, AbsentAtFirst DEF AuditInv
  <2>6. \A u \in Templates : library'.packets[u] = MissingRows
                             /\ \A f \in 1 .. Len(Formats) : objects'[u][f] = MissingRows
    <3>1. \A f \in 1 .. Len(Formats) : objects[t][f] = MissingRows
      BY <1>1 DEF AuditInv, PacketsSoFar
    <3>2. Whole("distrokid-missing-audiomack", MissingRows)
      BY <1>1, <1>5 DEF AuditInv, PacketsSoFar
    <3>3. Templates = {t, "distrokid-missing-audiomack"}
      BY <1>5 DEF Templates
    <3> QED BY <1>1, <1>2, <3>1, <3>2, <3>3 DEF Whole
  <2>7. audit.no \in Nat /\ \A r \in library.runs : r.no \in 1 .. audit.no /\ r.no < audit.no
    BY <1>1 DEF AuditInv, AuditShape, PacketsSoFar
  <2>8. audit.no # 0 /\ audit.no \in 1 .. audit.no
    <3>1. audit.no # 0
      BY <1>1 DEF AuditInv, PacketsSoFar
    <3> QED BY <3>1, <2>7
  <2>9. PacketsSoFar'
    <3>1. \A r \in library'.runs : r.no \in 1 .. audit'.no
      BY <2>1, <2>2, <2>3, <2>7, <2>8
    <3>2. \A r \in library'.runs : r.no = audit'.no => r.missing = MissingRows
      BY <2>1, <2>2, <2>3, <2>7
    <3> QED BY <2>1, <2>6, <3>1, <3>2 DEF PacketsSoFar, Whole
  <2> QED BY <2>4, <2>5, <2>9 DEF AuditInv
<1> QED BY <1>1, <1>4, <1>5 DEF Templates

LEMMA AuditFailsStep == ASSUME AuditInv, AuditFails PROVE AuditInv'
<1>1. /\ export' = export /\ uploads' = uploads /\ objects' = objects /\ library' = library
      /\ DOMAIN audit' = AuditFields /\ audit'.pc = "idle" /\ audit'.no = audit.no
      /\ audit'.listed = <<>> /\ audit'.classified = <<>>
      /\ audit'.packet = None /\ audit'.stored = 0
      /\ audit.pc # "idle"
  BY DEF AuditFails, NoAudit, AuditFields
<1>2. AuditShape'
  BY <1>1 DEF AuditInv, AuditShape, AuditPcs, Formats
<1>3. AbsentSoFar'
  BY <1>1, AbsentAtFirst DEF AuditInv
<1>4. PacketsSoFar'
  <2>1. audit.no \in Nat /\ \A r \in library.runs : r.no \in 1 .. audit.no /\ r.no < audit.no
    BY <1>1 DEF AuditInv, AuditShape, PacketsSoFar
  <2>2. \A r \in library'.runs : r.no \in 1 .. audit'.no /\ r.no # audit'.no
    BY <1>1, <2>1
  <2> QED BY <1>1, <2>2 DEF PacketsSoFar
<1> QED BY <1>2, <1>3, <1>4 DEF AuditInv

LEMMA AuditStepInv == AuditInv /\ [AuditNext]_auditVars => AuditInv'
<1> SUFFICES ASSUME AuditInv, [AuditNext]_auditVars PROVE AuditInv'
  OBVIOUS
<1> QED BY OutsideStep, StartAuditStep, ResolveStep, ListStep, ClassifyStep, PutIssuesStep,
           PutArtifactStep, PutPacketStep, AuditFailsStep DEF AuditNext

LEMMA AuditInvImplies == AuditInv => AuditTypeOK /\ AuditSound
<1> SUFFICES ASSUME AuditInv PROVE AuditTypeOK /\ AuditSound
  OBVIOUS
<1>1. /\ DOMAIN audit.classified = 1 .. Len(audit.classified)
      /\ \A i \in 1 .. Len(audit.classified) : audit.classified[i] \in ScoredVerdicts
  BY SeqElements DEF AuditInv, AuditShape
<1>2. AuditTypeOK
  <2>1. \A x : IsScore(x) => x \in 0 .. 1000
    BY SMT DEF IsScore
  <2>2. \A i \in DOMAIN audit.classified : IsScore(audit.classified[i].score)
    BY <1>1 DEF ScoredVerdicts, Scores
  <2>3. \A i \in DOMAIN audit.classified : audit.classified[i].score \in 0 .. 1000
    BY <2>1, <2>2, Zenon
  <2>4. /\ audit.pc \in AuditPcs /\ audit.stored \in 0 .. Len(Formats)
        /\ audit.packet \in Templates \cup {None}
        /\ \A r \in library.runs : r.no \in 1 .. audit.no
    BY DEF AuditInv, AuditShape, PacketsSoFar
  <2> QED BY <2>3, <2>4, Zenon DEF AuditTypeOK, AuditPcs
<1>3. MissingIsAbsent
  <2>1. ASSUME NEW i \in DOMAIN audit.classified, audit.classified[i].status = "missing"
        PROVE  NotAmong(NormalizedItem(export[Expected[i]]), ListedItems)
    BY <2>1, <1>1 DEF AuditInv, AbsentSoFar
  <2> QED BY <2>1, Zenon DEF MissingIsAbsent, NotAmong, ListedItems, UnderOtherName, OtherSong
<1>4. RunsLeaveWholePackets
  BY DEF AuditInv, PacketsSoFar, RunsLeaveWholePackets, Whole
<1> QED BY <1>2, <1>3, <1>4 DEF AuditSound

(* Whatever the export and the store hold, wherever the runs die and         *)
(* whatever leaves the store meanwhile: a track reported missing has no      *)
(* listed upload that is its recording by its artists, and a recorded run    *)
(* has left both packets whole.                                              *)
THEOREM AuditPromises == AuditSpec => [](AuditTypeOK /\ AuditSound)
<1>1. AuditSpec => []AuditInv
  BY AuditInitInv, AuditStepInv, PTL DEF AuditSpec
<1> QED BY <1>1, AuditInvImplies, PTL

-----------------------------------------------------------------------------
(* The read-only guard: sequences without some of their elements. *)

\* Induction over an initial part of the naturals, on the set where it holds.
LEMMA UpTo ==
  ASSUME NEW n \in Nat, NEW T, 0 \in T, \A k \in 0 .. n : k < n /\ k \in T => k + 1 \in T
  PROVE  \A k \in 0 .. n : k \in T
<1>1. SUFFICES ASSUME NEW k \in 0 .. n, k \notin T PROVE FALSE
  OBVIOUS
<1> DEFINE bad == {j \in Nat : j <= n /\ j \notin T}
<1>2. k \in bad /\ bad \subseteq Nat
  BY <1>1
<1>3. PICK m \in bad : \A j \in bad : m <= j
  <2> HIDE DEF bad
  <2> QED BY <1>2, LeastNumber
<1>4. m \in Nat /\ m # 0 /\ m <= n /\ m \notin T
  OBVIOUS
<1>5. m - 1 \in Nat /\ m - 1 \notin bad
  <2>1. m - 1 \in Nat /\ m - 1 < m
    BY <1>4
  <2> HIDE DEF bad
  <2> QED BY <2>1, <1>3, <1>4
<1>6. m - 1 \in T
  BY <1>4, <1>5
<1>7. m - 1 \in 0 .. n /\ m - 1 < n /\ (m - 1) + 1 = m
  BY <1>4
<1> QED BY <1>4, <1>6, <1>7

Dropping(seq, S, n, f) ==
  f = [k \in 0 .. n |-> IF k = 0 THEN <<>> ELSE IF seq[k] \in S THEN f[k - 1] ELSE Append(f[k - 1], seq[k])]

LEMMA DroppingExists ==
  ASSUME NEW seq, NEW S, NEW n \in Nat
  PROVE  \E f : Dropping(seq, S, n, f)
<1> DEFINE T == {m \in Nat : \E f : Dropping(seq, S, m, f)}
<1>1. 0 \in T
  <2> DEFINE f == [k \in 0 .. 0 |-> <<>>]
  <2>1. Dropping(seq, S, 0, f)
    BY DEF Dropping
  <2> QED BY <2>1
<1>2. ASSUME NEW m \in 0 .. n, m \in T PROVE m + 1 \in T
  <2>1. PICK g : Dropping(seq, S, m, g)
    BY <1>2
  <2> DEFINE f == [k \in 0 .. m + 1 |->
                     IF k <= m THEN g[k]
                     ELSE IF seq[k] \in S THEN g[k - 1] ELSE Append(g[k - 1], seq[k])]
  <2>2. \A k \in 0 .. m + 1 :
          f[k] = IF k = 0 THEN <<>> ELSE IF seq[k] \in S THEN f[k - 1] ELSE Append(f[k - 1], seq[k])
    <3> TAKE k \in 0 .. m + 1
    <3>1. CASE k = 0
      <4>1. g[0] = <<>> /\ f[0] = g[0]
        BY <2>1 DEF Dropping
      <4> QED BY <3>1, <4>1
    <3>2. CASE k # 0 /\ k <= m
      <4>1. f[k] = g[k] /\ f[k - 1] = g[k - 1]
        BY <3>2
      <4>2. g[k] = IF seq[k] \in S THEN g[k - 1] ELSE Append(g[k - 1], seq[k])
        <5>1. k \in 0 .. m
          BY <3>2
        <5> HIDE DEF f
        <5> QED BY <2>1, <3>2, <5>1 DEF Dropping
      <4> QED BY <3>2, <4>1, <4>2
    <3>3. CASE k = m + 1
      <4>1. f[k - 1] = g[k - 1] /\ f[k] = IF seq[k] \in S THEN g[k - 1] ELSE Append(g[k - 1], seq[k])
        BY <3>3
      <4>2. k # 0
        BY <3>3
      <4> HIDE DEF f
      <4> QED BY <4>1, <4>2
    <3> QED BY <3>1, <3>2, <3>3
  <2>3. f = [k \in 0 .. m + 1 |-> f[k]]
    OBVIOUS
  <2> HIDE DEF f
  <2>4. Dropping(seq, S, m + 1, f)
    BY <2>2, <2>3 DEF Dropping
  <2> QED BY <2>4
<1> HIDE DEF T
<1>3. \A m \in 0 .. n : m \in T
  BY <1>1, <1>2, UpTo
<1> QED BY <1>3 DEF T

\* So Without goes through the sequence, element by element.
KeptBy(seq, S, f) ==
  /\ f[0] = <<>> /\ Without(seq, S) = f[Len(seq)]
  /\ \A k \in 1 .. Len(seq) : f[k] = IF seq[k] \in S THEN f[k - 1] ELSE Append(f[k - 1], seq[k])

LEMMA WithoutSteps ==
  ASSUME NEW R, NEW seq \in Seq(R), NEW S
  PROVE  \E f \in [0 .. Len(seq) -> Seq(R)] : KeptBy(seq, S, f)
<1> DEFINE n == Len(seq)
           trimmed == CHOOSE f : Dropping(seq, S, n, f)
<1>1. n \in Nat /\ \A k \in 1 .. n : seq[k] \in R
  OBVIOUS
<1>2. Dropping(seq, S, n, trimmed)
  BY <1>1, DroppingExists
<1>3. Without(seq, S) = trimmed[n]
  BY DEF Without, Dropping
<1> HIDE DEF trimmed, n
<1>4. \A k \in 0 .. n : trimmed[k] = IF k = 0 THEN <<>> ELSE IF seq[k] \in S THEN trimmed[k - 1] ELSE Append(trimmed[k - 1], seq[k])
  BY <1>2 DEF Dropping
<1> DEFINE T == {k \in Nat : trimmed[k] \in Seq(R)}
<1>5. 0 \in T
  <2>1. 0 \in 0 .. n /\ <<>> \in Seq(R)
    BY <1>1
  <2>2. trimmed[0] = <<>>
    BY <1>4, <2>1, Zenon
  <2> QED BY <2>1, <2>2
<1>6. ASSUME NEW k \in 0 .. n, k < n, k \in T PROVE k + 1 \in T
  <2>1. k + 1 \in 0 .. n /\ k + 1 \in 1 .. n /\ k + 1 # 0 /\ (k + 1) - 1 = k
    BY <1>1, <1>6
  <2>2. trimmed[k + 1] = IF seq[k + 1] \in S THEN trimmed[k] ELSE Append(trimmed[k], seq[k + 1])
    BY <1>4, <2>1
  <2>3. trimmed[k] \in Seq(R) /\ seq[k + 1] \in R
    BY <1>1, <1>6, <2>1
  <2>4. Append(trimmed[k], seq[k + 1]) \in Seq(R)
    BY <2>3
  <2>5. trimmed[k + 1] \in Seq(R)
    BY <2>2, <2>3, <2>4, Zenon
  <2> QED BY <2>1, <2>5
<1>7. \A k \in 0 .. n : k \in T
  <2> HIDE DEF T
  <2> QED BY <1>1, <1>5, <1>6, UpTo
<1>8. trimmed = [k \in 0 .. n |-> trimmed[k]]
  BY <1>2 DEF Dropping
<1>9. trimmed \in [0 .. n -> Seq(R)]
  BY <1>7, <1>8
<1>10. trimmed[0] = <<>> /\ \A k \in 1 .. n : trimmed[k] = IF seq[k] \in S THEN trimmed[k - 1] ELSE Append(trimmed[k - 1], seq[k])
  <2>1. \A k \in 1 .. n : k \in 0 .. n /\ k # 0
    BY <1>1
  <2> QED BY <1>1, <1>4, <2>1
<1>11. trimmed[0] = <<>> /\ Without(seq, S) = trimmed[n]
  BY <1>3, <1>10
<1> QED BY <1>9, <1>10, <1>11, Zenon DEF n, KeptBy

LEMMA WithoutTyped == ASSUME NEW R, NEW seq \in Seq(R), NEW S PROVE Without(seq, S) \in Seq(R)
<1>1. Len(seq) \in 0 .. Len(seq)
  OBVIOUS
<1>2. PICK f \in [0 .. Len(seq) -> Seq(R)] : KeptBy(seq, S, f)
  BY WithoutSteps, Zenon
<1>3. Without(seq, S) = f[Len(seq)]
  BY <1>2, Zenon DEF KeptBy
<1> QED BY <1>1, <1>3, Zenon

\* An element added behind two sequences is added to the second.
Reassociates(a, b, x) == Append(a \o b, x) = a \o Append(b, x)

LEMMA AppendConcat ==
  ASSUME NEW R, NEW a \in Seq(R), NEW b \in Seq(R), NEW x \in R
  PROVE  Reassociates(a, b, x)
<1> DEFINE l == Append(a \o b, x)
           r == a \o Append(b, x)
<1>1. l \in Seq(R) /\ r \in Seq(R) /\ Len(l) = Len(a) + Len(b) + 1 /\ Len(r) = Len(l)
  OBVIOUS
<1>2. \A i \in 1 .. Len(a) + Len(b) + 1 : l[i] = r[i]
  OBVIOUS
<1> HIDE DEF l, r
<1>3. l = r
  BY <1>1, <1>2
<1> QED BY <1>3 DEF l, r, Reassociates

(* Two sequences after one another are gone through one after the other. *)
Splits(s, t, S) == Without(s \o t, S) = Without(s, S) \o Without(t, S)

LEMMA WithoutConcat ==
  ASSUME NEW R, NEW s \in Seq(R), NEW t \in Seq(R), NEW S
  PROVE  Splits(s, t, S)
<1> DEFINE st == s \o t
           m == Len(s)
           n == Len(t)
<1>1. st \in Seq(R) /\ Len(st) = m + n /\ m \in Nat /\ n \in Nat
  OBVIOUS
<1>2. (\A i \in 1 .. m : st[i] = s[i]) /\ (\A i \in 1 .. n : st[m + i] = t[i] /\ t[i] \in R)
  OBVIOUS
<1> HIDE DEF st
<1>a. PICK f \in [0 .. m -> Seq(R)] : KeptBy(s, S, f)
  BY WithoutSteps, Zenon
<1>3. /\ f[0] = <<>> /\ Without(s, S) = f[m]
      /\ \A k \in 1 .. m : f[k] = IF s[k] \in S THEN f[k - 1] ELSE Append(f[k - 1], s[k])
  BY <1>a, Zenon DEF KeptBy
<1>b. PICK g \in [0 .. n -> Seq(R)] : KeptBy(t, S, g)
  BY WithoutSteps, Zenon
<1>4. /\ g[0] = <<>> /\ Without(t, S) = g[n]
      /\ \A k \in 1 .. n : g[k] = IF t[k] \in S THEN g[k - 1] ELSE Append(g[k - 1], t[k])
  BY <1>b, Zenon DEF KeptBy
<1>c. PICK h \in [0 .. Len(st) -> Seq(R)] : KeptBy(st, S, h)
  BY <1>1, WithoutSteps, Zenon
<1>5. /\ h[0] = <<>> /\ Without(st, S) = h[Len(st)]
      /\ \A k \in 1 .. Len(st) : h[k] = IF st[k] \in S THEN h[k - 1] ELSE Append(h[k - 1], st[k])
  BY <1>c, Zenon DEF KeptBy
<1> HIDE DEF m, n
<1> DEFINE First == {k \in 0 .. m : h[k] = f[k]}
<1>6. \A k \in 0 .. m : k \in First
  <2>1. 0 \in First
    BY <1>1, <1>3, <1>5
  <2>2. ASSUME NEW k \in 0 .. m, k < m, k \in First PROVE k + 1 \in First
    <3>1. k + 1 \in 1 .. m /\ k + 1 \in 1 .. Len(st) /\ (k + 1) - 1 = k /\ k + 1 \in 0 .. m
      BY <1>1, <2>2
    <3>2. f[k + 1] = IF s[k + 1] \in S THEN f[k] ELSE Append(f[k], s[k + 1])
      BY <3>1, <1>3
    <3>3. h[k + 1] = IF st[k + 1] \in S THEN h[k] ELSE Append(h[k], st[k + 1])
      BY <3>1, <1>5
    <3>4. st[k + 1] = s[k + 1] /\ h[k] = f[k]
      BY <3>1, <1>2, <2>2
    <3>5. h[k + 1] = f[k + 1]
      BY <3>2, <3>3, <3>4, Zenon
    <3> QED BY <3>1, <3>5
  <2> HIDE DEF First
  <2> QED BY <1>1, <2>1, <2>2, UpTo
<1> DEFINE Second == {k \in 0 .. n : h[m + k] = f[m] \o g[k]}
<1>7. \A k \in 0 .. n : k \in Second
  <2>1. 0 \in Second
    <3>1. h[m] = f[m] /\ f[m] \in Seq(R) /\ m + 0 = m /\ 0 \in 0 .. n
      BY <1>1, <1>3, <1>6
    <3>2. f[m] \o g[0] = f[m]
      BY <3>1, <1>4
    <3> QED BY <3>1, <3>2
  <2>2. ASSUME NEW k \in 0 .. n, k < n, k \in Second PROVE k + 1 \in Second
    <3>1. /\ k + 1 \in 1 .. n /\ m + (k + 1) \in 1 .. Len(st) /\ (k + 1) - 1 = k
          /\ (m + (k + 1)) - 1 = m + k /\ k + 1 \in 0 .. n
      BY <1>1, <2>2
    <3>2. g[k + 1] = IF t[k + 1] \in S THEN g[k] ELSE Append(g[k], t[k + 1])
      BY <3>1, <1>4
    <3>3. h[m + (k + 1)] = IF st[m + (k + 1)] \in S THEN h[m + k] ELSE Append(h[m + k], st[m + (k + 1)])
      BY <3>1, <1>5
    <3>4. st[m + (k + 1)] = t[k + 1] /\ h[m + k] = f[m] \o g[k]
      BY <3>1, <1>2, <2>2
    <3>5. f[m] \in Seq(R) /\ g[k] \in Seq(R) /\ t[k + 1] \in R
      <4>1. m \in 0 .. m
        BY <1>1
      <4>2. f[m] \in Seq(R) /\ g[k] \in Seq(R)
        BY <4>1, Zenon
      <4> QED BY <1>2, <3>1, <4>2
    <3>6. Append(f[m] \o g[k], t[k + 1]) = f[m] \o Append(g[k], t[k + 1])
      <4>1. Reassociates(f[m], g[k], t[k + 1])
        BY <3>5, AppendConcat, Zenon
      <4> QED BY <4>1 DEF Reassociates
    <3>7. h[m + (k + 1)] = f[m] \o g[k + 1]
      BY <3>2, <3>3, <3>4, <3>6, Zenon
    <3> QED BY <3>1, <3>7
  <2> HIDE DEF Second
  <2> QED BY <1>1, <2>1, <2>2, UpTo
<1>8. h[m + n] = f[m] \o g[n]
  <2>1. n \in Second
    <3>1. n \in 0 .. n
      BY <1>1
    <3> HIDE DEF Second
    <3> QED BY <1>7, <3>1, Zenon
  <2> QED BY <2>1, Zenon
<1> QED BY <1>1, <1>3, <1>4, <1>5, <1>8, Zenon DEF st, Splits

(* A sequence without elements of S stays as it is. *)
LEMMA WithoutNone ==
  ASSUME NEW R, NEW seq \in Seq(R), NEW S, \A i \in 1 .. Len(seq) : seq[i] \notin S
  PROVE  Without(seq, S) = seq
<1> DEFINE n == Len(seq)
<1>1. n \in Nat /\ \A i \in 1 .. n : seq[i] \in R
  OBVIOUS
<1>0. PICK f \in [0 .. n -> Seq(R)] : KeptBy(seq, S, f)
  BY WithoutSteps, Zenon
<1>2. /\ f[0] = <<>> /\ Without(seq, S) = f[n]
      /\ \A k \in 1 .. n : f[k] = IF seq[k] \in S THEN f[k - 1] ELSE Append(f[k - 1], seq[k])
  BY <1>0, Zenon DEF KeptBy
<1> DEFINE T == {k \in 0 .. n : Len(f[k]) = k /\ \A i \in 1 .. k : f[k][i] = seq[i]}
<1>3. 0 \in T
  BY <1>1, <1>2
<1>4. ASSUME NEW k \in 0 .. n, k < n, k \in T PROVE k + 1 \in T
  <2>1. k + 1 \in 1 .. n /\ (k + 1) - 1 = k /\ k + 1 \in 0 .. n
    BY <1>1, <1>4
  <2>2. f[k + 1] = Append(f[k], seq[k + 1])
    BY <1>2, <2>1
  <2>3. f[k] \in Seq(R) /\ seq[k + 1] \in R /\ Len(f[k]) = k
    BY <1>1, <1>2, <1>4, <2>1
  <2>4. Len(f[k + 1]) = k + 1 /\ f[k + 1][k + 1] = seq[k + 1] /\ \A i \in 1 .. k : f[k + 1][i] = f[k][i]
    <3> HIDE DEF n
    <3> QED BY <2>2, <2>3
  <2>5. \A i \in 1 .. k + 1 : f[k + 1][i] = seq[i]
    <3> TAKE i \in 1 .. k + 1
    <3>1. i \in 1 .. k \/ i = k + 1
      BY <1>4
    <3>2. \A j \in 1 .. k : f[k][j] = seq[j]
      BY <1>4
    <3> QED BY <2>4, <3>1, <3>2
  <2> QED BY <2>1, <2>4, <2>5
<1> HIDE DEF T
<1>5. n \in T
  <2> HIDE DEF n
  <2>1. \A k \in 0 .. n : k \in T
    BY <1>1, <1>3, <1>4, UpTo
  <2> QED BY <1>1, <2>1
<1>6. f[n] \in Seq(R) /\ Len(f[n]) = Len(seq) /\ \A i \in 1 .. Len(seq) : f[n][i] = seq[i]
  BY <1>1, <1>2, <1>5 DEF T
<1>7. f[n] = seq
  BY <1>6
<1> QED BY <1>2, <1>7

(* What stays is exactly what is not in S. *)
LEMMA WithoutElements ==
  ASSUME NEW R, NEW seq \in Seq(R), NEW S
  PROVE  /\ \A i \in 1 .. Len(Without(seq, S)) :
              \E j \in 1 .. Len(seq) : Without(seq, S)[i] = seq[j] /\ seq[j] \notin S
         /\ \A j \in 1 .. Len(seq) :
              seq[j] \notin S => \E i \in 1 .. Len(Without(seq, S)) : Without(seq, S)[i] = seq[j]
<1> DEFINE n == Len(seq)
<1>1. n \in Nat /\ \A i \in 1 .. n : seq[i] \in R
  OBVIOUS
<1>0. PICK f \in [0 .. n -> Seq(R)] : KeptBy(seq, S, f)
  BY WithoutSteps, Zenon
<1>2. /\ f[0] = <<>> /\ Without(seq, S) = f[n]
      /\ \A k \in 1 .. n : f[k] = IF seq[k] \in S THEN f[k - 1] ELSE Append(f[k - 1], seq[k])
  BY <1>0, Zenon DEF KeptBy
<1> DEFINE From(k) == \A i \in 1 .. Len(f[k]) : \E j \in 1 .. k : f[k][i] = seq[j] /\ seq[j] \notin S
           Into(k) == \A j \in 1 .. k : seq[j] \notin S => \E i \in 1 .. Len(f[k]) : f[k][i] = seq[j]
           T == {k \in 0 .. n : From(k) /\ Into(k)}
<1>3. 0 \in T
  BY <1>1, <1>2
<1>4. ASSUME NEW k \in 0 .. n, k < n, k \in T PROVE k + 1 \in T
  <2>1. k + 1 \in 1 .. n /\ (k + 1) - 1 = k /\ k + 1 \in 0 .. n /\ k \in Nat
    BY <1>1, <1>4
  <2>2. f[k] \in Seq(R) /\ f[k + 1] \in Seq(R) /\ seq[k + 1] \in R /\ Len(f[k]) \in Nat
    BY <1>1, <1>2, <2>1
  <2>3. f[k + 1] = IF seq[k + 1] \in S THEN f[k] ELSE Append(f[k], seq[k + 1])
    BY <1>2, <2>1
  <2>4. \A j \in 1 .. k + 1 : j \in 1 .. k \/ j = k + 1
    BY <2>1
  <2>5. \A j \in 1 .. k : j \in 1 .. k + 1
    BY <2>1
  <2>6. From(k) /\ Into(k)
    BY <1>4
  <2>7. CASE seq[k + 1] \in S
    <3>1. f[k + 1] = f[k]
      BY <2>3, <2>7, Zenon
    <3>2. From(k + 1)
      BY <2>5, <2>6, <3>1
    <3>3. Into(k + 1)
      BY <2>4, <2>6, <2>7, <3>1
    <3> QED BY <2>1, <3>2, <3>3
  <2>8. CASE seq[k + 1] \notin S
    <3>1. f[k + 1] = Append(f[k], seq[k + 1])
      BY <2>3, <2>8, Zenon
    <3>2. /\ Len(f[k + 1]) = Len(f[k]) + 1 /\ f[k + 1][Len(f[k]) + 1] = seq[k + 1]
          /\ \A i \in 1 .. Len(f[k]) : f[k + 1][i] = f[k][i]
      BY <2>2, <3>1
    <3>3. From(k + 1)
      <4> SUFFICES ASSUME NEW i \in 1 .. Len(f[k + 1])
                   PROVE  \E j \in 1 .. k + 1 : f[k + 1][i] = seq[j] /\ seq[j] \notin S
        OBVIOUS
      <4>1. i \in 1 .. Len(f[k]) \/ i = Len(f[k]) + 1
        BY <2>2, <3>2
      <4>2. k + 1 \in 1 .. k + 1
        BY <2>1
      <4> QED BY <2>5, <2>6, <2>8, <3>2, <4>1, <4>2
    <3>4. Into(k + 1)
      <4> SUFFICES ASSUME NEW j \in 1 .. k + 1, seq[j] \notin S
                   PROVE  \E i \in 1 .. Len(f[k + 1]) : f[k + 1][i] = seq[j]
        OBVIOUS
      <4>1. CASE j = k + 1
        <5>1. Len(f[k]) + 1 \in 1 .. Len(f[k + 1])
          BY <2>2, <3>2
        <5> QED BY <3>2, <4>1, <5>1
      <4>2. CASE j \in 1 .. k
        <5>1. PICK i \in 1 .. Len(f[k]) : f[k][i] = seq[j]
          BY <2>6, <4>2
        <5>2. i \in 1 .. Len(f[k + 1])
          BY <2>2, <3>2
        <5> QED BY <3>2, <5>1, <5>2
      <4> QED BY <2>4, <4>1, <4>2
    <3> QED BY <2>1, <3>3, <3>4
  <2> QED BY <2>7, <2>8
<1> HIDE DEF T
<1>5. n \in T
  <2> HIDE DEF n
  <2>1. \A k \in 0 .. n : k \in T
    BY <1>1, <1>3, <1>4, UpTo
  <2> QED BY <1>1, <2>1
<1>6. From(n) /\ Into(n)
  BY <1>5 DEF T
<1> QED BY <1>2, <1>6

(* A loop over 1..n whose turns stay in X goes through. *)
Loops(F, x, n, f) == f[0] = x /\ \A k \in 1 .. n : f[k] = F[<<k, f[k - 1]>>]

LEMMA LoopExists ==
  ASSUME NEW X, NEW x \in X, NEW n \in Nat, NEW F \in [Nat \X X -> X]
  PROVE  \E f \in [0 .. n -> X] : Loops(F, x, n, f)
<1> DEFINE T == {m \in Nat : \E f \in [0 .. m -> X] : Loops(F, x, m, f)}
<1>1. 0 \in T
  <2> DEFINE f == [k \in 0 .. 0 |-> x]
  <2>1. f \in [0 .. 0 -> X] /\ Loops(F, x, 0, f)
    BY DEF Loops
  <2> QED BY <2>1
<1>2. ASSUME NEW m \in 0 .. n, m \in T PROVE m + 1 \in T
  <2>0. m \in Nat /\ m + 1 \in Nat
    OBVIOUS
  <2>1. PICK g \in [0 .. m -> X] : Loops(F, x, m, g)
    BY <1>2
  <2> DEFINE f == [k \in 0 .. m + 1 |-> IF k = m + 1 THEN F[<<k, g[m]>>] ELSE g[k]]
  <2>2. m \in 0 .. m /\ g[m] \in X /\ <<m + 1, g[m]>> \in Nat \X X
    BY <2>0
  <2>3. F[<<m + 1, g[m]>>] \in X
    BY <2>2
  <2>4. f \in [0 .. m + 1 -> X]
    <3> SUFFICES ASSUME NEW k \in 0 .. m + 1 PROVE f[k] \in X
      OBVIOUS
    <3>1. k = m + 1 \/ k \in 0 .. m
      BY <2>0
    <3> QED BY <2>3, <3>1
  <2>5. f[0] = x
    <3>1. g[0] = x /\ 0 \in 0 .. m + 1 /\ 0 # m + 1
      BY <2>0, <2>1 DEF Loops
    <3> QED BY <3>1
  <2>6. ASSUME NEW k \in 1 .. m + 1 PROVE f[k] = F[<<k, f[k - 1]>>]
    <3>1. CASE k = m + 1
      <4>1. f[k] = F[<<k, g[m]>>] /\ k - 1 = m /\ f[m] = g[m]
        BY <2>0, <3>1
      <4> HIDE DEF f
      <4> QED BY <4>1
    <3>2. CASE k # m + 1
      <4>1. k \in 1 .. m /\ f[k] = g[k] /\ f[k - 1] = g[k - 1]
        BY <2>0, <3>2
      <4> HIDE DEF f
      <4>2. g[k] = F[<<k, g[k - 1]>>]
        BY <2>1, <4>1 DEF Loops
      <4> QED BY <4>1, <4>2
    <3> QED BY <3>1, <3>2
  <2> HIDE DEF f
  <2>7. Loops(F, x, m + 1, f)
    BY <2>5, <2>6 DEF Loops
  <2> QED BY <2>4, <2>7
<1> HIDE DEF T
<1>3. \A m \in 0 .. n : m \in T
  BY <1>1, <1>2, UpTo
<1> QED BY <1>3 DEF T

-----------------------------------------------------------------------------
(* The read-only guard: the loops of its parser. *)
LEMMA SkipBalancedTyped ==
  ASSUME NEW tokens \in Seq(Lexemes), NEW i \in Nat, NEW open, NEW close
  PROVE  SkipBalanced(tokens, i, open, close) \in Nat
<1> DEFINE closed == {j \in i .. Len(tokens) : Depth(tokens, i, j, open, close) = 0}
<1>1. closed \subseteq Nat
  OBVIOUS
<1>2. CASE closed = {} \/ At(tokens, i) # open
  BY <1>2 DEF SkipBalanced, Failed
<1>3. CASE ~(closed = {} \/ At(tokens, i) # open)
  <2>1. SkipBalanced(tokens, i, open, close) = Min(closed) + 1
    BY <1>3 DEF SkipBalanced
  <2> HIDE DEF closed
  <2>2. \E x \in closed : \A y \in closed : x <= y
    BY <1>1, <1>3, LeastNumber
  <2>3. Min(closed) \in closed
    BY <2>2 DEF Min
  <2>4. Min(closed) \in Nat
    BY <1>1, <2>3, Zenon
  <2>5. Min(closed) + 1 \in Nat
    BY <2>4
  <2> QED BY <2>1, <2>5
<1> QED BY <1>2, <1>3

LEMMA SkipArgumentsTyped ==
  ASSUME NEW tokens \in Seq(Lexemes), NEW i \in Nat
  PROVE  SkipArguments(tokens, i) \in Nat
BY SkipBalancedTyped DEF SkipArguments

\* Turns(tokens) is half of the tokens, rounded up.
LEMMA TurnsEnough ==
  ASSUME NEW tokens, Len(tokens) \in Nat
  PROVE  /\ Turns(tokens) \in Nat
         /\ \A k \in Nat : k + k <= Len(tokens) => k <= Turns(tokens)
BY DEF Turns

LEMMA AtSignsEnough ==
  ASSUME NEW tokens, Len(tokens) \in Nat, DOMAIN tokens = 1 .. Len(tokens)
  PROVE  /\ AtSigns(tokens) \in Nat
         /\ \A i, j \in DOMAIN tokens : tokens[i] = "@" /\ tokens[j] = "@" /\ i # j => 2 <= AtSigns(tokens)
<1> DEFINE signs == {i \in DOMAIN tokens : tokens[i] = "@"}
<1>1. IsFiniteSet(signs)
  <2>1. IsFiniteSet(1 .. Len(tokens))
    BY FS_Interval
  <2> QED BY <2>1, FS_Subset, Zenon
<1>2. AtSigns(tokens) = Cardinality(signs) /\ Cardinality(signs) \in Nat
  BY <1>1, FS_CardinalityType, Zenon DEF AtSigns
<1>3. ASSUME NEW i \in DOMAIN tokens, NEW j \in DOMAIN tokens, tokens[i] = "@", tokens[j] = "@", i # j
      PROVE  2 <= AtSigns(tokens)
  <2>1. i \in signs /\ j \in signs
    BY <1>3
  <2> HIDE DEF signs
  <2>2. Cardinality(signs) # 0 /\ Cardinality(signs) # 1
    <3>1. signs # {}
      BY <2>1
    <3>2. \A x : signs # {x}
      BY <1>3, <2>1
    <3> QED BY <1>1, <3>1, <3>2, FS_EmptySet, FS_Singleton
  <2> QED BY <1>2, <2>2
<1> QED BY <1>2, <1>3, Zenon

SkippedBy(tokens, start, f) ==
  /\ f[0] = start /\ SkipDirectives(tokens, start) = f[AtSigns(tokens)]
  /\ \A n \in 1 .. AtSigns(tokens) :
       f[n] = IF At(tokens, f[n - 1]) # "@" THEN f[n - 1]
              ELSE IF At(tokens, f[n - 1] + 1) \notin Names THEN Failed
              ELSE SkipArguments(tokens, f[n - 1] + 2)

LEMMA SkipSteps ==
  ASSUME NEW tokens \in Seq(Lexemes), NEW start \in Nat
  PROVE  \E f : SkippedBy(tokens, start, f)
<1> DEFINE Turn(i) == IF At(tokens, i) # "@" THEN i
                      ELSE IF At(tokens, i + 1) \notin Names THEN Failed
                      ELSE SkipArguments(tokens, i + 2)
           F == [p \in Nat \X Nat |-> Turn(p[2])]
           l == AtSigns(tokens)
           Eq(f) == f = [n \in 0 .. l |-> IF n = 0 THEN start ELSE Turn(f[n - 1])]
           skip == CHOOSE f : Eq(f)
<1>1. l \in Nat
  BY AtSignsEnough
<1>2. ASSUME NEW i \in Nat PROVE Turn(i) \in Nat
  BY SkipArgumentsTyped DEF Failed
<1> HIDE DEF Turn
<1>3. F \in [Nat \X Nat -> Nat]
  BY <1>2
<1> HIDE DEF l
<1>4. PICK f \in [0 .. l -> Nat] : Loops(F, start, l, f)
  <2> HIDE DEF F
  <2> QED BY <1>1, <1>3, LoopExists
<1>5. Eq(f)
  <2>1. f[0] = start
    BY <1>4 DEF Loops
  <2>2. ASSUME NEW n \in 0 .. l, n # 0 PROVE f[n] = Turn(f[n - 1])
    <3>1. n \in 1 .. l /\ n \in Nat /\ f[n - 1] \in Nat
      BY <1>1, <2>2
    <3>2. f[n] = F[<<n, f[n - 1]>>]
      <4> HIDE DEF F
      <4> QED BY <1>4, <3>1 DEF Loops
    <3> QED BY <3>1, <3>2
  <2>3. f = [n \in 0 .. l |-> IF n = 0 THEN start ELSE Turn(f[n - 1])]
    BY <2>1, <2>2
  <2> QED BY <2>3
<1>6. Eq(skip)
  <2> HIDE DEF Eq
  <2> QED BY <1>5
<1>7. SkipDirectives(tokens, start) = skip[l]
  BY DEF SkipDirectives, Turn, l
<1> HIDE DEF skip
<1>8. skip[0] = start /\ \A n \in 1 .. l : skip[n] = Turn(skip[n - 1])
  BY <1>1, <1>6
<1>9. SkippedBy(tokens, start, skip)
  BY <1>7, <1>8 DEF SkippedBy, Turn, l
<1> QED BY <1>9, Zenon

Operations == [type : OperationTypes, name : Names \cup {None}]

LEMMA SkipBodyTyped ==
  ASSUME NEW tokens \in Seq(Lexemes), NEW i \in Nat
  PROVE  SkipBody(tokens, i) \in Nat
<1> DEFINE l == AtSigns(tokens)
           Turn(j) == IF At(tokens, j) # "@" THEN j
                      ELSE IF At(tokens, j + 1) \notin Names THEN Failed
                      ELSE SkipArguments(tokens, j + 2)
<1>1. ASSUME NEW j \in Nat PROVE Turn(j) \in Nat
  BY SkipArgumentsTyped DEF Failed
<1>2. PICK f : SkippedBy(tokens, i, f)
  BY SkipSteps, Zenon
<1>3. l \in Nat /\ f[0] = i /\ SkipDirectives(tokens, i) = f[l] /\ \A n \in 1 .. l : f[n] = Turn(f[n - 1])
  BY <1>2, AtSignsEnough DEF SkippedBy
<1> HIDE DEF Turn, l
<1> DEFINE T == {n \in Nat : f[n] \in Nat}
<1>4. 0 \in T
  BY <1>3
<1>5. ASSUME NEW n \in 0 .. l, n < l, n \in T PROVE n + 1 \in T
  <2>1. n + 1 \in 1 .. l /\ (n + 1) - 1 = n /\ n + 1 \in Nat
    BY <1>3, <1>5
  <2>2. f[n + 1] = Turn(f[n])
    BY <1>3, <2>1
  <2>3. f[n] \in Nat
    BY <1>5
  <2> QED BY <1>1, <2>1, <2>2, <2>3
<1>6. \A n \in 0 .. l : n \in T
  <2> HIDE DEF T
  <2> QED BY <1>3, <1>4, <1>5, UpTo
<1>7. l \in 0 .. l
  BY <1>3
<1>8. SkipDirectives(tokens, i) \in Nat
  BY <1>3, <1>6, <1>7
<1> QED BY <1>8, SkipBalancedTyped, Zenon DEF SkipBody

LEMMA ParseDefinitionTyped ==
  ASSUME NEW tokens \in Seq(Lexemes), NEW i \in Nat
  PROVE  ParseDefinition(tokens, i).ops \in Seq(Operations) /\ ParseDefinition(tokens, i).next \in Nat
<1> DEFINE named == At(tokens, i + 1) \in Names
           head == IF named THEN i + 2 ELSE i + 1
           d == ParseDefinition(tokens, i)
<1>1. head \in Nat /\ i + 4 \in Nat
  OBVIOUS
<1>2. SkipBalanced(tokens, i, "lbrace", "rbrace") \in Nat
  BY SkipBalancedTyped
<1>3. SkipBody(tokens, i + 4) \in Nat
  BY <1>1, SkipBodyTyped
<1>4. SkipBody(tokens, SkipArguments(tokens, head)) \in Nat
  <2> HIDE DEF head
  <2>1. SkipArguments(tokens, head) \in Nat
    BY <1>1, SkipArgumentsTyped
  <2> QED BY <2>1, SkipBodyTyped, Zenon
<1>5. CASE At(tokens, i) = "lbrace"
  <2> DEFINE ops == <<Operation("query", None)>>
             n == SkipBalanced(tokens, i, "lbrace", "rbrace")
  <2>1. d = [ops |-> ops, next |-> n]
    <3>1. At(tokens, i) # "fragment" /\ At(tokens, i) \notin OperationTypes
      BY <1>5 DEF OperationTypes
    <3> QED BY <1>5, <3>1, Zenon DEF ParseDefinition
  <2>2. ops \in Seq(Operations)
    BY DEF Operation, Operations, OperationTypes
  <2> HIDE DEF ops, n
  <2>3. d.ops = ops /\ d.next = n
    BY <2>1
  <2>4. n \in Nat
    BY <1>2 DEF n
  <2> QED BY <2>2, <2>3, <2>4, Zenon
<1>6. CASE At(tokens, i) = "fragment"
  <2> DEFINE n == IF named /\ At(tokens, i + 2) = "on" /\ At(tokens, i + 3) \in Names
                  THEN SkipBody(tokens, i + 4) ELSE Failed
  <2>1. d = [ops |-> <<>>, next |-> n]
    <3>1. At(tokens, i) # "lbrace" /\ At(tokens, i) \notin OperationTypes
      BY <1>6 DEF OperationTypes
    <3> QED BY <1>6, <3>1, Zenon DEF ParseDefinition
  <2>2. n \in Nat
    BY <1>3 DEF Failed
  <2> HIDE DEF n
  <2>3. <<>> \in Seq(Operations)
    OBVIOUS
  <2>4. d.ops = <<>> /\ d.next = n
    BY <2>1
  <2> QED BY <2>2, <2>3, <2>4, Zenon
<1>7. CASE At(tokens, i) \in OperationTypes
  <2>1. At(tokens, i) # "lbrace" /\ At(tokens, i) # "fragment" /\ At(tokens, i) = tokens[i]
    BY <1>7 DEF OperationTypes, At
  <2>2. d = [ops |-> <<Operation(tokens[i], IF named THEN tokens[i + 1] ELSE None)>>,
             next |-> SkipBody(tokens, SkipArguments(tokens, head))]
    BY <1>7, <2>1 DEF ParseDefinition
  <2>3. (IF named THEN tokens[i + 1] ELSE None) \in Names \cup {None}
    BY DEF At, Names, OperationTypes
  <2>4. <<Operation(tokens[i], IF named THEN tokens[i + 1] ELSE None)>> \in Seq(Operations)
    <3> HIDE DEF named
    <3>1. Operation(tokens[i], IF named THEN tokens[i + 1] ELSE None) \in Operations
      BY <1>7, <2>1, <2>3 DEF Operation, Operations
    <3>2. \A o \in Operations : <<o>> \in Seq(Operations)
      <4> HIDE DEF Operations
      <4> QED OBVIOUS
    <3> QED BY <3>1, <3>2, Zenon
  <2> HIDE DEF head, named
  <2> QED BY <1>4, <2>2, <2>4
<1>8. CASE At(tokens, i) # "lbrace" /\ At(tokens, i) # "fragment" /\ At(tokens, i) \notin OperationTypes
  <2>1. d = [ops |-> <<>>, next |-> Failed]
    BY <1>8 DEF ParseDefinition
  <2> QED BY <2>1 DEF Failed
<1> QED BY <1>5, <1>6, <1>7, <1>8

ParsedBy(source, tokens, f) ==
  /\ f[0] = [ops |-> <<>>, next |-> 1]
  /\ \A n \in 1 .. Turns(tokens) :
       f[n] = IF f[n - 1].next \notin DOMAIN tokens THEN f[n - 1]
              ELSE [ops |-> f[n - 1].ops \o ParseDefinition(tokens, f[n - 1].next).ops,
                    next |-> ParseDefinition(tokens, f[n - 1].next).next]
  /\ ParseGraphqlOperations(source) =
       IF tokens = None \/ f[Turns(tokens)].next = Failed THEN None ELSE f[Turns(tokens)].ops

LEMMA ParseSteps ==
  ASSUME NEW source, TokenizeGraphql(source) \in Seq(Lexemes)
  PROVE  \E f : ParsedBy(source, TokenizeGraphql(source), f)
<1> DEFINE tokens == TokenizeGraphql(source)
           l == Turns(tokens)
           X == [ops : Seq(Operations), next : Nat]
           Turn(b) == IF b.next \notin DOMAIN tokens THEN b
                      ELSE [ops |-> b.ops \o ParseDefinition(tokens, b.next).ops,
                            next |-> ParseDefinition(tokens, b.next).next]
           F == [p \in Nat \X X |-> Turn(p[2])]
           first == [ops |-> <<>>, next |-> 1]
           Eq(f) == f = [n \in 0 .. l |-> IF n = 0 THEN first ELSE Turn(f[n - 1])]
           parsed == CHOOSE f : Eq(f)
<1>1. l \in Nat
  BY TurnsEnough
<1>2. ParseGraphqlOperations(source) =
        IF tokens = None \/ parsed[l].next = Failed THEN None ELSE parsed[l].ops
  BY Zenon DEF ParseGraphqlOperations
<1>3. ASSUME NEW b \in X PROVE Turn(b) \in X
  <2>0. tokens \in Seq(Lexemes) /\ b.next \in Nat /\ b.ops \in Seq(Operations)
    OBVIOUS
  <2> HIDE DEF tokens
  <2> DEFINE d == ParseDefinition(tokens, b.next)
  <2>1. d.ops \in Seq(Operations) /\ d.next \in Nat
    BY <2>0, ParseDefinitionTyped, Zenon
  <2>2. Turn(b) = IF b.next \notin DOMAIN tokens THEN b ELSE [ops |-> b.ops \o d.ops, next |-> d.next]
    BY Zenon
  <2> HIDE DEF d, Turn
  <2>3. b.ops \o d.ops \in Seq(Operations)
    BY <2>0, <2>1
  <2> QED BY <2>1, <2>2, <2>3
<1>4. first \in X
  OBVIOUS
<1> HIDE DEF Turn, X, first, l, tokens
<1>5. F \in [Nat \X X -> X]
  BY <1>3
<1>6. PICK f \in [0 .. l -> X] : Loops(F, first, l, f)
  <2> HIDE DEF F
  <2> QED BY <1>1, <1>4, <1>5, LoopExists
<1>7. Eq(f)
  <2>1. f[0] = first
    BY <1>6 DEF Loops
  <2>2. ASSUME NEW n \in 0 .. l, n # 0 PROVE f[n] = Turn(f[n - 1])
    <3>1. n \in 1 .. l /\ n \in Nat /\ f[n - 1] \in X
      BY <1>1, <2>2
    <3>2. f[n] = F[<<n, f[n - 1]>>]
      <4> HIDE DEF F
      <4> QED BY <1>6, <3>1 DEF Loops
    <3> QED BY <3>1, <3>2
  <2>3. f = [n \in 0 .. l |-> IF n = 0 THEN first ELSE Turn(f[n - 1])]
    BY <2>1, <2>2
  <2> QED BY <2>3
<1>8. Eq(parsed)
  <2> HIDE DEF Eq
  <2> QED BY <1>7
<1> HIDE DEF parsed
<1>9. parsed[0] = first /\ \A n \in 1 .. l : parsed[n] = Turn(parsed[n - 1])
  BY <1>1, <1>8
<1>10. ParsedBy(source, tokens, parsed)
  BY <1>2, <1>9, Zenon DEF ParsedBy, Turn, l, first
<1> QED BY <1>10, Zenon DEF tokens

FlattenedBy(seqs, f) ==
  /\ f[0] = <<>> /\ FlattenSeq(seqs) = f[Len(seqs)]
  /\ \A n \in 1 .. Len(seqs) : f[n] = f[n - 1] \o seqs[n]

LEMMA FlattenSteps ==
  ASSUME NEW R, NEW seqs \in Seq(Seq(R))
  PROVE  \E f : FlattenedBy(seqs, f)
<1> DEFINE l == Len(seqs)
           F == [p \in Nat \X Seq(R) |-> IF p[1] \in 1 .. l THEN p[2] \o seqs[p[1]] ELSE <<>>]
           Eq(f) == f = [n \in 1 .. l |-> IF n = 1 THEN seqs[n] ELSE f[n - 1] \o seqs[n]]
           flatten == CHOOSE f : Eq(f)
<1>1. l \in Nat /\ \A n \in 1 .. l : seqs[n] \in Seq(R)
  OBVIOUS
<1>2. FlattenSeq(seqs) = IF l = 0 THEN seqs ELSE flatten[l]
  BY Zenon DEF FlattenSeq
<1>3. l = 0 => seqs = <<>>
  OBVIOUS
<1> HIDE DEF l
<1>4. F \in [Nat \X Seq(R) -> Seq(R)]
  BY <1>1
<1>5. PICK f \in [0 .. l -> Seq(R)] : Loops(F, <<>>, l, f)
  <2> HIDE DEF F
  <2>1. <<>> \in Seq(R)
    OBVIOUS
  <2> QED BY <1>1, <1>4, <2>1, LoopExists
<1>6. f[0] = <<>> /\ \A n \in 1 .. l : f[n] = f[n - 1] \o seqs[n]
  <2>1. f[0] = <<>>
    BY <1>5 DEF Loops
  <2>2. ASSUME NEW n \in 1 .. l PROVE f[n] = f[n - 1] \o seqs[n]
    <3>1. n \in Nat /\ f[n - 1] \in Seq(R)
      BY <1>1
    <3>2. f[n] = F[<<n, f[n - 1]>>]
      <4> HIDE DEF F
      <4> QED BY <1>5 DEF Loops
    <3>3. F[<<n, f[n - 1]>>] = f[n - 1] \o seqs[n]
      BY <3>1
    <3> QED BY <3>2, <3>3, Zenon
  <2> QED BY <2>1, <2>2
<1> DEFINE g == [n \in 1 .. l |-> f[n]]
<1>7. Eq(g)
  <2>1. ASSUME NEW n \in 1 .. l
        PROVE  f[n] = IF n = 1 THEN seqs[n] ELSE g[n - 1] \o seqs[n]
    <3>1. CASE n = 1
      <4>1. f[n] = f[0] \o seqs[n] /\ seqs[n] \in Seq(R)
        <5>1. n - 1 = 0
          BY <3>1
        <5> QED BY <1>1, <1>6, <5>1
      <4>2. f[n] = seqs[n]
        BY <1>6, <4>1
      <4> QED BY <3>1, <4>2
    <3>2. CASE n # 1
      <4>1. g[n - 1] = f[n - 1]
        BY <1>1, <3>2
      <4> HIDE DEF g
      <4>2. f[n] = f[n - 1] \o seqs[n]
        BY <1>6
      <4> QED BY <3>2, <4>1, <4>2, Zenon
    <3> QED BY <3>1, <3>2
  <2>2. g = [n \in 1 .. l |-> IF n = 1 THEN seqs[n] ELSE g[n - 1] \o seqs[n]]
    <3>1. \A n \in 1 .. l : g[n] = f[n]
      OBVIOUS
    <3> DEFINE h == [n \in 1 .. l |-> IF n = 1 THEN seqs[n] ELSE g[n - 1] \o seqs[n]]
    <3>2. \A n \in 1 .. l : h[n] = IF n = 1 THEN seqs[n] ELSE g[n - 1] \o seqs[n]
      BY Zenon
    <3>3. \A n \in 1 .. l : g[n] = h[n]
      <4> HIDE DEF g, h
      <4> QED BY <2>1, <3>1, <3>2, Zenon
    <3>4. DOMAIN g = 1 .. l /\ DOMAIN h = 1 .. l /\ g = [n \in DOMAIN g |-> g[n]] /\ h = [n \in DOMAIN h |-> h[n]]
      OBVIOUS
    <3>5. g = h
      <4> HIDE DEF g, h
      <4> QED BY <3>3, <3>4
    <3> QED BY <3>5
  <2> QED BY <2>2
<1>8. Eq(flatten)
  <2> HIDE DEF Eq
  <2> QED BY <1>7
<1> HIDE DEF flatten
<1>9. \A n \in 1 .. l : flatten[n] = IF n = 1 THEN seqs[n] ELSE flatten[n - 1] \o seqs[n]
  BY <1>8, Zenon
<1> DEFINE e == [n \in 0 .. l |-> IF n = 0 THEN <<>> ELSE flatten[n]]
<1>10. ASSUME NEW n \in 1 .. l PROVE e[n] = e[n - 1] \o seqs[n]
  <2>1. n \in Nat /\ n # 0 /\ n \in 0 .. l /\ n - 1 \in 0 .. l /\ seqs[n] \in Seq(R)
    BY <1>1
  <2>2. e[n] = flatten[n]
    BY <2>1
  <2>3. CASE n = 1
    <3>1. e[n - 1] = <<>>
      BY <2>1, <2>3
    <3>2. <<>> \o seqs[n] = seqs[n]
      BY <2>1
    <3>3. flatten[n] = seqs[n]
      BY <1>9, <2>3, Zenon
    <3> HIDE DEF e
    <3> QED BY <2>2, <3>1, <3>2, <3>3, Zenon
  <2>4. CASE n # 1
    <3>1. e[n - 1] = flatten[n - 1]
      BY <2>1, <2>4
    <3>2. flatten[n] = flatten[n - 1] \o seqs[n]
      BY <1>9, <2>4, Zenon
    <3> HIDE DEF e
    <3> QED BY <2>2, <3>1, <3>2, Zenon
  <2> QED BY <2>3, <2>4
<1>11. e[0] = <<>> /\ FlattenSeq(seqs) = e[l]
  BY <1>1, <1>2, <1>3
<1> HIDE DEF e
<1>12. FlattenedBy(seqs, e)
  BY <1>10, <1>11 DEF FlattenedBy, l
<1> QED BY <1>12, Zenon

-----------------------------------------------------------------------------
(* The read-only guard: brackets. *)
LEMMA TwoElements ==
  ASSUME NEW a, NEW b, a # b
  PROVE  Cardinality({a, b}) = 2
<1>1. IsFiniteSet({a}) /\ Cardinality({a}) = 1
  BY FS_Singleton
<1>2. Cardinality({a} \cup {b}) = Cardinality({a}) + 1
  BY <1>1, FS_AddElement
<1>3. {a, b} = {a} \cup {b}
  OBVIOUS
<1> QED BY <1>1, <1>2, <1>3

\* Between start and c the brackets stand at the positions in S.
BracketsAt(tokens, open, close, start, c, S) ==
  \A i \in start .. c : i \notin S => tokens[i] # open /\ tokens[i] # close

\* The bracket opened at start, with one more inside, closes at c.
Nested(tokens, open, close, start, a, b, c) ==
  /\ tokens \in Seq(Lexemes) /\ open # close
  /\ start \in Nat \ {0} /\ a \in Nat /\ b \in Nat /\ c \in Nat
  /\ start < a /\ a < b /\ b < c /\ c <= Len(tokens)
  /\ tokens[start] = open /\ tokens[a] = open /\ tokens[b] = close /\ tokens[c] = close
  /\ BracketsAt(tokens, open, close, start, c, {start, a, b, c})

LEMMA BalancedTwice ==
  ASSUME NEW tokens, NEW open, NEW close, NEW start, NEW a, NEW b, NEW c,
         Nested(tokens, open, close, start, a, b, c)
  PROVE  SkipBalanced(tokens, start, open, close) = c + 1
<1> USE DEF Nested
<1> DEFINE Opens(i) == {k \in start .. i : tokens[k] = open}
           Closes(i) == {k \in start .. i : tokens[k] = close}
           closed == {i \in start .. Len(tokens) : Depth(tokens, start, i, open, close) = 0}
<1>0. Len(tokens) \in Nat /\ \A i \in Nat : Depth(tokens, start, i, open, close) = Cardinality(Opens(i)) - Cardinality(Closes(i))
  BY DEF Depth
<1>1. Cardinality({}) = 0 /\ Cardinality({start}) = 1 /\ Cardinality({b}) = 1
  BY FS_EmptySet, FS_Singleton
<1>2. Cardinality({start, a}) = 2 /\ Cardinality({b, c}) = 2
  <2>1. start # a /\ b # c
    OBVIOUS
  <2> QED BY <2>1, TwoElements
<1>3. ASSUME NEW i \in Nat, start <= i, i < a
      PROVE  Cardinality(Opens(i)) = 1 /\ Cardinality(Closes(i)) = 0
  <2>1. Opens(i) = {start} /\ Closes(i) = {}
    BY <1>3 DEF BracketsAt
  <2> HIDE DEF Opens, Closes
  <2> QED BY <1>1, <2>1, Zenon
<1>4. ASSUME NEW i \in Nat, a <= i, i < b
      PROVE  Cardinality(Opens(i)) = 2 /\ Cardinality(Closes(i)) = 0
  <2>1. Opens(i) = {start, a} /\ Closes(i) = {}
    BY <1>4 DEF BracketsAt
  <2> HIDE DEF Opens, Closes
  <2> QED BY <1>1, <1>2, <2>1, Zenon
<1>5. ASSUME NEW i \in Nat, b <= i, i < c
      PROVE  Cardinality(Opens(i)) = 2 /\ Cardinality(Closes(i)) = 1
  <2>1. Opens(i) = {start, a} /\ Closes(i) = {b}
    BY <1>5 DEF BracketsAt
  <2> HIDE DEF Opens, Closes
  <2> QED BY <1>1, <1>2, <2>1, Zenon
<1>6. Cardinality(Opens(c)) = 2 /\ Cardinality(Closes(c)) = 2
  <2>1. Opens(c) = {start, a} /\ Closes(c) = {b, c}
    BY DEF BracketsAt
  <2> HIDE DEF Opens, Closes
  <2> QED BY <1>2, <2>1, Zenon
<1> HIDE DEF Opens, Closes
<1>7. c \in closed
  BY <1>0, <1>6
<1>8. ASSUME NEW i \in closed PROVE i \in Nat /\ c <= i
  <2>1. i \in Nat /\ start <= i /\ Depth(tokens, start, i, open, close) = 0
    BY <1>0
  <2>2. CASE i < a
    BY <1>0, <1>3, <2>1, <2>2
  <2>3. CASE a <= i /\ i < b
    BY <1>0, <1>4, <2>1, <2>3
  <2>4. CASE b <= i /\ i < c
    BY <1>0, <1>5, <2>1, <2>4
  <2> QED BY <2>1, <2>2, <2>3, <2>4
<1>9. SkipBalanced(tokens, start, open, close) =
        IF At(tokens, start) # open \/ closed = {} THEN Failed ELSE Min(closed) + 1
  BY Zenon DEF SkipBalanced
<1>10. At(tokens, start) = open
  BY DEF At
<1> HIDE DEF closed
<1>11. Min(closed) = c
  <2>1. Min(closed) \in closed /\ \A y \in closed : Min(closed) <= y
    BY <1>7, <1>8 DEF Min
  <2> DEFINE m == Min(closed)
  <2> HIDE DEF m
  <2>2. m \in Nat /\ c <= m /\ m <= c
    BY <1>7, <1>8, <2>1 DEF m
  <2>3. m = c
    BY <2>2
  <2> QED BY <2>3 DEF m
<1>12. closed # {}
  BY <1>7
<1> QED BY <1>9, <1>10, <1>11, <1>12, Zenon

\* The bracket opened at start, with none inside, closes at c.
Plain(tokens, open, close, start, c) ==
  /\ tokens \in Seq(Lexemes) /\ open # close
  /\ start \in Nat \ {0} /\ c \in Nat /\ start < c /\ c <= Len(tokens)
  /\ tokens[start] = open /\ tokens[c] = close
  /\ BracketsAt(tokens, open, close, start, c, {start, c})

LEMMA BalancedOnce ==
  ASSUME NEW tokens, NEW open, NEW close, NEW start, NEW c, Plain(tokens, open, close, start, c)
  PROVE  SkipBalanced(tokens, start, open, close) = c + 1
<1> USE DEF Plain
<1> DEFINE Opens(i) == {k \in start .. i : tokens[k] = open}
           Closes(i) == {k \in start .. i : tokens[k] = close}
           closed == {i \in start .. Len(tokens) : Depth(tokens, start, i, open, close) = 0}
<1>0. Len(tokens) \in Nat /\ \A i \in Nat : Depth(tokens, start, i, open, close) = Cardinality(Opens(i)) - Cardinality(Closes(i))
  BY DEF Depth
<1>1. Cardinality({}) = 0 /\ Cardinality({start}) = 1 /\ Cardinality({c}) = 1
  BY FS_EmptySet, FS_Singleton
<1>3. ASSUME NEW i \in Nat, start <= i, i < c
      PROVE  Cardinality(Opens(i)) = 1 /\ Cardinality(Closes(i)) = 0
  <2>1. Opens(i) = {start} /\ Closes(i) = {}
    BY <1>3 DEF BracketsAt
  <2> HIDE DEF Opens, Closes
  <2> QED BY <1>1, <2>1, Zenon
<1>6. Cardinality(Opens(c)) = 1 /\ Cardinality(Closes(c)) = 1
  <2>1. Opens(c) = {start} /\ Closes(c) = {c}
    BY DEF BracketsAt
  <2> HIDE DEF Opens, Closes
  <2> QED BY <1>1, <2>1, Zenon
<1> HIDE DEF Opens, Closes
<1>7. c \in closed
  BY <1>0, <1>6
<1>8. ASSUME NEW i \in closed PROVE i \in Nat /\ c <= i
  <2>1. i \in Nat /\ start <= i /\ Depth(tokens, start, i, open, close) = 0
    BY <1>0
  <2>2. CASE i < c
    BY <1>0, <1>3, <2>1, <2>2
  <2> QED BY <2>1, <2>2
<1>9. SkipBalanced(tokens, start, open, close) =
        IF At(tokens, start) # open \/ closed = {} THEN Failed ELSE Min(closed) + 1
  BY Zenon DEF SkipBalanced
<1>10. At(tokens, start) = open
  BY DEF At
<1> HIDE DEF closed
<1>11. Min(closed) = c
  <2>1. Min(closed) \in closed /\ \A y \in closed : Min(closed) <= y
    BY <1>7, <1>8 DEF Min
  <2> DEFINE m == Min(closed)
  <2> HIDE DEF m
  <2>2. m \in Nat /\ c <= m /\ m <= c
    BY <1>7, <1>8, <2>1 DEF m
  <2>3. m = c
    BY <2>2
  <2> QED BY <2>3 DEF m
<1>12. closed # {}
  BY <1>7
<1> QED BY <1>9, <1>10, <1>11, <1>12, Zenon

-----------------------------------------------------------------------------
(* The read-only guard: the documents pages send, lexeme by lexeme. *)
Selection == <<"lbrace", "query", "lbrace", "mutation", "b", "rbrace", "rbrace">>
Variables == <<"(", "$", "a", ":", "b", "=", "lbrace", "a", ":", "literal", "rbrace", ")">>
Directives == <<"@", "a", "(", "b", ":", "literal", ")", "@", "b">>

LEMMA SelectionLexemes ==
  /\ Len(Selection) = 7
  /\ Selection[1] = "lbrace" /\ Selection[2] = "query" /\ Selection[3] = "lbrace" /\ Selection[4] = "mutation"
  /\ Selection[5] = "b" /\ Selection[6] = "rbrace" /\ Selection[7] = "rbrace"
BY DEF Selection

LEMMA SelectionTyped == Selection \in Seq(Lexemes)
<1>1. "b" \in Lexemes /\ "lbrace" \in Lexemes /\ "mutation" \in Lexemes /\ "query" \in Lexemes /\ "rbrace" \in Lexemes
  BY Zenon DEF Lexemes, Names, OperationTypes, Punctuation
<1>2. ASSUME NEW R, "b" \in R, "lbrace" \in R, "mutation" \in R, "query" \in R, "rbrace" \in R
      PROVE  Selection \in Seq(R)
  BY <1>2 DEF Selection
<1> QED BY <1>1, <1>2

LEMMA VariablesLexemes ==
  /\ Len(Variables) = 12
  /\ Variables[1] = "(" /\ Variables[2] = "$" /\ Variables[3] = "a" /\ Variables[4] = ":"
  /\ Variables[5] = "b" /\ Variables[6] = "=" /\ Variables[7] = "lbrace" /\ Variables[8] = "a"
  /\ Variables[9] = ":" /\ Variables[10] = "literal" /\ Variables[11] = "rbrace" /\ Variables[12] = ")"
BY DEF Variables

LEMMA VariablesTyped == Variables \in Seq(Lexemes)
<1>1. "$" \in Lexemes /\ "(" \in Lexemes /\ ")" \in Lexemes /\ ":" \in Lexemes /\ "=" \in Lexemes /\ "a" \in Lexemes /\ "b" \in Lexemes /\ "lbrace" \in Lexemes /\ "literal" \in Lexemes /\ "rbrace" \in Lexemes
  BY Zenon DEF Lexemes, Names, OperationTypes, Punctuation
<1>2. ASSUME NEW R, "$" \in R, "(" \in R, ")" \in R, ":" \in R, "=" \in R, "a" \in R, "b" \in R, "lbrace" \in R, "literal" \in R, "rbrace" \in R
      PROVE  Variables \in Seq(R)
  BY <1>2 DEF Variables
<1> QED BY <1>1, <1>2

LEMMA DirectivesLexemes ==
  /\ Len(Directives) = 9
  /\ Directives[1] = "@" /\ Directives[2] = "a" /\ Directives[3] = "(" /\ Directives[4] = "b"
  /\ Directives[5] = ":" /\ Directives[6] = "literal" /\ Directives[7] = ")" /\ Directives[8] = "@"
  /\ Directives[9] = "b"
BY DEF Directives

LEMMA DirectivesTyped == Directives \in Seq(Lexemes)
<1>1. "(" \in Lexemes /\ ")" \in Lexemes /\ ":" \in Lexemes /\ "@" \in Lexemes /\ "a" \in Lexemes /\ "b" \in Lexemes /\ "literal" \in Lexemes
  BY Zenon DEF Lexemes, Names, OperationTypes, Punctuation
<1>2. ASSUME NEW R, "(" \in R, ")" \in R, ":" \in R, "@" \in R, "a" \in R, "b" \in R, "literal" \in R
      PROVE  Directives \in Seq(R)
  BY <1>2 DEF Directives
<1> QED BY <1>1, <1>2

\* The tokens from position p on begin with s.
Holds(tokens, p, s) ==
  /\ p \in Nat \ {0} /\ p + Len(s) <= Len(tokens) + 1
  /\ \A j \in 1 .. Len(s) : tokens[p + j - 1] = s[j]

\* One sequence is two others after one another.
Joins(u, s, t) == u = s \o t

LEMMA HoldsConcat ==
  ASSUME NEW tokens \in Seq(Lexemes), NEW p, NEW s \in Seq(Lexemes), NEW t \in Seq(Lexemes),
         NEW u, Joins(u, s, t), NEW q, q = p + Len(s), Holds(tokens, p, u)
  PROVE  Holds(tokens, p, s) /\ Holds(tokens, q, t)
<1> DEFINE st == s \o t
<1>0. u = st
  BY DEF Joins
<1>1. /\ Len(st) = Len(s) + Len(t) /\ Len(s) \in Nat /\ Len(t) \in Nat /\ Len(tokens) \in Nat
      /\ \A j \in 1 .. Len(s) : st[j] = s[j]
      /\ \A j \in 1 .. Len(t) : st[Len(s) + j] = t[j]
  OBVIOUS
<1> HIDE DEF st
<1>2. p \in Nat \ {0} /\ p + Len(st) <= Len(tokens) + 1 /\ \A j \in 1 .. Len(st) : tokens[p + j - 1] = st[j]
  BY <1>0 DEF Holds
<1>3. Holds(tokens, p, s)
  BY <1>1, <1>2 DEF Holds
<1>4. ASSUME NEW j \in 1 .. Len(t) PROVE tokens[(p + Len(s)) + j - 1] = t[j]
  <2>1. Len(s) + j \in 1 .. Len(st) /\ p + (Len(s) + j) - 1 = (p + Len(s)) + j - 1
    BY <1>1, <1>2
  <2> QED BY <1>1, <1>2, <2>1
<1>5. p + Len(s) \in Nat \ {0} /\ (p + Len(s)) + Len(t) <= Len(tokens) + 1
  BY <1>1, <1>2
<1> QED BY <1>3, <1>4, <1>5 DEF Holds

LEMMA Lengths == Len(Selection) = 7 /\ Len(Variables) = 12 /\ Len(Directives) = 9
BY SelectionLexemes, VariablesLexemes, DirectivesLexemes

LEMMA JoinsTyped ==
  ASSUME NEW s \in Seq(Lexemes), NEW t \in Seq(Lexemes), NEW u, Joins(u, s, t)
  PROVE  u \in Seq(Lexemes)
BY DEF Joins

LEMMA JoinsLength ==
  ASSUME NEW s \in Seq(Lexemes), NEW t \in Seq(Lexemes), NEW u, Joins(u, s, t)
  PROVE  Len(u) = Len(s) + Len(t)
BY DEF Joins

LEMMA Pair ==
  ASSUME NEW R, NEW x \in R, NEW y \in R
  PROVE  Joins(<<x, y>>, <<x>>, <<y>>)
<1> DEFINE a == <<x>>
           b == <<y>>
           l == <<x, y>>
           r == a \o b
<1>1. a \in Seq(R) /\ Len(a) = 1 /\ a[1] = x /\ b \in Seq(R) /\ Len(b) = 1 /\ b[1] = y
  OBVIOUS
<1>2. l \in Seq(R) /\ Len(l) = 2 /\ l[1] = x /\ l[2] = y
  OBVIOUS
<1> HIDE DEF a, b, l
<1>3. r \in Seq(R) /\ Len(r) = 2 /\ r[1] = x /\ r[2] = y
  <2>0. a \in Seq(R) /\ b \in Seq(R)
    BY <1>1
  <2>a. r \in Seq(R) /\ Len(r) = Len(a) + Len(b)
    BY ONLY <2>0
  <2>1. r \in Seq(R) /\ Len(r) = 2
    <3> HIDE DEF r
    <3> QED BY <2>a, <1>1
  <2>2. \A i \in 1 .. Len(a) + Len(b) : r[i] = IF i <= Len(a) THEN a[i] ELSE b[i - Len(a)]
    BY ONLY <2>0
  <2>3. r[1] = a[1] /\ r[2] = b[1]
    <3> HIDE DEF r
    <3>1. 1 \in 1 .. Len(a) + Len(b) /\ 2 \in 1 .. Len(a) + Len(b) /\ 1 <= Len(a) /\ ~(2 <= Len(a)) /\ 2 - Len(a) = 1
      BY <1>1
    <3> QED BY <2>2, <3>1
  <2> HIDE DEF r
  <2> QED BY <1>1, <2>1, <2>3
<1> HIDE DEF r
<1>4. \A i \in 1 .. 2 : l[i] = r[i]
  BY <1>2, <1>3
<1>5. l = r
  BY <1>2, <1>3, <1>4
<1> QED BY <1>5 DEF Joins, a, b, l, r

LEMMA SelectionHeld ==
  ASSUME NEW tokens, NEW p, Holds(tokens, p, Selection)
  PROVE  /\ p \in Nat \ {0} /\ p + 7 <= Len(tokens) + 1
         /\ tokens[p] = "lbrace" /\ tokens[p + 1] = "query" /\ tokens[p + 2] = "lbrace" /\ tokens[p + 3] = "mutation"
         /\ tokens[p + 4] = "b" /\ tokens[p + 5] = "rbrace" /\ tokens[p + 6] = "rbrace"
BY SelectionLexemes DEF Holds

LEMMA VariablesHeld ==
  ASSUME NEW tokens, NEW p, Holds(tokens, p, Variables)
  PROVE  /\ p \in Nat \ {0} /\ p + 12 <= Len(tokens) + 1
         /\ tokens[p] = "(" /\ tokens[p + 1] = "$" /\ tokens[p + 2] = "a" /\ tokens[p + 3] = ":"
         /\ tokens[p + 4] = "b" /\ tokens[p + 5] = "=" /\ tokens[p + 6] = "lbrace" /\ tokens[p + 7] = "a"
         /\ tokens[p + 8] = ":" /\ tokens[p + 9] = "literal" /\ tokens[p + 10] = "rbrace" /\ tokens[p + 11] = ")"
BY VariablesLexemes DEF Holds

LEMMA DirectivesHeld ==
  ASSUME NEW tokens, NEW p, Holds(tokens, p, Directives)
  PROVE  /\ p \in Nat \ {0} /\ p + 9 <= Len(tokens) + 1
         /\ tokens[p] = "@" /\ tokens[p + 1] = "a" /\ tokens[p + 2] = "(" /\ tokens[p + 3] = "b"
         /\ tokens[p + 4] = ":" /\ tokens[p + 5] = "literal" /\ tokens[p + 6] = ")" /\ tokens[p + 7] = "@"
         /\ tokens[p + 8] = "b"
BY DirectivesLexemes DEF Holds

LEMMA SelectionSkipped ==
  ASSUME NEW tokens \in Seq(Lexemes), NEW p, Holds(tokens, p, Selection)
  PROVE  SkipBalanced(tokens, p, "lbrace", "rbrace") = p + 7
<1>1. p \in Nat \ {0} /\ p + 7 <= Len(tokens) + 1 /\ Len(tokens) \in Nat
  BY SelectionHeld
<1>2. /\ tokens[p] = "lbrace" /\ tokens[p + 1] = "query" /\ tokens[p + 2] = "lbrace" /\ tokens[p + 3] = "mutation"
      /\ tokens[p + 4] = "b" /\ tokens[p + 5] = "rbrace" /\ tokens[p + 6] = "rbrace"
  BY SelectionHeld
<1>3. p + 2 \in Nat /\ p + 5 \in Nat /\ p + 6 \in Nat /\ p < p + 2 /\ p + 2 < p + 5 /\ p + 5 < p + 6 /\ p + 6 <= Len(tokens)
  BY <1>1
<1>4. \A i \in p .. p + 6 : i \in {p, p + 1, p + 2, p + 3, p + 4, p + 5, p + 6}
  BY <1>1
<1>5. BracketsAt(tokens, "lbrace", "rbrace", p, p + 6, {p, p + 2, p + 5, p + 6})
  BY <1>2, <1>4 DEF BracketsAt
<1>6. SkipBalanced(tokens, p, "lbrace", "rbrace") = (p + 6) + 1
  <2>1. p \in Nat \ {0} /\ "lbrace" # "rbrace"
    BY <1>1
  <2>2. Nested(tokens, "lbrace", "rbrace", p, p + 2, p + 5, p + 6)
    BY <1>2, <1>3, <1>5, <2>1 DEF Nested
  <2> QED BY <2>2, BalancedTwice, Zenon
<1> QED BY <1>1, <1>6

LEMMA VariablesSkipped ==
  ASSUME NEW tokens \in Seq(Lexemes), NEW p, Holds(tokens, p, Variables)
  PROVE  SkipArguments(tokens, p) = p + 12
<1>1. p \in Nat \ {0} /\ p + 12 <= Len(tokens) + 1 /\ Len(tokens) \in Nat
  BY VariablesHeld
<1>2. /\ tokens[p] = "(" /\ tokens[p + 1] = "$" /\ tokens[p + 2] = "a" /\ tokens[p + 3] = ":"
      /\ tokens[p + 4] = "b" /\ tokens[p + 5] = "=" /\ tokens[p + 6] = "lbrace" /\ tokens[p + 7] = "a"
      /\ tokens[p + 8] = ":" /\ tokens[p + 9] = "literal" /\ tokens[p + 10] = "rbrace" /\ tokens[p + 11] = ")"
  BY VariablesHeld
<1>3. p + 11 \in Nat /\ p < p + 11 /\ p + 11 <= Len(tokens)
  BY <1>1
<1>4. \A i \in p .. p + 11 : i \in {p, p + 1, p + 2, p + 3, p + 4, p + 5, p + 6, p + 7, p + 8, p + 9, p + 10, p + 11}
  BY <1>1
<1>5. BracketsAt(tokens, "(", ")", p, p + 11, {p, p + 11})
  BY <1>2, <1>4 DEF BracketsAt
<1>6. SkipBalanced(tokens, p, "(", ")") = (p + 11) + 1
  <2>1. p \in Nat \ {0} /\ "(" # ")"
    BY <1>1
  <2>2. Plain(tokens, "(", ")", p, p + 11)
    BY <1>2, <1>3, <1>5, <2>1 DEF Plain
  <2> QED BY <2>2, BalancedOnce, Zenon
<1>7. At(tokens, p) = "("
  BY <1>1, <1>2 DEF At
<1> QED BY <1>1, <1>6, <1>7 DEF SkipArguments

\* Past a token that begins no directive the loop moves no more.
LEMMA SkipEnds ==
  ASSUME NEW tokens \in Seq(Lexemes), NEW start, NEW f, SkippedBy(tokens, start, f),
         NEW m \in 0 .. AtSigns(tokens), At(tokens, f[m]) # "@"
  PROVE  SkipDirectives(tokens, start) = f[m]
<1> DEFINE l == AtSigns(tokens)
           T == {k \in Nat : f[m + k] = f[m]}
<1>1. l \in Nat /\ m \in Nat /\ m <= l
  BY AtSignsEnough
<1> HIDE DEF l
<1>2. 0 \in T
  BY <1>1
<1>3. ASSUME NEW k \in 0 .. l - m, k < l - m, k \in T PROVE k + 1 \in T
  <2>1. m + (k + 1) \in 1 .. l /\ (m + (k + 1)) - 1 = m + k /\ k + 1 \in Nat
    BY <1>1, <1>3
  <2>2. f[m + (k + 1)] = IF At(tokens, f[m + k]) # "@" THEN f[m + k]
                         ELSE IF At(tokens, f[m + k] + 1) \notin Names THEN Failed
                         ELSE SkipArguments(tokens, f[m + k] + 2)
    BY <2>1 DEF SkippedBy, l
  <2>3. f[m + k] = f[m]
    BY <1>3
  <2>4. f[m + (k + 1)] = f[m]
    BY <2>2, <2>3, Zenon
  <2> QED BY <2>1, <2>4
<1>4. \A k \in 0 .. l - m : k \in T
  <2>1. l - m \in Nat
    BY <1>1
  <2> HIDE DEF T
  <2> QED BY <2>1, <1>2, <1>3, UpTo
<1>5. l - m \in 0 .. l - m /\ m + (l - m) = l
  BY <1>1
<1>6. f[l] = f[m]
  BY <1>4, <1>5
<1> QED BY <1>6 DEF SkippedBy, l

LEMMA NoDirectives ==
  ASSUME NEW tokens \in Seq(Lexemes), NEW p \in Nat, At(tokens, p) # "@"
  PROVE  SkipDirectives(tokens, p) = p
<1>1. PICK f : SkippedBy(tokens, p, f)
  BY SkipSteps, Zenon
<1>2. f[0] = p /\ 0 \in 0 .. AtSigns(tokens)
  BY <1>1, AtSignsEnough DEF SkippedBy
<1> QED BY <1>1, <1>2, SkipEnds

LEMMA DirectivesSkipped ==
  ASSUME NEW tokens \in Seq(Lexemes), NEW p, Holds(tokens, p, Directives), At(tokens, p + 9) = "lbrace"
  PROVE  SkipDirectives(tokens, p) = p + 9
<1>1. p \in Nat \ {0} /\ p + 9 <= Len(tokens) + 1 /\ Len(tokens) \in Nat
  BY DirectivesHeld
<1>2. /\ tokens[p] = "@" /\ tokens[p + 1] = "a" /\ tokens[p + 2] = "(" /\ tokens[p + 3] = "b"
      /\ tokens[p + 4] = ":" /\ tokens[p + 5] = "literal" /\ tokens[p + 6] = ")"
      /\ tokens[p + 7] = "@" /\ tokens[p + 8] = "b"
  BY DirectivesHeld
<1>0. 1 \in 1 .. AtSigns(tokens) /\ 2 \in 1 .. AtSigns(tokens) /\ 2 \in 0 .. AtSigns(tokens)
  <2>1. p \in DOMAIN tokens /\ p + 7 \in DOMAIN tokens /\ p # p + 7 /\ DOMAIN tokens = 1 .. Len(tokens)
    BY <1>1
  <2>2. AtSigns(tokens) \in Nat /\ 2 <= AtSigns(tokens)
    BY <1>1, <1>2, <2>1, AtSignsEnough
  <2> QED BY <2>2
<1>3. SkipBalanced(tokens, p + 2, "(", ")") = p + 7
  <2>1. p + 2 \in Nat \ {0} /\ p + 6 \in Nat /\ p + 2 < p + 6 /\ p + 6 <= Len(tokens)
    BY <1>1
  <2>2. \A i \in p + 2 .. p + 6 : i \in {p + 2, p + 3, p + 4, p + 5, p + 6}
    BY <1>1
  <2>3. BracketsAt(tokens, "(", ")", p + 2, p + 6, {p + 2, p + 6})
    BY <1>2, <2>2 DEF BracketsAt
  <2>4. SkipBalanced(tokens, p + 2, "(", ")") = (p + 6) + 1
    <3>1. "(" # ")"
      OBVIOUS
    <3>2. Plain(tokens, "(", ")", p + 2, p + 6)
      BY <1>2, <2>1, <2>3, <3>1 DEF Plain
    <3> QED BY <3>2, BalancedOnce, Zenon
  <2> QED BY <1>1, <2>4
<1>4. PICK f : SkippedBy(tokens, p, f)
  BY <1>1, SkipSteps, Zenon
<1>5. /\ At(tokens, p) = "@" /\ At(tokens, p + 1) = "a" /\ At(tokens, p + 2) = "("
      /\ At(tokens, p + 7) = "@" /\ At(tokens, p + 8) = "b"
  BY <1>1, <1>2 DEF At
<1>6. f[1] = p + 7
  <2>1. 1 \in 1 .. AtSigns(tokens) /\ 1 - 1 = 0
    BY <1>0
  <2>2. f[0] = p
    BY <1>4 DEF SkippedBy
  <2>3. f[1] = IF At(tokens, p) # "@" THEN p
               ELSE IF At(tokens, p + 1) \notin Names THEN Failed ELSE SkipArguments(tokens, p + 2)
    BY <1>4, <2>1, <2>2 DEF SkippedBy
  <2>4. SkipArguments(tokens, p + 2) = p + 7
    BY <1>3, <1>5 DEF SkipArguments
  <2> QED BY <1>5, <2>3, <2>4 DEF Names
<1>7. f[2] = p + 9
  <2>1. 2 \in 1 .. AtSigns(tokens) /\ 2 - 1 = 1 /\ (p + 7) + 1 = p + 8 /\ (p + 7) + 2 = p + 9
    BY <1>0, <1>1
  <2>3. f[2] = IF At(tokens, p + 7) # "@" THEN p + 7
               ELSE IF At(tokens, p + 8) \notin Names THEN Failed ELSE SkipArguments(tokens, p + 9)
    BY <1>4, <1>6, <2>1 DEF SkippedBy
  <2>4. At(tokens, p + 9) # "("
    BY <1>1
  <2>5. SkipArguments(tokens, p + 9) = p + 9
    BY <2>4 DEF SkipArguments
  <2> QED BY <1>5, <2>3, <2>5 DEF Names
<1> QED BY <1>0, <1>4, <1>7, SkipEnds

-----------------------------------------------------------------------------
(* The read-only guard: a definition is read as it was written. *)
Readable == Names \cup Punctuation \cup {"literal", "comment"}
Ignored == {"comment", "comma"}

LEMMA WithoutAll ==
  ASSUME NEW R, NEW seq \in Seq(R), NEW S, \A i \in 1 .. Len(seq) : seq[i] \in S
  PROVE  Without(seq, S) = <<>>
<1> DEFINE w == Without(seq, S)
<1>1. w \in Seq(R)
  BY WithoutTyped, Zenon
<1>2. \A i \in 1 .. Len(w) : \E j \in 1 .. Len(seq) : w[i] = seq[j] /\ seq[j] \notin S
  BY WithoutElements, Zenon
<1> HIDE DEF w
<1>3. Len(w) = 0
  BY <1>1, <1>2
<1>4. w = <<>>
  BY <1>1, <1>3
<1> QED BY <1>4 DEF w

LEMMA ReadableLexemes ==
  /\ \A x \in OperationTypes \cup {"fragment", "on", "a", "b", "mutation"} : x \in Readable /\ x \in Names
  /\ "lbrace" \in Readable /\ "rbrace" \in Readable /\ "(" \in Readable /\ ")" \in Readable
  /\ "$" \in Readable /\ ":" \in Readable /\ "=" \in Readable /\ "@" \in Readable /\ "comma" \in Readable
  /\ "literal" \in Readable /\ "comment" \in Readable /\ "query" \in Readable
  /\ Readable \subseteq Lexemes
  /\ \A x \in Readable : x \notin Unreadable
BY DEF Readable, Names, OperationTypes, Punctuation, Lexemes, Unreadable

LEMMA SelectionRead ==
  /\ <<"lbrace", "query", "lbrace", "mutation", "comma", "b", "rbrace", "rbrace">> \in Seq(Readable)
  /\ Without(<<"lbrace", "query", "lbrace", "mutation", "comma", "b", "rbrace", "rbrace">>, Ignored) = Selection
<1>0. ASSUME NEW R, "lbrace" \in R, "rbrace" \in R, "query" \in R, "mutation" \in R, "comma" \in R, "b" \in R
      PROVE  /\ <<"lbrace", "query", "lbrace", "mutation">> \in Seq(R) /\ <<"comma">> \in Seq(R)
             /\ <<"b", "rbrace", "rbrace">> \in Seq(R)
             /\ <<"lbrace", "query", "lbrace", "mutation">> \o <<"comma">> \in Seq(R)
             /\ <<"lbrace", "query", "lbrace", "mutation", "comma", "b", "rbrace", "rbrace">> \in Seq(R)
             /\ <<"lbrace", "query", "lbrace", "mutation", "comma", "b", "rbrace", "rbrace">>
                 = (<<"lbrace", "query", "lbrace", "mutation">> \o <<"comma">>) \o <<"b", "rbrace", "rbrace">>
             /\ Selection = (<<"lbrace", "query", "lbrace", "mutation">> \o <<>>) \o <<"b", "rbrace", "rbrace">>
  BY <1>0 DEF Selection
<1> DEFINE first == <<"lbrace", "query", "lbrace", "mutation">>
           last == <<"b", "rbrace", "rbrace">>
           whole == <<"lbrace", "query", "lbrace", "mutation", "comma", "b", "rbrace", "rbrace">>
<1>1. /\ first \in Seq(Readable) /\ <<"comma">> \in Seq(Readable) /\ last \in Seq(Readable)
      /\ first \o <<"comma">> \in Seq(Readable) /\ whole \in Seq(Readable)
      /\ whole = (first \o <<"comma">>) \o last /\ Selection = (first \o <<>>) \o last
  <2>1. \A x \in {"mutation", "b"} : x \in Readable
    BY ReadableLexemes
  <2> QED BY <1>0, <2>1, ReadableLexemes
<1>2. ASSUME NEW S, "lbrace" \notin S, "rbrace" \notin S, "query" \notin S, "mutation" \notin S, "b" \notin S,
             "comma" \in S
      PROVE  /\ \A i \in 1 .. Len(first) : first[i] \notin S
             /\ \A i \in 1 .. Len(last) : last[i] \notin S
             /\ \A i \in 1 .. Len(<<"comma">>) : <<"comma">>[i] \in S
  BY <1>2
<1>3. /\ "lbrace" \notin Ignored /\ "rbrace" \notin Ignored /\ "query" \notin Ignored
      /\ "mutation" \notin Ignored /\ "b" \notin Ignored /\ "comma" \in Ignored
  BY DEF Ignored
<1> HIDE DEF first, last, whole
<1>5. Without(first, Ignored) = first /\ Without(last, Ignored) = last
  BY <1>1, <1>2, <1>3, WithoutNone, Zenon
<1>6. Without(<<"comma">>, Ignored) = <<>>
  BY <1>1, <1>2, <1>3, WithoutAll, Zenon
<1>7. Splits(first \o <<"comma">>, last, Ignored)
  BY <1>1, WithoutConcat, Zenon
<1>8. Splits(first, <<"comma">>, Ignored)
  BY <1>1, WithoutConcat, Zenon
<1>9. Without(whole, Ignored) = Selection
  BY <1>1, <1>5, <1>6, <1>7, <1>8, Zenon DEF Splits
<1> QED BY <1>1, <1>9, Zenon DEF whole

LEMMA VariablesRead ==
  Variables \in Seq(Readable) /\ Without(Variables, Ignored) = Variables
<1>0. ASSUME NEW R, "(" \in R, "$" \in R, "a" \in R, ":" \in R, "b" \in R, "=" \in R, "lbrace" \in R,
             "literal" \in R, "rbrace" \in R, ")" \in R
      PROVE  Variables \in Seq(R)
  BY <1>0 DEF Variables
<1>1. Variables \in Seq(Readable)
  <2>1. \A x \in {"a", "b"} : x \in Readable
    BY ReadableLexemes
  <2> QED BY <1>0, <2>1, ReadableLexemes
<1>2. ASSUME NEW S, "(" \notin S, "$" \notin S, "a" \notin S, ":" \notin S, "b" \notin S, "=" \notin S,
             "lbrace" \notin S, "literal" \notin S, "rbrace" \notin S, ")" \notin S
      PROVE  \A i \in 1 .. Len(Variables) : Variables[i] \notin S
  BY <1>2 DEF Variables
<1>3. /\ "(" \notin Ignored /\ "$" \notin Ignored /\ "a" \notin Ignored /\ ":" \notin Ignored /\ "b" \notin Ignored
      /\ "=" \notin Ignored /\ "lbrace" \notin Ignored /\ "literal" \notin Ignored /\ "rbrace" \notin Ignored
      /\ ")" \notin Ignored
  BY DEF Ignored
<1> QED BY <1>1, <1>2, <1>3, WithoutNone, Zenon

LEMMA DirectivesRead ==
  /\ <<"comment", "@", "a", "(", "b", ":", "literal", ")", "@", "b">> \in Seq(Readable)
  /\ Without(<<"comment", "@", "a", "(", "b", ":", "literal", ")", "@", "b">>, Ignored) = Directives
<1> DEFINE whole == <<"comment", "@", "a", "(", "b", ":", "literal", ")", "@", "b">>
<1>0. ASSUME NEW R, "comment" \in R, "(" \in R, "@" \in R, "a" \in R, ":" \in R, "b" \in R, "literal" \in R, ")" \in R
      PROVE  /\ Directives \in Seq(R) /\ <<"comment">> \in Seq(R) /\ whole \in Seq(R)
             /\ whole = <<"comment">> \o Directives /\ Directives = <<>> \o Directives
  BY <1>0 DEF Directives
<1>1. /\ Directives \in Seq(Readable) /\ <<"comment">> \in Seq(Readable) /\ whole \in Seq(Readable)
      /\ whole = <<"comment">> \o Directives /\ Directives = <<>> \o Directives
  <2>1. \A x \in {"a", "b"} : x \in Readable
    BY ReadableLexemes
  <2> HIDE DEF whole
  <2> QED BY <1>0, <2>1, ReadableLexemes
<1>2. ASSUME NEW S, "comment" \in S, "(" \notin S, "@" \notin S, "a" \notin S, ":" \notin S, "b" \notin S,
             "literal" \notin S, ")" \notin S
      PROVE  /\ \A i \in 1 .. Len(Directives) : Directives[i] \notin S
             /\ \A i \in 1 .. Len(<<"comment">>) : <<"comment">>[i] \in S
  BY <1>2 DEF Directives
<1>3. /\ "(" \notin Ignored /\ "@" \notin Ignored /\ "a" \notin Ignored /\ ":" \notin Ignored /\ "b" \notin Ignored
      /\ "literal" \notin Ignored /\ ")" \notin Ignored /\ "comment" \in Ignored
  BY DEF Ignored
<1> HIDE DEF whole
<1>4. Without(Directives, Ignored) = Directives /\ Without(<<"comment">>, Ignored) = <<>>
  BY <1>1, <1>2, <1>3, WithoutNone, WithoutAll, Zenon
<1>5. Splits(<<"comment">>, Directives, Ignored)
  BY <1>1, WithoutConcat, Zenon
<1>6. Without(whole, Ignored) = Directives
  BY <1>1, <1>4, <1>5, Zenon DEF Splits
<1> QED BY <1>1, <1>6, Zenon DEF whole

\* A definition of each kind, as it is read.
IsShorthand(d) == d.kind = "shorthand" /\ d.name = None
IsFragment(d) == d.kind = "fragment" /\ d.name = "b" /\ d.extras = TRUE
IsOperation(d) == d.kind \in OperationTypes /\ d.name \in {None, "mutation"} /\ d.extras \in BOOLEAN

LEMMA DefinitionKinds ==
  ASSUME NEW d \in Definitions
  PROVE  IsShorthand(d) \/ IsFragment(d) \/ IsOperation(d)
<1>1. CASE d \in {[kind |-> "shorthand", name |-> None, extras |-> FALSE]}
  BY <1>1 DEF IsShorthand
<1>2. CASE d \in [kind : OperationTypes, name : {None, "mutation"}, extras : BOOLEAN]
  BY <1>2, Zenon DEF IsOperation
<1>3. CASE d \in [kind : {"fragment"}, name : {"b"}, extras : {TRUE}]
  <2>1. d.kind \in {"fragment"} /\ d.name \in {"b"} /\ d.extras \in {TRUE}
    BY <1>3, Zenon
  <2> QED BY <2>1, Zenon DEF IsFragment
<1> QED BY <1>1, <1>2, <1>3, Zenon DEF Definitions

Named(d) == IF d.name = None THEN <<>> ELSE <<d.name>>
Extras(d) == IF d.extras THEN Variables \o Directives ELSE <<>>
FragmentHead(d) == <<"fragment", d.name, "on", "a">>
OperationHead(d) == <<d.kind>> \o Named(d)

LEMMA HeadsRead ==
  ASSUME NEW d \in Definitions
  PROVE  /\ IsFragment(d) => /\ FragmentHead(d) \in Seq(Readable)
                             /\ Without(FragmentHead(d), Ignored) = FragmentHead(d)
         /\ IsOperation(d) => /\ <<d.kind>> \in Seq(Readable) /\ Named(d) \in Seq(Readable)
                              /\ Without(<<d.kind>>, Ignored) = <<d.kind>>
                              /\ Without(Named(d), Ignored) = Named(d)
<1>0. \A x \in OperationTypes \cup {"fragment", "on", "a", "b", "mutation"} : x \in Readable /\ x \notin Ignored
  BY ReadableLexemes DEF Ignored, OperationTypes
<1>1. ASSUME NEW R, NEW x \in R, NEW y \in R, NEW z \in R, NEW u \in R,
             x \notin Ignored, y \notin Ignored, z \notin Ignored, u \notin Ignored
      PROVE  /\ <<x, y, z, u>> \in Seq(R) /\ <<x>> \in Seq(R) /\ <<>> \in Seq(R)
             /\ \A i \in 1 .. Len(<<x, y, z, u>>) : <<x, y, z, u>>[i] \notin Ignored
             /\ \A i \in 1 .. Len(<<x>>) : <<x>>[i] \notin Ignored
             /\ \A i \in 1 .. Len(<<>>) : <<>>[i] \notin Ignored
  BY <1>1
<1>2. ASSUME IsFragment(d)
      PROVE  FragmentHead(d) \in Seq(Readable) /\ Without(FragmentHead(d), Ignored) = FragmentHead(d)
  <2>1. /\ FragmentHead(d) \in Seq(Readable)
        /\ \A i \in 1 .. Len(FragmentHead(d)) : FragmentHead(d)[i] \notin Ignored
    <3>1. d.name = "b" /\ \A x \in {"fragment", "on", "a", "b"} : x \in Readable /\ x \notin Ignored
      BY <1>0, <1>2 DEF IsFragment
    <3> QED BY <1>1, <3>1 DEF FragmentHead
  <2> QED BY <2>1, WithoutNone, Zenon
<1>3. ASSUME IsOperation(d)
      PROVE  /\ <<d.kind>> \in Seq(Readable) /\ Named(d) \in Seq(Readable)
             /\ Without(<<d.kind>>, Ignored) = <<d.kind>> /\ Without(Named(d), Ignored) = Named(d)
  <2>1. d.kind \in Readable /\ d.kind \notin Ignored /\ (d.name # None => d.name \in Readable /\ d.name \notin Ignored)
    <3>1. d.kind \in OperationTypes /\ (d.name = None \/ d.name = "mutation")
      BY <1>3 DEF IsOperation
    <3>2. d.kind \in Readable /\ d.kind \notin Ignored
      BY <1>0, <3>1, Zenon
    <3>3. "mutation" \in Readable /\ "mutation" \notin Ignored
      BY <1>0
    <3>4. d.name # None => d.name \in Readable /\ d.name \notin Ignored
      BY <3>1, <3>3
    <3> QED BY <3>2, <3>4
  <2>2. <<d.kind>> \in Seq(Readable) /\ \A i \in 1 .. Len(<<d.kind>>) : <<d.kind>>[i] \notin Ignored
    BY <1>1, <2>1, Zenon
  <2>3. Named(d) \in Seq(Readable) /\ \A i \in 1 .. Len(Named(d)) : Named(d)[i] \notin Ignored
    BY <1>1, <2>1, Zenon DEF Named
  <2> QED BY <2>2, <2>3, WithoutNone, Zenon
<1> QED BY <1>2, <1>3

LEMMA DefinitionRead ==
  ASSUME NEW d \in Definitions
  PROVE  /\ Render(d) \in Seq(Readable)
         /\ IsShorthand(d) => Without(Render(d), Ignored) = Selection
         /\ IsFragment(d) => Without(Render(d), Ignored) = (FragmentHead(d) \o Directives) \o Selection
         /\ IsOperation(d) => Without(Render(d), Ignored) = (OperationHead(d) \o Extras(d)) \o Selection
<1> DEFINE selection == <<"lbrace", "query", "lbrace", "mutation", "comma", "b", "rbrace", "rbrace">>
           variables == <<"(", "$", "a", ":", "b", "=", "lbrace", "a", ":", "literal", "rbrace", ")">>
           directives == <<"comment", "@", "a", "(", "b", ":", "literal", ")", "@", "b">>
           extras == IF d.extras THEN variables \o directives ELSE <<>>
<1>1. selection \in Seq(Readable) /\ Without(selection, Ignored) = Selection
  BY SelectionRead, Zenon
<1>2. directives \in Seq(Readable) /\ Without(directives, Ignored) = Directives
  BY DirectivesRead, Zenon
<1>3. variables = Variables /\ variables \in Seq(Readable) /\ Without(variables, Ignored) = Variables
  BY VariablesRead, Zenon DEF Variables
<1>4. <<>> \in Seq(Readable) /\ Without(<<>>, Ignored) = <<>>
  <2>1. <<>> \in Seq(Readable) /\ \A i \in 1 .. Len(<<>>) : <<>>[i] \notin Ignored
    OBVIOUS
  <2> QED BY <2>1, WithoutNone, Zenon
<1>a. \A s, t \in Seq(Readable) : s \o t \in Seq(Readable) /\ Without(s \o t, Ignored) = Without(s, Ignored) \o Without(t, Ignored)
  <2> TAKE s, t \in Seq(Readable)
  <2>1. s \o t \in Seq(Readable)
    OBVIOUS
  <2>2. Splits(s, t, Ignored)
    BY WithoutConcat, Zenon
  <2> QED BY <2>1, <2>2, Zenon DEF Splits
<1>5. IsShorthand(d) => Render(d) = selection
  BY Zenon DEF Render, IsShorthand
<1>6. IsFragment(d) => Render(d) = (FragmentHead(d) \o directives) \o selection
  <2>1. ASSUME IsFragment(d) PROVE d.kind # "shorthand" /\ d.kind = "fragment" /\ d.extras = TRUE
    BY <2>1 DEF IsFragment
  <2> QED BY <2>1, Zenon DEF Render, FragmentHead
<1>7. IsOperation(d) => Render(d) = ((<<d.kind>> \o Named(d)) \o extras) \o selection
  <2>1. ASSUME IsOperation(d) PROVE d.kind # "shorthand" /\ d.kind # "fragment"
    BY <2>1 DEF IsOperation, OperationTypes
  <2> QED BY <2>1, Zenon DEF Render, Named
<1> HIDE DEF selection, directives, variables
<1>8. extras \in Seq(Readable) /\ Without(extras, Ignored) = Extras(d)
  BY <1>2, <1>3, <1>4, <1>a, Zenon DEF Extras
<1> HIDE DEF extras
<1>9. CASE IsShorthand(d)
  <2>1. ~IsFragment(d) /\ ~IsOperation(d)
    BY <1>9 DEF IsShorthand, IsFragment, IsOperation, OperationTypes
  <2> QED BY <1>1, <1>5, <1>9, <2>1, Zenon
<1>10. CASE IsFragment(d)
  <2>1. ~IsShorthand(d) /\ ~IsOperation(d)
    BY <1>10 DEF IsShorthand, IsFragment, IsOperation, OperationTypes
  <2>2. FragmentHead(d) \in Seq(Readable) /\ Without(FragmentHead(d), Ignored) = FragmentHead(d)
    BY <1>10, HeadsRead
  <2>3. /\ FragmentHead(d) \o directives \in Seq(Readable)
        /\ Without(FragmentHead(d) \o directives, Ignored) = FragmentHead(d) \o Directives
    BY <1>2, <1>a, <2>2, Zenon
  <2> QED BY <1>1, <1>6, <1>10, <1>a, <2>1, <2>3, Zenon
<1>11. CASE IsOperation(d)
  <2>1. ~IsShorthand(d) /\ ~IsFragment(d)
    BY <1>11 DEF IsShorthand, IsFragment, IsOperation, OperationTypes
  <2>2. /\ <<d.kind>> \in Seq(Readable) /\ Named(d) \in Seq(Readable)
        /\ Without(<<d.kind>>, Ignored) = <<d.kind>> /\ Without(Named(d), Ignored) = Named(d)
    BY <1>11, HeadsRead
  <2>3. /\ OperationHead(d) \in Seq(Readable) /\ Without(OperationHead(d), Ignored) = OperationHead(d)
    BY <1>a, <2>2, Zenon DEF OperationHead
  <2>4. /\ OperationHead(d) \o extras \in Seq(Readable)
        /\ Without(OperationHead(d) \o extras, Ignored) = OperationHead(d) \o Extras(d)
    BY <1>8, <1>a, <2>3, Zenon
  <2>5. Render(d) = (OperationHead(d) \o extras) \o selection
    BY <1>7, <1>11, Zenon DEF OperationHead
  <2> QED BY <1>1, <1>11, <1>a, <2>1, <2>4, <2>5, Zenon
<1> QED BY <1>9, <1>10, <1>11, DefinitionKinds

Lexed(d) == Without(Render(d), Ignored)
OpsOf(d) ==
  IF d.kind = "fragment" THEN <<>>
  ELSE <<Operation(IF d.kind = "shorthand" THEN "query" ELSE d.kind, d.name)>>

LEMMA SelectionBody ==
  ASSUME NEW tokens \in Seq(Lexemes), NEW p, Holds(tokens, p, Selection)
  PROVE  SkipBody(tokens, p) = p + 7 /\ At(tokens, p) = "lbrace" /\ p \in Nat \ {0}
<1>1. p \in Nat \ {0} /\ p + 7 <= Len(tokens) + 1 /\ tokens[p] = "lbrace"
  BY SelectionHeld
<1>2. At(tokens, p) = "lbrace"
  BY <1>1 DEF At
<1>3. SkipDirectives(tokens, p) = p
  BY <1>1, <1>2, NoDirectives
<1>4. SkipBalanced(tokens, p, "lbrace", "rbrace") = p + 7
  BY SelectionSkipped
<1> QED BY <1>1, <1>2, <1>3, <1>4, Zenon DEF SkipBody

LEMMA DirectedBody ==
  ASSUME NEW tokens \in Seq(Lexemes), NEW p, Holds(tokens, p, Directives), Holds(tokens, p + 9, Selection)
  PROVE  SkipBody(tokens, p) = p + 16
<1>1. p \in Nat \ {0}
  BY DirectivesHeld
<1>2. At(tokens, p + 9) = "lbrace"
  BY SelectionBody
<1>3. SkipDirectives(tokens, p) = p + 9
  BY <1>2, DirectivesSkipped
<1>4. SkipBalanced(tokens, p + 9, "lbrace", "rbrace") = (p + 9) + 7
  BY SelectionSkipped
<1>5. SkipBody(tokens, p) = (p + 9) + 7
  BY <1>3, <1>4, Zenon DEF SkipBody
<1> QED BY <1>1, <1>5

LEMMA ShorthandParsed ==
  ASSUME NEW tokens \in Seq(Lexemes), NEW p, NEW d \in Definitions, IsShorthand(d), Holds(tokens, p, Lexed(d))
  PROVE  ParseDefinition(tokens, p) = [ops |-> OpsOf(d), next |-> p + Len(Lexed(d))]
<1>1. Lexed(d) = Selection /\ Len(Lexed(d)) = 7
  BY DefinitionRead, SelectionLexemes DEF Lexed
<1>2. At(tokens, p) = "lbrace" /\ SkipBalanced(tokens, p, "lbrace", "rbrace") = p + 7
  BY <1>1, SelectionBody, SelectionSkipped
<1>3. At(tokens, p) # "fragment" /\ At(tokens, p) \notin OperationTypes
  BY <1>2 DEF OperationTypes
<1>4. ParseDefinition(tokens, p) = [ops |-> <<Operation("query", None)>>, next |-> p + 7]
  BY <1>2, <1>3, Zenon DEF ParseDefinition
<1>5. OpsOf(d) = <<Operation("query", None)>>
  <2>1. d.kind = "shorthand" /\ d.kind # "fragment" /\ d.name = None
    BY DEF IsShorthand
  <2> QED BY <2>1, Zenon DEF OpsOf
<1> QED BY <1>1, <1>4, <1>5, Zenon

LEMMA FragmentParsed ==
  ASSUME NEW tokens \in Seq(Lexemes), NEW p, NEW d \in Definitions, IsFragment(d), Holds(tokens, p, Lexed(d))
  PROVE  ParseDefinition(tokens, p) = [ops |-> OpsOf(d), next |-> p + Len(Lexed(d))]
<1> DEFINE h == FragmentHead(d)
           hd == h \o Directives
           l == Lexed(d)
<1>0. Joins(l, hd, Selection) /\ Joins(hd, h, Directives)
  <2>1. l = hd \o Selection
    BY DefinitionRead DEF Lexed
  <2> HIDE DEF l
  <2> QED BY <2>1 DEF Joins
<1>1. h \in Seq(Lexemes) /\ Directives \in Seq(Lexemes) /\ Selection \in Seq(Lexemes)
  <2>1. h \in Seq(Readable) /\ Readable \subseteq Lexemes
    BY HeadsRead, ReadableLexemes
  <2> HIDE DEF h
  <2>2. h \in Seq(Lexemes)
    BY <2>1
  <2> QED BY <2>2, DirectivesTyped, SelectionTyped
<1>2. Len(h) = 4 /\ h[1] = "fragment" /\ h[2] = "b" /\ h[3] = "on" /\ h[4] = "a"
  BY DEF FragmentHead, IsFragment
<1> HIDE DEF h, hd, l
<1>3. hd \in Seq(Lexemes) /\ Len(hd) = 13 /\ Len(l) = 20
  <2>1. hd \in Seq(Lexemes) /\ Len(hd) = Len(h) + Len(Directives)
    BY <1>0, <1>1, JoinsTyped, JoinsLength
  <2>2. Len(l) = Len(hd) + Len(Selection)
    BY <1>0, <1>1, <2>1, JoinsTyped, JoinsLength
  <2> QED BY <1>2, <2>1, <2>2, Lengths
<1>4. Holds(tokens, p, hd) /\ Holds(tokens, p + 13, Selection)
  <2>1. Holds(tokens, p, l) /\ p + 13 = p + Len(hd)
    BY <1>3 DEF l
  <2> QED BY <1>0, <1>1, <1>3, <2>1, HoldsConcat, Zenon
<1>5. Holds(tokens, p, h) /\ Holds(tokens, p + 4, Directives)
  <2>1. p + 4 = p + Len(h)
    BY <1>2
  <2> QED BY <1>0, <1>1, <1>4, <2>1, HoldsConcat, Zenon
<1>6. /\ p \in Nat \ {0} /\ p + 4 <= Len(tokens) + 1
      /\ tokens[p] = "fragment" /\ tokens[p + 1] = "b" /\ tokens[p + 2] = "on" /\ tokens[p + 3] = "a"
  <2>1. \A s : Holds(tokens, p, s) /\ Len(s) = 4 =>
           /\ p \in Nat \ {0} /\ p + 4 <= Len(tokens) + 1
           /\ tokens[p] = s[1] /\ tokens[p + 1] = s[2] /\ tokens[p + 2] = s[3] /\ tokens[p + 3] = s[4]
    BY DEF Holds
  <2> QED BY <1>2, <1>5, <2>1
<1>7. /\ At(tokens, p) = "fragment" /\ At(tokens, p + 1) = "b" /\ At(tokens, p + 2) = "on"
      /\ At(tokens, p + 3) = "a"
  BY <1>6 DEF At
<1>8. SkipBody(tokens, p + 4) = p + 20
  <2>1. (p + 4) + 9 = p + 13 /\ (p + 4) + 16 = p + 20
    BY <1>6
  <2> QED BY <1>4, <1>5, <2>1, DirectedBody
<1>9. /\ At(tokens, p) # "lbrace" /\ At(tokens, p) \notin OperationTypes
      /\ At(tokens, p + 1) \in Names /\ At(tokens, p + 3) \in Names
  BY <1>7 DEF OperationTypes, Names
<1>10. ParseDefinition(tokens, p) = [ops |-> <<>>, next |-> p + 20]
  BY <1>7, <1>8, <1>9, Zenon DEF ParseDefinition
<1>11. OpsOf(d) = <<>>
  BY Zenon DEF OpsOf, IsFragment
<1> QED BY <1>3, <1>10, <1>11, Zenon DEF l

LEMMA OperationParsed ==
  ASSUME NEW tokens \in Seq(Lexemes), NEW p, NEW d \in Definitions, IsOperation(d), Holds(tokens, p, Lexed(d))
  PROVE  ParseDefinition(tokens, p) = [ops |-> OpsOf(d), next |-> p + Len(Lexed(d))]
<1> DEFINE h == OperationHead(d)
           e == Extras(d)
           he == h \o e
           l == Lexed(d)
           q == p + Len(h)
<1>0. Joins(l, he, Selection) /\ Joins(he, h, e)
  <2>1. l = he \o Selection
    BY DefinitionRead DEF Lexed
  <2> HIDE DEF l
  <2> QED BY <2>1 DEF Joins
<1> HIDE DEF l, he
<1>a. d.kind \in OperationTypes /\ (d.name = None \/ d.name = "mutation") /\ d.extras \in BOOLEAN /\ None \notin Names
  BY ParserAssumption DEF IsOperation
<1>1. /\ <<d.kind>> \in Seq(Lexemes) /\ Named(d) \in Seq(Lexemes) /\ Variables \in Seq(Lexemes)
      /\ Directives \in Seq(Lexemes) /\ Selection \in Seq(Lexemes)
  <2>1. <<d.kind>> \in Seq(Readable) /\ Named(d) \in Seq(Readable) /\ Readable \subseteq Lexemes
    BY HeadsRead, ReadableLexemes
  <2>2. \A s \in Seq(Readable) : s \in Seq(Lexemes)
    BY <2>1
  <2> QED BY <2>1, <2>2, VariablesTyped, DirectivesTyped, SelectionTyped, Zenon
<1>2. /\ h \in Seq(Lexemes) /\ h[1] = d.kind /\ Len(h) \in Nat
      /\ d.name = None => Len(h) = 1
      /\ d.name # None => Len(h) = 2 /\ h[2] = d.name
  <2>1. CASE d.name = None
    <3>1. Named(d) = <<>>
      BY <2>1 DEF Named
    <3>2. <<d.kind>> \o <<>> = <<d.kind>>
      BY <1>1
    <3>3. h = <<d.kind>>
      BY <3>1, <3>2, Zenon DEF OperationHead
    <3> HIDE DEF h
    <3> QED BY <1>1, <2>1, <3>3
  <2>2. CASE d.name # None
    <3>1. Named(d) = <<d.name>>
      BY <2>2 DEF Named
    <3>2. <<d.kind>> \o <<d.name>> = <<d.kind, d.name>>
      <4>1. d.kind \in Readable /\ d.name \in Readable
        BY <1>a, <2>2, ReadableLexemes
      <4> QED BY <4>1, Pair, Zenon DEF Joins
    <3>3. h = <<d.kind, d.name>>
      BY <3>1, <3>2, Zenon DEF OperationHead
    <3>4. h \in Seq(Lexemes)
      BY <1>1 DEF OperationHead
    <3> HIDE DEF h
    <3> QED BY <2>2, <3>3, <3>4
  <2> QED BY <2>1, <2>2
<1>3. /\ e \in Seq(Lexemes) /\ Len(e) \in Nat
      /\ d.extras => Joins(e, Variables, Directives) /\ Len(e) = 21
      /\ ~d.extras => Len(e) = 0
  <2>1. CASE d.extras
    <3>1. e = Variables \o Directives /\ Joins(e, Variables, Directives)
      BY <2>1 DEF Extras, Joins
    <3> HIDE DEF e
    <3>2. e \in Seq(Lexemes) /\ Len(e) = Len(Variables) + Len(Directives)
      BY <1>1, <3>1, JoinsTyped, JoinsLength
    <3>3. Len(e) = 21
      BY <3>2, Lengths
    <3> QED BY <2>1, <3>1, <3>2, <3>3
  <2>2. CASE ~d.extras
    <3>1. e = <<>>
      BY <2>2 DEF Extras
    <3> HIDE DEF e
    <3> QED BY <2>2, <3>1
  <2> QED BY <2>1, <2>2
<1> HIDE DEF h, e
<1>4. he \in Seq(Lexemes) /\ Len(he) = Len(h) + Len(e) /\ Len(l) = Len(h) + Len(e) + 7
  <2>1. he \in Seq(Lexemes) /\ Len(he) = Len(h) + Len(e)
    BY <1>0, <1>2, <1>3, JoinsTyped, JoinsLength
  <2>2. Len(l) = Len(he) + Len(Selection)
    BY <1>0, <1>1, <2>1, JoinsTyped, JoinsLength
  <2> QED BY <1>2, <1>3, <2>1, <2>2, Lengths
<1>5. Holds(tokens, p, he) /\ Holds(tokens, p + Len(he), Selection)
  <2>1. Holds(tokens, p, l)
    BY DEF l
  <2> QED BY <1>0, <1>1, <1>4, <2>1, HoldsConcat, Zenon
<1>6. Holds(tokens, p, h) /\ Holds(tokens, q, e)
  BY <1>0, <1>2, <1>3, <1>5, HoldsConcat, Zenon
<1>7. p \in Nat \ {0} /\ q \in Nat /\ p + Len(h) <= Len(tokens) + 1
  BY <1>2, <1>6 DEF Holds
<1>8. Holds(tokens, q + Len(e), Selection)
  <2>1. p + Len(he) = q + Len(e)
    BY <1>2, <1>3, <1>4, <1>7
  <2> QED BY <1>5, <2>1
<1>9. At(tokens, p) = d.kind /\ (d.name # None => At(tokens, p + 1) = d.name)
  <2>1. /\ Len(h) >= 1 => tokens[p] = h[1]
        /\ Len(h) >= 2 => tokens[p + 1] = h[2]
    BY <1>2, <1>6, <1>7 DEF Holds
  <2> QED BY <1>2, <1>7, <2>1 DEF At
<1>10. /\ SkipBody(tokens, SkipArguments(tokens, q)) = q + Len(e) + 7
       /\ At(tokens, q) \notin Names
  <2>1. CASE d.extras
    <3>1. Holds(tokens, q, Variables) /\ Holds(tokens, q + 12, Directives)
      <4>1. Joins(e, Variables, Directives) /\ q + 12 = q + Len(Variables)
        BY <1>3, <2>1, Lengths
      <4> HIDE DEF q, e
      <4> QED BY <1>1, <1>6, <4>1, HoldsConcat, Zenon
    <3>2. q + Len(e) = (q + 12) + 9 /\ q + Len(e) + 7 = (q + 12) + 16
      <4>1. Len(e) = 21 /\ q \in Nat
        BY <1>3, <1>7, <2>1
      <4> HIDE DEF q
      <4> QED BY <4>1
    <3>3. SkipArguments(tokens, q) = q + 12
      BY <3>1, VariablesSkipped
    <3>4. SkipBody(tokens, q + 12) = (q + 12) + 16
      BY <1>8, <3>1, <3>2, DirectedBody
    <3>5. At(tokens, q) = "("
      <4>1. tokens[q] = "(" /\ q \in Nat \ {0} /\ q + 12 <= Len(tokens) + 1
        BY <3>1, VariablesHeld
      <4> QED BY <4>1 DEF At
    <3>6. "(" \notin Names
      BY DEF Names, OperationTypes
    <3> QED BY <3>2, <3>3, <3>4, <3>5, <3>6, Zenon
  <2>2. CASE ~d.extras
    <3>1. q + Len(e) = q /\ q + Len(e) + 7 = q + 7
      BY <1>3, <1>7, <2>2
    <3>2. SkipBody(tokens, q) = q + 7 /\ At(tokens, q) = "lbrace"
      BY <1>8, <3>1, SelectionBody
    <3>3. SkipArguments(tokens, q) = q
      BY <3>2 DEF SkipArguments
    <3>4. "lbrace" \notin Names
      BY DEF Names, OperationTypes
    <3> QED BY <3>1, <3>2, <3>3, <3>4, Zenon
  <2> QED BY <2>1, <2>2, <1>a
<1>11. /\ At(tokens, p + 1) \in Names <=> d.name # None
       /\ q = IF At(tokens, p + 1) \in Names THEN p + 2 ELSE p + 1
  <2>1. CASE d.name = None
    <3>1. q = p + 1
      BY <1>2, <1>7, <2>1
    <3> QED BY <1>10, <2>1, <3>1
  <2>2. CASE d.name # None
    <3>1. q = p + 2 /\ At(tokens, p + 1) = "mutation"
      BY <1>2, <1>7, <1>9, <1>a, <2>2
    <3>2. "mutation" \in Names
      BY DEF Names, OperationTypes
    <3> QED BY <2>2, <3>1, <3>2
  <2> QED BY <2>1, <2>2
<1>12. At(tokens, p) # "lbrace" /\ At(tokens, p) # "fragment" /\ At(tokens, p) \in OperationTypes
  BY <1>9, <1>a DEF OperationTypes
<1>13. tokens[p] = d.kind /\ (At(tokens, p + 1) \in Names => tokens[p + 1] = d.name)
  <2>1. At(tokens, p) # "end"
    BY <1>12 DEF OperationTypes
  <2>2. "end" \notin Names
    BY DEF Names, OperationTypes
  <2>3. tokens[p] = At(tokens, p) /\ (At(tokens, p + 1) \in Names => At(tokens, p + 1) = tokens[p + 1])
    BY <2>1, <2>2 DEF At
  <2> QED BY <1>9, <1>11, <2>3
<1> HIDE DEF q
<1>14. ParseDefinition(tokens, p) =
         [ops |-> <<Operation(tokens[p], IF At(tokens, p + 1) \in Names THEN tokens[p + 1] ELSE None)>>,
          next |-> SkipBody(tokens, SkipArguments(tokens, q))]
  BY <1>11, <1>12, Zenon DEF ParseDefinition
<1>15. <<Operation(tokens[p], IF At(tokens, p + 1) \in Names THEN tokens[p + 1] ELSE None)>> = OpsOf(d)
  <2>1. d.kind # "fragment" /\ d.kind # "shorthand"
    BY <1>a DEF OperationTypes
  <2>2. (IF At(tokens, p + 1) \in Names THEN tokens[p + 1] ELSE None) = d.name
    BY <1>11, <1>13, Zenon
  <2> QED BY <1>13, <2>1, <2>2, Zenon DEF OpsOf
<1>16. SkipBody(tokens, SkipArguments(tokens, q)) = p + Len(Lexed(d))
  BY <1>2, <1>3, <1>4, <1>7, <1>10 DEF q, l
<1> QED BY <1>14, <1>15, <1>16, Zenon

LEMMA DefinitionParsed ==
  ASSUME NEW tokens \in Seq(Lexemes), NEW p, NEW d \in Definitions, Holds(tokens, p, Lexed(d))
  PROVE  ParseDefinition(tokens, p) = [ops |-> OpsOf(d), next |-> p + Len(Lexed(d))]
BY DefinitionKinds, ShorthandParsed, FragmentParsed, OperationParsed, Zenon

\* What is read of a definition is neither nothing nor hidden from the parser.
LEMMA LexedTyped ==
  ASSUME NEW d \in Definitions
  PROVE  Lexed(d) \in Seq(Lexemes) /\ Len(Lexed(d)) >= 2
<1>1. Render(d) \in Seq(Readable) /\ Readable \subseteq Lexemes
  BY DefinitionRead, ReadableLexemes
<1>2. Lexed(d) \in Seq(Readable)
  BY <1>1, WithoutTyped, Zenon DEF Lexed
<1>3. \E s \in Seq(Lexemes) : Joins(Lexed(d), s, Selection)
  <2>0. <<>> \in Seq(Lexemes) /\ Joins(Selection, <<>>, Selection) /\ \A s \in Seq(Readable) : s \in Seq(Lexemes)
    BY <1>1, SelectionTyped DEF Joins
  <2>a. \A s, t \in Seq(Lexemes) : s \o t \in Seq(Lexemes)
    OBVIOUS
  <2>b. \A s : Lexed(d) = s \o Selection => Joins(Lexed(d), s, Selection)
    BY Zenon DEF Joins
  <2>1. CASE IsShorthand(d)
    BY <2>0, <2>1, DefinitionRead, Zenon DEF Lexed
  <2>2. CASE IsFragment(d)
    <3>1. FragmentHead(d) \in Seq(Lexemes)
      BY <2>0, <2>2, HeadsRead, Zenon
    <3>2. FragmentHead(d) \o Directives \in Seq(Lexemes)
      BY <2>a, <3>1, DirectivesTyped
    <3>3. Lexed(d) = (FragmentHead(d) \o Directives) \o Selection
      BY <2>2, DefinitionRead DEF Lexed
    <3> QED BY <2>b, <3>2, <3>3
  <2>3. CASE IsOperation(d)
    <3>1. <<d.kind>> \in Seq(Lexemes) /\ Named(d) \in Seq(Lexemes)
      BY <2>0, <2>3, HeadsRead, Zenon
    <3>2. OperationHead(d) \in Seq(Lexemes)
      BY <2>a, <3>1 DEF OperationHead
    <3>3. Extras(d) \in Seq(Lexemes)
      BY <2>0, <2>a, VariablesTyped, DirectivesTyped DEF Extras
    <3>4. OperationHead(d) \o Extras(d) \in Seq(Lexemes)
      BY <2>a, <3>2, <3>3
    <3>5. Lexed(d) = (OperationHead(d) \o Extras(d)) \o Selection
      BY <2>3, DefinitionRead DEF Lexed
    <3> QED BY <2>b, <3>4, <3>5
  <2> QED BY <2>1, <2>2, <2>3, DefinitionKinds
<1>4. PICK s \in Seq(Lexemes) : Joins(Lexed(d), s, Selection)
  BY <1>3
<1>5. Lexed(d) \in Seq(Lexemes) /\ Len(Lexed(d)) = Len(s) + Len(Selection) /\ Len(s) \in Nat
  BY <1>4, SelectionTyped, JoinsTyped, JoinsLength
<1> QED BY <1>5, Lengths

\* The operation a definition is, and the definitions that are one.
OpOf(d) == Operation(IF d.kind = "shorthand" THEN "query" ELSE d.kind, d.name)
OperationsAmong(document, k) == {i \in 1 .. k : document[i].kind # "fragment"}

\* The operations read are those of the first k definitions, each at its place.
Places(document, k, ops, place) ==
  /\ \A i \in OperationsAmong(document, k) : place[i] \in 1 .. Len(ops) /\ ops[place[i]] = OpOf(document[i])
  /\ \A i, j \in OperationsAmong(document, k) : place[i] = place[j] => i = j
  /\ \A x \in 1 .. Len(ops) : \E i \in OperationsAmong(document, k) : place[i] = x

Written(document, k, ops) == ops \in Seq(Operations) /\ \E place : Places(document, k, ops, place)

LEMMA NothingWritten == ASSUME NEW document PROVE Written(document, 0, <<>>)
<1>1. OperationsAmong(document, 0) = {} /\ <<>> \in Seq(Operations) /\ Len(<<>>) = 0
  BY DEF OperationsAmong
<1>2. Places(document, 0, <<>>, <<>>)
  BY <1>1 DEF Places
<1> QED BY <1>1, <1>2, Zenon DEF Written

LEMMA OneMoreWritten ==
  ASSUME NEW document \in Seq(Definitions), NEW k \in Nat, k + 1 \in 1 .. Len(document),
         NEW ops, Written(document, k, ops)
  PROVE  Written(document, k + 1, ops \o OpsOf(document[k + 1]))
<1> DEFINE d == document[k + 1]
           among == OperationsAmong(document, k)
           more == OperationsAmong(document, k + 1)
<1>1. PICK place : Places(document, k, ops, place)
  BY DEF Written
<1>2. ops \in Seq(Operations) /\ Len(ops) \in Nat
  BY DEF Written
<1>3. /\ \A i \in among : place[i] \in 1 .. Len(ops) /\ ops[place[i]] = OpOf(document[i])
      /\ \A i, j \in among : place[i] = place[j] => i = j
      /\ \A x \in 1 .. Len(ops) : \E i \in among : place[i] = x
  BY <1>1, Zenon DEF Places
<1>4. CASE d.kind = "fragment"
  <2>1. OpsOf(d) = <<>> /\ ops \o <<>> = ops
    BY <1>2, <1>4 DEF OpsOf
  <2>2. more = among
    BY <1>4 DEF OperationsAmong
  <2>3. Places(document, k + 1, ops, place)
    BY <1>1, <2>2, Zenon DEF Places
  <2> QED BY <1>2, <2>1, <2>3, Zenon DEF Written
<1>5. CASE d.kind # "fragment"
  <2> DEFINE o == OpOf(d)
             new == Append(ops, o)
             p == [i \in more |-> IF i = k + 1 THEN Len(ops) + 1 ELSE place[i]]
  <2>1. o \in Operations
    <3>1. (IF d.kind = "shorthand" THEN "query" ELSE d.kind) \in OperationTypes /\ d.name \in Names \cup {None}
      <4>1. d \in Definitions
        OBVIOUS
      <4> HIDE DEF d
      <4>2. IsShorthand(d) \/ IsOperation(d)
        BY <1>5, <4>1, DefinitionKinds DEF IsFragment
      <4>3. CASE IsShorthand(d)
        BY <4>3 DEF IsShorthand, OperationTypes
      <4>4. CASE IsOperation(d)
        BY <4>4 DEF IsOperation, OperationTypes, Names
      <4> QED BY <4>2, <4>3, <4>4
    <3> HIDE DEF d
    <3> QED BY <3>1 DEF OpOf, Operation, Operations
  <2>2. OpsOf(d) = <<o>>
    BY <1>5 DEF OpsOf, OpOf
  <2>3. ops \o <<o>> = new
    <3> HIDE DEF o
    <3> QED BY <1>2, <2>1
  <2>4. /\ new \in Seq(Operations) /\ Len(new) = Len(ops) + 1 /\ new[Len(ops) + 1] = o
        /\ \A x \in 1 .. Len(ops) : new[x] = ops[x]
    <3> HIDE DEF o
    <3> QED BY <1>2, <2>1
  <2>5. /\ \A i \in more : i = k + 1 \/ i \in among
        /\ \A i \in among : i \in more /\ i # k + 1
        /\ k + 1 \in more
    BY <1>5 DEF OperationsAmong
  <2> HIDE DEF new, o, among, more
  <2>6. p[k + 1] = Len(ops) + 1 /\ \A i \in among : p[i] = place[i]
    BY <2>5
  <2>7. \A x \in 1 .. Len(new) : x \in 1 .. Len(ops) \/ x = Len(ops) + 1
    BY <1>2, <2>4
  <2>8. Len(ops) + 1 \in 1 .. Len(new) /\ \A x \in 1 .. Len(ops) : x \in 1 .. Len(new) /\ x # Len(ops) + 1
    BY <1>2, <2>4
  <2> HIDE DEF p
  <2>9. ASSUME NEW i \in more PROVE p[i] \in 1 .. Len(new) /\ new[p[i]] = OpOf(document[i])
    <3>1. CASE i = k + 1
      BY <2>4, <2>6, <2>8, <3>1 DEF o
    <3>2. CASE i \in among
      BY <1>3, <2>4, <2>6, <2>8, <3>2
    <3> QED BY <2>5, <3>1, <3>2
  <2>10. ASSUME NEW i \in more, NEW j \in more, p[i] = p[j] PROVE i = j
    BY <1>3, <2>5, <2>6, <2>8, <2>10
  <2>11. ASSUME NEW x \in 1 .. Len(new) PROVE \E i \in more : p[i] = x
    <3>1. CASE x = Len(ops) + 1
      BY <2>5, <2>6, <3>1
    <3>2. CASE x \in 1 .. Len(ops)
      <4>1. PICK i \in among : place[i] = x
        BY <1>3, <3>2
      <4> QED BY <2>5, <2>6, <4>1
    <3> QED BY <2>7, <3>1, <3>2
  <2>12. Places(document, k + 1, new, p)
    BY <2>9, <2>10, <2>11, Zenon DEF Places, more
  <2>13. Written(document, k + 1, new)
    BY <2>4, <2>12, Zenon DEF Written
  <2> QED BY <2>2, <2>3, <2>13, Zenon
<1> QED BY <1>4, <1>5

-----------------------------------------------------------------------------
(* The read-only guard: a document is read definition by definition. *)
TextOf(document) == Source(document, "none")

\* The lexemes of the first k definitions, the whole document's at the end.
LexedUpTo(document, w) ==
  /\ w[0] = <<>> /\ TokenizeGraphql(TextOf(document)) = w[Len(document)]
  /\ \A k \in 0 .. Len(document) : w[k] \in Seq(Lexemes) /\ Len(w[k]) >= k + k
  /\ \A k \in 1 .. Len(document) : Joins(w[k], w[k - 1], Lexed(document[k]))

LEMMA SeqsConcat ==
  ASSUME NEW R, NEW s \in Seq(R), NEW t \in Seq(R) PROVE s \o t \in Seq(R)
OBVIOUS

LEMMA AtLeast ==
  ASSUME NEW a \in Nat, NEW b \in Nat, NEW k \in Nat, a >= k + k, b >= 2, NEW c, c = a + b
  PROVE  c >= (k + 1) + (k + 1)
OBVIOUS

LEMMA DocumentLexed ==
  ASSUME NEW document \in Seq(Definitions)
  PROVE  \E w : LexedUpTo(document, w)
<1> DEFINE n == Len(document)
           seqs == [i \in DOMAIN document |-> Render(document[i])]
           source == TextOf(document)
<1>1. n \in Nat /\ \A k \in 1 .. n : document[k] \in Definitions
  OBVIOUS
<1>2. seqs \in Seq(Seq(Readable)) /\ Len(seqs) = n /\ \A k \in 1 .. n : seqs[k] = Render(document[k])
  <2>1. \A k \in 1 .. n : Render(document[k]) \in Seq(Readable)
    BY <1>1, DefinitionRead
  <2> DEFINE Texts == Seq(Readable)
  <2>2. \A k \in 1 .. n : Render(document[k]) \in Texts
    BY <2>1
  <2> HIDE DEF Texts
  <2>3. seqs \in Seq(Texts) /\ Len(seqs) = n /\ \A k \in 1 .. n : seqs[k] = Render(document[k])
    BY <2>2
  <2> QED BY <2>3 DEF Texts
<1>3. source = FlattenSeq(seqs)
  BY Zenon DEF TextOf, Source
<1> HIDE DEF n, seqs, source
<1>4. PICK f : FlattenedBy(seqs, f)
  BY <1>2, FlattenSteps, Zenon
<1>5. f[0] = <<>> /\ source = f[n] /\ \A k \in 1 .. n : f[k] = f[k - 1] \o Render(document[k])
  BY <1>2, <1>3, <1>4, Zenon DEF FlattenedBy
<1> DEFINE Typed == {k \in Nat : f[k] \in Seq(Readable)}
<1>6. \A k \in 0 .. n : k \in Typed
  <2>1. 0 \in Typed
    <3>1. 0 \in Nat /\ <<>> \in Seq(Readable)
      OBVIOUS
    <3> QED BY <1>5, <3>1, Zenon
  <2>2. ASSUME NEW k \in 0 .. n, k < n, k \in Typed PROVE k + 1 \in Typed
    <3>1. k + 1 \in 1 .. n /\ (k + 1) - 1 = k /\ k + 1 \in Nat
      BY <1>1, <2>2
    <3>2. f[k + 1] = f[k] \o Render(document[k + 1]) /\ f[k] \in Seq(Readable)
      BY <1>5, <2>2, <3>1
    <3>3. Render(document[k + 1]) \in Seq(Readable)
      BY <1>1, <3>1, DefinitionRead
    <3>4. f[k] \o Render(document[k + 1]) \in Seq(Readable)
      BY <3>2, <3>3, SeqsConcat, Zenon
    <3> QED BY <3>1, <3>2, <3>4, Zenon
  <2> HIDE DEF Typed
  <2> QED BY <1>1, <2>1, <2>2, UpTo
<1> DEFINE w == [k \in 0 .. n |-> Without(f[k], Ignored)]
<1>7. w[0] = <<>>
  <2>1. <<>> \in Seq(Readable) /\ \A i \in 1 .. Len(<<>>) : <<>>[i] \in Ignored
    OBVIOUS
  <2>2. Without(<<>>, Ignored) = <<>>
    BY <2>1, WithoutAll, Zenon
  <2>3. w[0] = Without(f[0], Ignored)
    BY <1>1
  <2> QED BY <1>5, <2>2, <2>3
<1>8. ASSUME NEW k \in 0 .. n PROVE w[k] \in Seq(Lexemes)
  <2>1. f[k] \in Seq(Readable)
    BY <1>6
  <2>2. Without(f[k], Ignored) \in Seq(Readable)
    BY <2>1, WithoutTyped, Zenon
  <2>3. \A s \in Seq(Readable) : s \in Seq(Lexemes)
    BY ReadableLexemes
  <2> QED BY <2>2, <2>3
<1>9. ASSUME NEW k \in 1 .. n PROVE Joins(w[k], w[k - 1], Lexed(document[k]))
  <2>1. k \in 0 .. n /\ k - 1 \in 0 .. n
    BY <1>1
  <2>2. f[k - 1] \in Seq(Readable) /\ Render(document[k]) \in Seq(Readable)
    BY <1>1, <1>6, <2>1, DefinitionRead
  <2>3. Splits(f[k - 1], Render(document[k]), Ignored)
    BY <2>2, WithoutConcat, Zenon
  <2>4. w[k] = Without(f[k], Ignored) /\ w[k - 1] = Without(f[k - 1], Ignored)
    BY <2>1
  <2> HIDE DEF w
  <2>5. f[k] = f[k - 1] \o Render(document[k])
    BY <1>5
  <2> QED BY <2>3, <2>4, <2>5, Zenon DEF Splits, Joins, Lexed
<1>10. TokenizeGraphql(source) = w[n]
  <2>1. source \in Seq(Readable)
    <3>1. n \in 0 .. n
      BY <1>1
    <3> QED BY <1>5, <1>6, <3>1
  <2>2. \A x \in Range(source) : x \notin Unreadable
    BY <2>1, ReadableLexemes DEF Range
  <2>3. Range(source) \cap Unreadable = {}
    BY <2>2
  <2>4. TokenizeGraphql(source) = Without(source, Ignored)
    BY <2>3, Zenon DEF TokenizeGraphql, Ignored
  <2>5. w[n] = Without(f[n], Ignored)
    BY <1>1
  <2> QED BY <1>5, <2>4, <2>5
<1> HIDE DEF w
<1> DEFINE Long == {k \in Nat : Len(w[k]) >= k + k}
<1>11. \A k \in 0 .. n : k \in Long
  <2>1. 0 \in Long
    BY <1>7
  <2>2. ASSUME NEW k \in 0 .. n, k < n, k \in Long PROVE k + 1 \in Long
    <3>1. k + 1 \in 1 .. n /\ (k + 1) - 1 = k /\ k + 1 \in Nat /\ k \in Nat
      BY <1>1, <2>2
    <3>2. Joins(w[k + 1], w[k], Lexed(document[k + 1])) /\ w[k] \in Seq(Lexemes)
      BY <1>8, <1>9, <3>1
    <3>3. Lexed(document[k + 1]) \in Seq(Lexemes) /\ Len(Lexed(document[k + 1])) >= 2
      BY <1>1, <3>1, LexedTyped
    <3>4. Len(w[k + 1]) = Len(w[k]) + Len(Lexed(document[k + 1]))
      BY <3>2, <3>3, JoinsLength
    <3>5. Len(w[k]) \in Nat /\ Len(Lexed(document[k + 1])) \in Nat /\ Len(w[k]) >= k + k
      BY <2>2, <3>2, <3>3
    <3>6. Len(w[k + 1]) >= (k + 1) + (k + 1)
      BY <3>1, <3>3, <3>4, <3>5, AtLeast, Zenon
    <3> QED BY <3>1, <3>6, Zenon
  <2> HIDE DEF Long
  <2> QED BY <1>1, <2>1, <2>2, UpTo
<1>12. LexedUpTo(document, w)
  BY <1>7, <1>8, <1>9, <1>10, <1>11, Zenon DEF LexedUpTo, n, source
<1> QED BY <1>12, Zenon

LEMMA DocumentParsed ==
  ASSUME NEW document \in Seq(Definitions)
  PROVE  Written(document, Len(document), ParseGraphqlOperations(TextOf(document)))
<1> DEFINE n == Len(document)
           source == TextOf(document)
           tokens == TokenizeGraphql(source)
           l == Len(tokens)
           turns == Turns(tokens)
<1>1. n \in Nat /\ \A k \in 1 .. n : document[k] \in Definitions
  OBVIOUS
<1>2. PICK w : LexedUpTo(document, w)
  BY DocumentLexed, Zenon
<1>3. /\ w[0] = <<>> /\ tokens = w[n]
      /\ \A k \in 0 .. n : w[k] \in Seq(Lexemes) /\ Len(w[k]) >= k + k
      /\ \A k \in 1 .. n : Joins(w[k], w[k - 1], Lexed(document[k]))
  BY <1>2, Zenon DEF LexedUpTo
<1>4. n \in 0 .. n
  BY <1>1
<1>5. tokens \in Seq(Lexemes) /\ l \in Nat /\ l >= n + n /\ l = Len(w[n])
  <2> HIDE DEF tokens, n
  <2>1. w[n] \in Seq(Lexemes) /\ Len(w[n]) >= n + n
    BY <1>3, <1>4
  <2> QED BY <1>3, <2>1
<1>6. PICK g : ParsedBy(source, tokens, g)
  <2> HIDE DEF source
  <2> QED BY <1>5, ParseSteps, Zenon
<1>T. turns \in Nat /\ turns >= n
  <2> HIDE DEF tokens, n
  <2> QED BY <1>1, <1>5, TurnsEnough
<1> HIDE DEF source, tokens, l, n, turns
<1>7. /\ g[0] = [ops |-> <<>>, next |-> 1]
      /\ \A k \in 1 .. turns :
           g[k] = IF g[k - 1].next \notin DOMAIN tokens THEN g[k - 1]
                  ELSE [ops |-> g[k - 1].ops \o ParseDefinition(tokens, g[k - 1].next).ops,
                        next |-> ParseDefinition(tokens, g[k - 1].next).next]
      /\ ParseGraphqlOperations(source) = IF tokens = None \/ g[turns].next = Failed THEN None ELSE g[turns].ops
  BY <1>6, Zenon DEF ParsedBy, turns
<1>8. ASSUME NEW k \in 0 .. n, k < n
      PROVE  /\ Lexed(document[k + 1]) \in Seq(Lexemes) /\ Len(Lexed(document[k + 1])) >= 1
             /\ w[k] \in Seq(Lexemes) /\ Len(w[k]) \in Nat /\ k + 1 \in 1 .. n /\ k + 1 \in 0 .. n
             /\ Joins(w[k + 1], w[k], Lexed(document[k + 1]))
             /\ Len(w[k + 1]) = Len(w[k]) + Len(Lexed(document[k + 1]))
  <2>1. k + 1 \in 1 .. n /\ k + 1 \in 0 .. n /\ (k + 1) - 1 = k
    BY <1>1, <1>8
  <2>2. Joins(w[k + 1], w[k], Lexed(document[k + 1])) /\ w[k] \in Seq(Lexemes)
    BY <1>3, <2>1
  <2>3. Lexed(document[k + 1]) \in Seq(Lexemes) /\ Len(Lexed(document[k + 1])) >= 1
    BY <1>1, <2>1, LexedTyped
  <2>4. Len(w[k + 1]) = Len(w[k]) + Len(Lexed(document[k + 1]))
    BY <2>2, <2>3, JoinsLength, Zenon
  <2>5. Len(w[k]) \in Nat
    BY <2>2
  <2> QED BY <2>1, <2>2, <2>3, <2>4, <2>5
<1> DEFINE Held == {j \in Nat : Holds(tokens, 1, w[n - j])}
<1>9. \A j \in 0 .. n : j \in Held
  <2>1. 0 \in Held
    <3>1. Holds(tokens, 1, tokens)
      <4>1. 1 \in Nat \ {0} /\ 1 + l <= l + 1 /\ \A j \in 1 .. l : 1 + j - 1 = j
        BY <1>5
      <4> QED BY <4>1 DEF Holds, l
    <3>2. n - 0 = n
      BY <1>1
    <3> QED BY <1>3, <3>1, <3>2
  <2>2. ASSUME NEW j \in 0 .. n, j < n, j \in Held PROVE j + 1 \in Held
    <3> DEFINE k == n - (j + 1)
    <3>1. k \in 0 .. n /\ k < n /\ k + 1 = n - j /\ j + 1 \in Nat
      BY <1>1, <2>2
    <3> HIDE DEF k
    <3>2. Holds(tokens, 1, w[k + 1])
      BY <2>2, <3>1
    <3>3. /\ Joins(w[k + 1], w[k], Lexed(document[k + 1])) /\ w[k] \in Seq(Lexemes)
          /\ Lexed(document[k + 1]) \in Seq(Lexemes)
      BY <1>8, <3>1
    <3> DEFINE q == 1 + Len(w[k])
    <3>5. q = 1 + Len(w[k]) /\ tokens \in Seq(Lexemes)
      BY <1>5
    <3> HIDE DEF q
    <3>4. Holds(tokens, 1, w[k])
      BY <3>2, <3>3, <3>5, HoldsConcat
    <3> QED BY <3>1, <3>4 DEF k
  <2> HIDE DEF Held
  <2> QED BY <1>1, <2>1, <2>2, UpTo
<1>10. ASSUME NEW k \in 0 .. n PROVE Holds(tokens, 1, w[k])
  <2>1. n - k \in 0 .. n /\ n - (n - k) = k
    BY <1>1
  <2>2. n - k \in Held
    BY <1>9, <2>1
  <2> QED BY <2>1, <2>2
<1> HIDE DEF Held
<1> DEFINE Reached == {k \in Nat : g[k].next = 1 + Len(w[k]) /\ Written(document, k, g[k].ops)}
<1>11. \A k \in 0 .. n : k \in Reached
  <2>1. 0 \in Reached
    <3>1. g[0].next = 1 /\ g[0].ops = <<>>
      BY <1>7
    <3>2. Len(w[0]) = 0
      BY <1>3
    <3> QED BY <3>1, <3>2, NothingWritten
  <2>2. ASSUME NEW k \in 0 .. n, k < n, k \in Reached PROVE k + 1 \in Reached
    <3> DEFINE d == document[k + 1]
               q == g[k].next
    <3>1. /\ Lexed(d) \in Seq(Lexemes) /\ Len(Lexed(d)) >= 1 /\ w[k] \in Seq(Lexemes) /\ Len(w[k]) \in Nat
          /\ k + 1 \in 1 .. n /\ k + 1 \in 0 .. n /\ Joins(w[k + 1], w[k], Lexed(d))
          /\ Len(w[k + 1]) = Len(w[k]) + Len(Lexed(d))
      BY <1>8, <2>2
    <3>2. q = 1 + Len(w[k]) /\ Written(document, k, g[k].ops) /\ k \in Nat
      BY <2>2
    <3>3. Holds(tokens, 1, w[k + 1])
      BY <1>10, <3>1
    <3>4. d \in Definitions
      BY <1>1, <3>1
    <3> HIDE DEF q, d
    <3>5. Holds(tokens, q, Lexed(d))
      <4>1. /\ tokens \in Seq(Lexemes) /\ w[k] \in Seq(Lexemes) /\ Lexed(d) \in Seq(Lexemes)
            /\ Joins(w[k + 1], w[k], Lexed(d)) /\ q = 1 + Len(w[k])
        BY <1>5, <3>1, <3>2
      <4> DEFINE u == w[k + 1]
                 s == w[k]
                 t == Lexed(d)
      <4>2. /\ tokens \in Seq(Lexemes) /\ s \in Seq(Lexemes) /\ t \in Seq(Lexemes)
            /\ Joins(u, s, t) /\ q = 1 + Len(s) /\ Holds(tokens, 1, u)
        BY <3>3, <4>1
      <4> HIDE DEF u, s, t
      <4>3. Holds(tokens, 1, s) /\ Holds(tokens, q, t)
        BY <4>2, HoldsConcat
      <4> QED BY <4>3 DEF t
    <3>6. ParseDefinition(tokens, q) = [ops |-> OpsOf(d), next |-> q + Len(Lexed(d))]
      BY <1>5, <3>4, <3>5, DefinitionParsed, Zenon
    <3>7. q \in DOMAIN tokens
      BY <1>5, <3>1, <3>5 DEF Holds, l
    <3>8. k + 1 \in 1 .. turns /\ (k + 1) - 1 = k /\ k + 1 \in Nat
      BY <1>1, <1>T, <3>1, <3>2
    <3>9. g[k + 1] = [ops |-> g[k].ops \o OpsOf(d), next |-> q + Len(Lexed(d))]
      <4> DEFINE pd == ParseDefinition(tokens, q)
      <4>1. g[k + 1] = IF q \notin DOMAIN tokens THEN g[k]
                       ELSE [ops |-> g[k].ops \o pd.ops, next |-> pd.next]
        BY <1>7, <3>8 DEF q
      <4> DEFINE a == OpsOf(d)
                 b == q + Len(Lexed(d))
      <4>2. pd.ops = a /\ pd.next = b
        <5>1. pd = [ops |-> a, next |-> b]
          BY <3>6, Zenon
        <5> HIDE DEF pd, a, b
        <5> QED BY <5>1
      <4> HIDE DEF pd
      <4> QED BY <3>7, <4>1, <4>2
    <3>10. g[k + 1].ops = g[k].ops \o OpsOf(d) /\ g[k + 1].next = q + Len(Lexed(d))
      BY <3>9
    <3>11. g[k + 1].next = 1 + Len(w[k + 1])
      <4>1. Len(Lexed(d)) \in Nat
        BY <3>1
      <4> QED BY <3>1, <3>2, <3>10, <4>1
    <3>12. Written(document, k + 1, g[k].ops \o OpsOf(d))
      <4>1. k + 1 \in 1 .. Len(document)
        BY <3>1 DEF n
      <4> QED BY <3>2, <4>1, OneMoreWritten, Zenon DEF d
    <3> QED BY <3>8, <3>10, <3>11, <3>12
  <2> HIDE DEF Reached
  <2> QED BY <1>1, <2>1, <2>2, UpTo
<1>12. g[n].next = 1 + l /\ Written(document, n, g[n].ops)
  BY <1>4, <1>5, <1>11
<1> HIDE DEF Reached
<1> DEFINE Stays == {j \in Nat : g[n + j] = g[n]}
<1>13. \A j \in 0 .. turns - n : j \in Stays
  <2>0. turns - n \in Nat
    BY <1>1, <1>T
  <2>1. 0 \in Stays
    BY <1>1
  <2>2. ASSUME NEW j \in 0 .. turns - n, j < turns - n, j \in Stays PROVE j + 1 \in Stays
    <3>1. n + (j + 1) \in 1 .. turns /\ (n + (j + 1)) - 1 = n + j /\ j + 1 \in Nat
      BY <1>1, <1>T, <2>2
    <3>2. g[n + j] = g[n]
      BY <2>2
    <3>3. g[n].next \notin DOMAIN tokens
      BY <1>5, <1>12 DEF l
    <3>4. g[n + (j + 1)] = g[n + j]
      BY <1>7, <3>1, <3>2, <3>3
    <3> QED BY <3>1, <3>2, <3>4
  <2> HIDE DEF Stays
  <2> QED BY <2>0, <2>1, <2>2, UpTo
<1>14. g[turns] = g[n]
  <2>1. turns - n \in 0 .. turns - n /\ n + (turns - n) = turns
    BY <1>1, <1>T
  <2>2. turns - n \in Stays
    BY <1>13, <2>1
  <2> QED BY <2>1, <2>2
<1>15. tokens # None /\ g[turns].next # Failed
  BY <1>5, <1>12, <1>14, ParserAssumption DEF Failed
<1> QED BY <1>7, <1>12, <1>14, <1>15 DEF n, source

\* What a server would run of a body's document, and what the guard selects.
Runnable(document, name) ==
  {i \in DOMAIN document : document[i].kind # "fragment" /\ name \in {None, document[i].name}}
SelectedOf(ops, name) == {x \in DOMAIN ops : name \in {None, ops[x].name}}

\* The one definition a server would run, and the one operation selected.
RunsOne(r, document, name) ==
  \E i \in Runnable(document, name) :
    Runnable(document, name) = {i} /\ Executed(r) = IF document[i].kind = "shorthand" THEN "query"
                                                    ELSE document[i].kind

SelectsOne(ops, name, op) == \E x \in DOMAIN ops : SelectedOf(ops, name) = {x} /\ ops[x] = op

LEMMA ExecutedRuns ==
  ASSUME NEW r, NEW document \in Seq(Definitions), NEW name, r.body.document = document, r.body.operationName = name,
         Executed(r) # "nothing"
  PROVE  RunsOne(r, document, name)
<1> DEFINE ops == Runnable(document, name)
           run == document[CHOOSE i \in ops : TRUE].kind
<1>1. Executed(r) = IF Cardinality(ops) # 1 THEN "nothing" ELSE IF run = "shorthand" THEN "query" ELSE run
  <2> DEFINE ran == r.body.document[CHOOSE i \in Runnable(r.body.document, r.body.operationName) : TRUE].kind
  <2>1. Executed(r) = IF Cardinality(Runnable(r.body.document, r.body.operationName)) # 1 THEN "nothing"
                      ELSE IF ran = "shorthand" THEN "query" ELSE ran
    BY Zenon DEF Executed, Runnable
  <2>2. Runnable(r.body.document, r.body.operationName) = ops /\ ran = run
    BY Zenon
  <2> QED BY <2>1, <2>2, Zenon
<1>0. IsFiniteSet(ops)
  <2> DEFINE places == 1 .. Len(document)
  <2>1. IsFiniteSet(places)
    BY FS_Interval
  <2>2. ops \subseteq places
    BY DEF Runnable
  <2> QED BY <2>1, <2>2, FS_Subset, Zenon
<1> HIDE DEF ops
<1>2. Cardinality(ops) = 1
  BY <1>1
<1>3. PICK i : ops = {i}
  BY <1>0, <1>2, FS_Singleton
<1>4. (CHOOSE j \in ops : TRUE) = i
  BY <1>3
<1>5. Executed(r) = IF document[i].kind = "shorthand" THEN "query" ELSE document[i].kind
  BY <1>1, <1>2, <1>4
<1> QED BY <1>3, <1>5 DEF ops, RunsOne

LEMMA OneSelected ==
  ASSUME NEW document \in Seq(Definitions), NEW ops, Written(document, Len(document), ops), NEW name,
         NEW i \in Runnable(document, name), Runnable(document, name) = {i}
  PROVE  SelectsOne(ops, name, OpOf(document[i]))
<1> DEFINE n == Len(document)
           among == OperationsAmong(document, n)
<1>1. PICK place : Places(document, n, ops, place)
  BY Zenon DEF Written
<1>2. ops \in Seq(Operations) /\ DOMAIN ops = 1 .. Len(ops) /\ DOMAIN document = 1 .. n
  BY DEF Written
<1>3. /\ \A j \in among : place[j] \in 1 .. Len(ops) /\ ops[place[j]] = OpOf(document[j])
      /\ \A x \in 1 .. Len(ops) : \E j \in among : place[j] = x
  BY <1>1, Zenon DEF Places
<1>4. \A j : j \in Runnable(document, name) <=> j \in among /\ name \in {None, document[j].name}
  BY <1>2 DEF Runnable, OperationsAmong
<1>5. \A j : OpOf(document[j]).name = document[j].name
  BY DEF OpOf, Operation
<1> DEFINE x == place[i]
<1> HIDE DEF among, n
<1>6. i \in among /\ x \in DOMAIN ops /\ ops[x] = OpOf(document[i])
  BY <1>2, <1>3, <1>4
<1>7. x \in SelectedOf(ops, name)
  BY <1>4, <1>5, <1>6 DEF SelectedOf
<1>8. ASSUME NEW y \in SelectedOf(ops, name) PROVE y = x
  <2>1. y \in 1 .. Len(ops) /\ name \in {None, ops[y].name}
    BY <1>2 DEF SelectedOf
  <2>2. PICK j \in among : place[j] = y
    BY <1>3, <2>1
  <2>3. ops[y].name = document[j].name
    BY <1>3, <1>5, <2>2
  <2>4. j \in Runnable(document, name)
    BY <1>4, <2>1, <2>2, <2>3
  <2> QED BY <2>2, <2>4
<1> QED BY <1>6, <1>7, <1>8 DEF SelectsOne

LEMMA SourcePresent ==
  ASSUME NEW document \in Seq(Definitions), document # <<>>
  PROVE  TextOf(document) # <<>>
<1> DEFINE n == Len(document)
<1>1. n \in Nat /\ n >= 1 /\ n \in 0 .. n
  OBVIOUS
<1>2. PICK w : LexedUpTo(document, w)
  BY DocumentLexed, Zenon
<1>3. TokenizeGraphql(TextOf(document)) = w[n] /\ Len(w[n]) >= n + n
  BY <1>1, <1>2, Zenon DEF LexedUpTo
<1>4. TokenizeGraphql(<<>>) = <<>>
  <2>1. Range(<<>>) \cap Unreadable = {}
    BY DEF Range
  <2>2. <<>> \in Seq(Readable) /\ \A i \in 1 .. Len(<<>>) : <<>>[i] \in Ignored
    OBVIOUS
  <2>3. Without(<<>>, Ignored) = <<>>
    BY <2>2, WithoutAll, Zenon
  <2>4. TokenizeGraphql(<<>>) = Without(<<>>, Ignored)
    BY <2>1, Zenon DEF TokenizeGraphql, Ignored
  <2> QED BY <2>3, <2>4
<1>5. SUFFICES ASSUME TextOf(document) = <<>> PROVE FALSE
  OBVIOUS
<1>6. w[n] = <<>>
  BY <1>3, <1>4, <1>5
<1>7. Len(<<>>) = 0
  OBVIOUS
<1> QED BY <1>1, <1>3, <1>6, <1>7

-----------------------------------------------------------------------------
(* What the guard reads in a document is what a server would run of it.      *)
LEMMA DocumentsJudged ==
  ASSUME NEW document \in Seq(Definitions), NEW name, NEW r, r.body = GraphqlBody(document, "none", name),
         r.body # None
  PROVE  /\ Executed(r) = "query" => IsExplicitReadQuery(r.body)
         /\ Executed(r) # "query" /\ Executed(r) # "nothing" => ~IsExplicitReadQuery(r.body)
<1> DEFINE source == TextOf(document)
           ops == ParseGraphqlOperations(source)
<1>1. r.body.source = source /\ r.body.operationName = name /\ r.body.document = document
  <2>1. r.body.source = Source(document, "none") /\ r.body.operationName = name /\ r.body.document = document
    BY DEF GraphqlBody
  <2> QED BY <2>1, Zenon DEF TextOf
<1>2. IsExplicitReadQuery(r.body) <=>
        /\ source # <<>> /\ ops # None
        /\ \E x \in SelectedOf(ops, name) : SelectedOf(ops, name) = {x} /\ ops[x].type = "query"
  BY <1>1, Zenon DEF IsExplicitReadQuery, SelectedOf
<1>3. Written(document, Len(document), ops)
  BY DocumentParsed, Zenon
<1>4. ops # None
  <2>1. ops \in Seq(Operations)
    BY <1>3, Zenon DEF Written
  <2> HIDE DEF ops
  <2> QED BY <2>1, ParserAssumption DEF Operations
<1> HIDE DEF source, ops
<1>5. CASE Executed(r) = "nothing"
  BY <1>5
<1>6. CASE Executed(r) # "nothing"
  <2>1. PICK i \in Runnable(document, name) :
          Runnable(document, name) = {i} /\ Executed(r) = IF document[i].kind = "shorthand" THEN "query"
                                                          ELSE document[i].kind
    <3>1. RunsOne(r, document, name)
      BY <1>1, <1>6, ExecutedRuns, Zenon
    <3> QED BY <3>1, Zenon DEF RunsOne
  <2>2. PICK x \in DOMAIN ops : SelectedOf(ops, name) = {x} /\ ops[x] = OpOf(document[i])
    <3>1. SelectsOne(ops, name, OpOf(document[i]))
      BY <1>3, <2>1, OneSelected, Zenon
    <3> QED BY <3>1, Zenon DEF SelectsOne
  <2>3. ops[x].type = Executed(r)
    <3>1. OpOf(document[i]).type = IF document[i].kind = "shorthand" THEN "query" ELSE document[i].kind
      BY DEF OpOf, Operation
    <3> QED BY <2>1, <2>2, <3>1
  <2>4. source # <<>>
    <3>1. document # <<>>
      BY <2>1 DEF Runnable
    <3> QED BY <3>1, SourcePresent DEF source
  <2>5. IsExplicitReadQuery(r.body) <=> ops[x].type = "query"
    BY <1>2, <1>4, <2>2, <2>4
  <2> QED BY <2>3, <2>5
<1> QED BY <1>5, <1>6

\* A spoiled body has no document a server would run.
LEMMA NothingExecuted ==
  ASSUME NEW r, r.body.document = <<>> PROVE Executed(r) = "nothing"
<1> DEFINE ops == Runnable(<<>>, r.body.operationName)
<1>1. ops = {}
  BY DEF Runnable
<1>2. Cardinality(ops) # 1
  BY <1>1, FS_EmptySet
<1> QED BY <1>2, Zenon DEF Executed, Runnable

-----------------------------------------------------------------------------
\* What a strict handler stops, and what no handler stops.
Judged(r) ==
  /\ Mutates(r) => ShouldBlockRequest(r, TRUE)
  /\ ReadsOnly(r) => \A strict \in BOOLEAN : ~ShouldBlockRequest(r, strict)

LEMMA PlainRequestsJudged ==
  ASSUME NEW method \in {"GET", "POST", "DELETE"}, NEW path \in BOOLEAN, NEW auth \in BOOLEAN,
         NEW graphql \in BOOLEAN
  PROVE  Judged(Request(method, path, auth, graphql, None))
<1> DEFINE r == Request(method, path, auth, graphql, None)
<1>1. /\ r.method = method /\ r.mutationPath = path /\ r.authPath = auth /\ r.graphql = graphql
      /\ r.body = None
  BY DEF Request
<1> HIDE DEF r
<1>2. Mutates(r) <=> method = "DELETE" \/ (method = "POST" /\ ~graphql /\ path)
  BY <1>1 DEF Mutates
<1>3. ReadsOnly(r) <=> method = "GET" \/ (method = "POST" /\ ~graphql /\ ~path)
  BY <1>1 DEF ReadsOnly
<1>4. \A strict : ShouldBlockRequest(r, strict) <=>
         /\ method # "GET"
         /\ IF strict THEN method # "POST" \/ (IF graphql THEN ~IsExplicitReadQuery(None) ELSE path)
            ELSE path /\ ~auth
  BY <1>1, Zenon DEF ShouldBlockRequest
<1>5. Judged(r)
  BY <1>2, <1>3, <1>4 DEF Judged
<1> QED BY <1>5 DEF r

LEMMA GraphqlRequestsJudged ==
  ASSUME NEW document \in Documents, NEW damage \in {"none", "cut", "unreadable"}, NEW name
  PROVE  Judged(Request("POST", FALSE, FALSE, TRUE, GraphqlBody(document, damage, name)))
<1> DEFINE body == GraphqlBody(document, damage, name)
           r == Request("POST", FALSE, FALSE, TRUE, body)
<1>0. document \in Seq(Definitions)
  BY DEF Documents
<1>1. /\ r.method = "POST" /\ r.mutationPath = FALSE /\ r.authPath = FALSE /\ r.graphql = TRUE /\ r.body = body
  BY DEF Request
<1> HIDE DEF r
<1>2. Mutates(r) <=> body # None /\ Executed(r) = "mutation"
  BY <1>1 DEF Mutates
<1>3. ReadsOnly(r) <=> body # None /\ Executed(r) = "query"
  BY <1>1 DEF ReadsOnly
<1>4. \A strict : ShouldBlockRequest(r, strict) <=> strict /\ ~IsExplicitReadQuery(body)
  BY <1>1, Zenon DEF ShouldBlockRequest
<1>5. /\ Executed(r) = "query" /\ body # None => IsExplicitReadQuery(body)
      /\ Executed(r) = "mutation" /\ body # None => ~IsExplicitReadQuery(body)
  <2>1. CASE damage = "none"
    <3>1. r.body = GraphqlBody(document, "none", name)
      BY <1>1, <2>1
    <3> HIDE DEF body
    <3>2. body # None => /\ Executed(r) = "query" => IsExplicitReadQuery(r.body)
                         /\ Executed(r) # "query" /\ Executed(r) # "nothing" => ~IsExplicitReadQuery(r.body)
      BY <1>0, <1>1, <3>1, DocumentsJudged
    <3> QED BY <1>1, <3>2
  <2>2. CASE damage # "none"
    <3>1. r.body.document = <<>>
      BY <1>1, <2>2 DEF GraphqlBody
    <3>2. Executed(r) = "nothing"
      BY <3>1, NothingExecuted
    <3> QED BY <3>2
  <2> QED BY <2>1, <2>2
<1>6. Judged(r)
  BY <1>2, <1>3, <1>4, <1>5 DEF Judged
<1> QED BY <1>6 DEF r, body

Modes == [tab : GuardTabs, strict : BOOLEAN]
Installing == {"installing", "reinstalling"}

(* A handler that is not yet strict is being installed, or the pool closes    *)
(* after an installation failed; a tab with a guard has a handler.            *)
GuardSane ==
  /\ routes \in Seq(Modes)
  /\ guardOf \in [GuardTabs -> {"off", "installing", "ready", "disposed", "reinstalling", "leftover"}]
  /\ poolPhase \in {"opening", "reading", "rejected", "closing"}
WeakInstalling ==
  \A i \in 1 .. Len(routes) :
    routes[i].strict \/ guardOf[routes[i].tab] \in Installing \/ poolPhase = "closing"
Routed ==
  \A t \in GuardTabs :
    guardOf[t] \in Installing \cup {"ready"} => \E i \in 1 .. Len(routes) : routes[i].tab = t
GuardInv == GuardSane /\ WeakInstalling /\ Routed /\ GuardReadsOnly

LEMMA GuardInitInv == ASSUME GuardInit PROVE GuardInv
<1>1. GuardSane
  BY DEF GuardInit, GuardSane
<1>2. WeakInstalling /\ Routed /\ GuardReadsOnly
  BY DEF GuardInit, WeakInstalling, Routed, GuardReadsOnly, Installing
<1> QED BY <1>1, <1>2 DEF GuardInv

\* Every handler is a tab's, in one of two modes.
LEMMA HandlersTyped ==
  ASSUME GuardSane
  PROVE  \A i \in 1 .. Len(routes) :
           routes[i] \in Modes /\ routes[i].tab \in GuardTabs /\ routes[i].strict \in BOOLEAN
<1>1. \A i \in 1 .. Len(routes) : routes[i] \in Modes
  BY DEF GuardSane
<1>2. \A m \in Modes : m.tab \in GuardTabs /\ m.strict \in BOOLEAN
  BY DEF Modes
<1> QED BY <1>1, <1>2, Zenon

\* The handlers left when a tab's own are removed.
LEMMA Unrouted ==
  ASSUME GuardSane, NEW t \in GuardTabs
  PROVE  /\ Unroute(t) \in Seq(Modes)
         /\ \A i \in 1 .. Len(Unroute(t)) :
              \E j \in 1 .. Len(routes) : Unroute(t)[i] = routes[j] /\ routes[j].tab # t
         /\ \A j \in 1 .. Len(routes) :
              routes[j].tab # t => \E i \in 1 .. Len(Unroute(t)) : Unroute(t)[i] = routes[j]
<1> DEFINE own == [tab : {t}, strict : BOOLEAN]
<1>1. routes \in Seq(Modes) /\ \A j \in 1 .. Len(routes) : routes[j] \in Modes
  BY DEF GuardSane
<1>2. \A m \in Modes : m \in own <=> m.tab = t
  BY DEF Modes
<1> HIDE DEF own
<1>3. Without(routes, own) \in Seq(Modes)
  BY <1>1, WithoutTyped, Zenon
<1>4. /\ \A i \in 1 .. Len(Without(routes, own)) :
           \E j \in 1 .. Len(routes) : Without(routes, own)[i] = routes[j] /\ routes[j] \notin own
      /\ \A j \in 1 .. Len(routes) :
           routes[j] \notin own => \E i \in 1 .. Len(Without(routes, own)) : Without(routes, own)[i] = routes[j]
  BY <1>1, WithoutElements, Zenon
<1>5. Unroute(t) = Without(routes, own)
  BY Zenon DEF Unroute, own
<1>6. \A j \in 1 .. Len(routes) : routes[j] \notin own <=> routes[j].tab # t
  BY <1>1, <1>2
<1> QED BY <1>3, <1>4, <1>5, <1>6

LEMMA InstallKeeps ==
  ASSUME GuardInv, NEW t \in GuardTabs, NEW progress \in Installing, InstallGuard(t, progress)
  PROVE  GuardInv'
<1> DEFINE rest == Unroute(t)
           new == [tab |-> t, strict |-> FALSE]
<1>1. /\ GuardSane /\ rest \in Seq(Modes)
      /\ \A i \in 1 .. Len(rest) : \E j \in 1 .. Len(routes) : rest[i] = routes[j] /\ routes[j].tab # t
      /\ \A j \in 1 .. Len(routes) : routes[j].tab # t => \E i \in 1 .. Len(rest) : rest[i] = routes[j]
  BY Unrouted, Zenon DEF GuardInv
<1>2. /\ routes' = <<new>> \o rest /\ guardOf' = [guardOf EXCEPT ![t] = progress]
      /\ UNCHANGED <<poolPhase, seen>>
  BY DEF InstallGuard
<1>3. new \in Modes /\ new.tab = t
  BY DEF Modes
<1> HIDE DEF rest, new
<1>4. /\ routes' \in Seq(Modes) /\ Len(routes') = Len(rest) + 1 /\ routes'[1] = new
      /\ \A i \in 1 .. Len(rest) : routes'[i + 1] = rest[i]
  BY <1>1, <1>2, <1>3
<1>5. \A i \in 1 .. Len(routes') : i = 1 \/ (i - 1 \in 1 .. Len(rest) /\ i = (i - 1) + 1)
  BY <1>1, <1>4
<1>6. 1 \in 1 .. Len(routes') /\ \A i \in 1 .. Len(rest) : i + 1 \in 1 .. Len(routes')
  BY <1>1, <1>4
<1>7. guardOf'[t] = progress /\ \A u \in GuardTabs : u # t => guardOf'[u] = guardOf[u]
  BY <1>1, <1>2 DEF GuardSane
<1>8. \A j \in 1 .. Len(routes) : routes[j].tab \in GuardTabs
  BY <1>1, HandlersTyped, Zenon
<1>9. GuardSane'
  BY <1>1, <1>2, <1>4 DEF GuardSane, Installing
<1>10. WeakInstalling'
  <2>1. ASSUME NEW i \in 1 .. Len(routes')
        PROVE  routes'[i].strict \/ guardOf'[routes'[i].tab] \in Installing \/ poolPhase' = "closing"
    <3>1. CASE i = 1
      BY <1>3, <1>4, <1>7, <3>1
    <3>2. CASE i - 1 \in 1 .. Len(rest) /\ i = (i - 1) + 1
      <4>1. PICK j \in 1 .. Len(routes) : rest[i - 1] = routes[j] /\ routes[j].tab # t
        BY <1>1, <3>2
      <4>2. routes'[i] = routes[j]
        BY <1>4, <3>2, <4>1
      <4>3. routes[j].strict \/ guardOf[routes[j].tab] \in Installing \/ poolPhase = "closing"
        BY DEF GuardInv, WeakInstalling
      <4> QED BY <1>2, <1>7, <1>8, <4>1, <4>2, <4>3
    <3> QED BY <1>5, <3>1, <3>2
  <2> QED BY <2>1 DEF WeakInstalling
<1>11. Routed'
  <2>1. ASSUME NEW u \in GuardTabs, guardOf'[u] \in Installing \cup {"ready"}
        PROVE  \E i \in 1 .. Len(routes') : routes'[i].tab = u
    <3>1. CASE u = t
      BY <1>3, <1>4, <1>6, <3>1
    <3>2. CASE u # t
      <4>1. PICK j \in 1 .. Len(routes) : routes[j].tab = u
        BY <1>7, <2>1, <3>2 DEF GuardInv, Routed
      <4>2. PICK i \in 1 .. Len(rest) : rest[i] = routes[j]
        BY <1>1, <3>2, <4>1
      <4> QED BY <1>4, <1>6, <4>1, <4>2
    <3> QED BY <3>1, <3>2
  <2> QED BY <2>1 DEF Routed
<1>12. GuardReadsOnly'
  BY <1>2 DEF GuardInv, GuardReadsOnly
<1> QED BY <1>9, <1>10, <1>11, <1>12 DEF GuardInv

LEMMA EnterKeeps ==
  ASSUME GuardInv, NEW t \in GuardTabs, EnterExtractionMode(t)
  PROVE  GuardInv'
<1>1. /\ routes' = [i \in DOMAIN routes |-> IF routes[i].tab = t THEN [routes[i] EXCEPT !.strict = TRUE]
                                            ELSE routes[i]]
      /\ guardOf' = [guardOf EXCEPT ![t] = IF @ = "installing" THEN "ready" ELSE "leftover"]
      /\ poolPhase' = IF poolPhase = "opening" /\ t = PoolSize THEN "reading" ELSE poolPhase
      /\ UNCHANGED seen
  BY DEF EnterExtractionMode
<1>2. routes \in Seq(Modes) /\ DOMAIN routes = 1 .. Len(routes) /\ \A i \in 1 .. Len(routes) : routes[i] \in Modes
  BY DEF GuardInv, GuardSane
<1>3. \A m \in Modes : /\ [m EXCEPT !.strict = TRUE] \in Modes /\ [m EXCEPT !.strict = TRUE].tab = m.tab
                       /\ [m EXCEPT !.strict = TRUE].strict = TRUE /\ m.tab \in GuardTabs
  BY DEF Modes
<1>4. /\ routes' \in Seq(Modes) /\ Len(routes') = Len(routes)
      /\ \A i \in 1 .. Len(routes) :
           routes'[i] = IF routes[i].tab = t THEN [routes[i] EXCEPT !.strict = TRUE] ELSE routes[i]
  <2>1. \A i \in 1 .. Len(routes) :
          (IF routes[i].tab = t THEN [routes[i] EXCEPT !.strict = TRUE] ELSE routes[i]) \in Modes
    BY <1>2, <1>3
  <2> QED BY <1>1, <1>2, <2>1
<1>5. /\ guardOf'[t] \in {"ready", "leftover"} /\ \A u \in GuardTabs : u # t => guardOf'[u] = guardOf[u]
      /\ guardOf[t] \in Installing
  BY <1>1 DEF GuardInv, GuardSane, EnterExtractionMode, Installing
<1>6. \A i \in 1 .. Len(routes) : routes'[i].tab = routes[i].tab /\ (routes[i].tab = t => routes'[i].strict)
                                  /\ (routes[i].tab # t => routes'[i] = routes[i])
  BY <1>2, <1>3, <1>4
<1>7. GuardSane'
  <2>1. guardOf' \in [GuardTabs -> {"off", "installing", "ready", "disposed", "reinstalling", "leftover"}]
    BY <1>1 DEF GuardInv, GuardSane
  <2>2. poolPhase' \in {"opening", "reading", "rejected", "closing"}
    BY <1>1 DEF GuardInv, GuardSane
  <2> QED BY <1>4, <2>1, <2>2 DEF GuardSane
<1>8. WeakInstalling'
  <2>1. ASSUME NEW i \in 1 .. Len(routes)
        PROVE  routes'[i].strict \/ guardOf'[routes'[i].tab] \in Installing \/ poolPhase' = "closing"
    <3>1. CASE routes[i].tab = t
      BY <1>6, <3>1
    <3>2. CASE routes[i].tab # t
      <4>1. routes[i].strict \/ guardOf[routes[i].tab] \in Installing \/ poolPhase = "closing"
        BY DEF GuardInv, WeakInstalling
      <4>2. poolPhase = "closing" => poolPhase' = "closing"
        BY <1>1
      <4>3. routes[i].tab \in GuardTabs
        BY <1>2, <1>3
      <4> QED BY <1>5, <1>6, <3>2, <4>1, <4>2, <4>3
    <3> QED BY <3>1, <3>2
  <2> QED BY <1>4, <2>1 DEF WeakInstalling
<1>9. Routed'
  <2>1. ASSUME NEW u \in GuardTabs, guardOf'[u] \in Installing \cup {"ready"}
        PROVE  \E i \in 1 .. Len(routes') : routes'[i].tab = u
    <3>1. guardOf[u] \in Installing \cup {"ready"}
      BY <1>5, <2>1
    <3>2. PICK i \in 1 .. Len(routes) : routes[i].tab = u
      BY <3>1 DEF GuardInv, Routed
    <3> QED BY <1>4, <1>6, <3>2
  <2> QED BY <2>1 DEF Routed
<1>10. GuardReadsOnly'
  BY <1>1 DEF GuardInv, GuardReadsOnly
<1> QED BY <1>7, <1>8, <1>9, <1>10 DEF GuardInv

LEMMA FailsKeeps ==
  ASSUME GuardInv, NEW t \in GuardTabs, InstallFails(t)
  PROVE  GuardInv'
<1>1. guardOf' = [guardOf EXCEPT ![t] = "leftover"] /\ poolPhase' = "closing" /\ UNCHANGED <<routes, seen>>
  BY DEF InstallFails
<1>2. GuardSane'
  BY <1>1 DEF GuardInv, GuardSane
<1>3. WeakInstalling'
  BY <1>1 DEF WeakInstalling
<1>4. Routed'
  <2>1. \A u \in GuardTabs : guardOf'[u] \in Installing \cup {"ready"} => guardOf[u] \in Installing \cup {"ready"}
    BY <1>1 DEF GuardInv, GuardSane, Installing
  <2> QED BY <1>1, <2>1 DEF GuardInv, Routed
<1>5. GuardReadsOnly'
  BY <1>1 DEF GuardInv, GuardReadsOnly
<1> QED BY <1>2, <1>3, <1>4, <1>5 DEF GuardInv

LEMMA EndKeeps == ASSUME GuardInv, EndPool PROVE GuardInv'
<1>1. /\ poolPhase = "reading" /\ poolPhase' \in {"closing", "rejected"}
      /\ UNCHANGED <<routes, guardOf, seen>>
  BY DEF EndPool
<1>2. GuardSane'
  BY <1>1 DEF GuardInv, GuardSane
<1>3. WeakInstalling'
  BY <1>1 DEF GuardInv, WeakInstalling
<1>4. Routed' /\ GuardReadsOnly'
  BY <1>1 DEF GuardInv, Routed, GuardReadsOnly
<1> QED BY <1>2, <1>3, <1>4 DEF GuardInv

LEMMA DisposeKeeps ==
  ASSUME GuardInv, NEW t \in GuardTabs, DisposeGuard(t)
  PROVE  GuardInv'
<1> DEFINE rest == Unroute(t)
<1>1. /\ GuardSane /\ rest \in Seq(Modes)
      /\ \A i \in 1 .. Len(rest) : \E j \in 1 .. Len(routes) : rest[i] = routes[j] /\ routes[j].tab # t
      /\ \A j \in 1 .. Len(routes) : routes[j].tab # t => \E i \in 1 .. Len(rest) : rest[i] = routes[j]
  BY Unrouted, Zenon DEF GuardInv
<1>2. routes' = rest /\ guardOf' = [guardOf EXCEPT ![t] = "disposed"] /\ UNCHANGED <<poolPhase, seen>>
  BY DEF DisposeGuard
<1> HIDE DEF rest
<1>3. guardOf'[t] = "disposed" /\ \A u \in GuardTabs : u # t => guardOf'[u] = guardOf[u]
  BY <1>1, <1>2 DEF GuardSane
<1>4. \A j \in 1 .. Len(routes) : routes[j].tab \in GuardTabs
  BY <1>1, HandlersTyped, Zenon
<1>5. GuardSane'
  BY <1>1, <1>2 DEF GuardSane
<1>6. WeakInstalling'
  <2>1. ASSUME NEW i \in 1 .. Len(rest)
        PROVE  rest[i].strict \/ guardOf'[rest[i].tab] \in Installing \/ poolPhase' = "closing"
    <3>1. PICK j \in 1 .. Len(routes) : rest[i] = routes[j] /\ routes[j].tab # t
      BY <1>1
    <3>2. routes[j].strict \/ guardOf[routes[j].tab] \in Installing \/ poolPhase = "closing"
      BY DEF GuardInv, WeakInstalling
    <3> QED BY <1>2, <1>3, <1>4, <3>1, <3>2
  <2> QED BY <1>2, <2>1 DEF WeakInstalling
<1>7. Routed'
  <2>1. ASSUME NEW u \in GuardTabs, guardOf'[u] \in Installing \cup {"ready"}
        PROVE  \E i \in 1 .. Len(rest) : rest[i].tab = u
    <3>1. u # t
      BY <1>3, <2>1 DEF Installing
    <3>2. PICK j \in 1 .. Len(routes) : routes[j].tab = u
      BY <1>3, <2>1, <3>1 DEF GuardInv, Routed
    <3>3. PICK i \in 1 .. Len(rest) : rest[i] = routes[j]
      BY <1>1, <3>1, <3>2
    <3> QED BY <3>2, <3>3
  <2> QED BY <1>2, <2>1 DEF Routed
<1>8. GuardReadsOnly'
  BY <1>2 DEF GuardInv, GuardReadsOnly
<1> QED BY <1>5, <1>6, <1>7, <1>8 DEF GuardInv

\* While a tab reads and no handler is being installed, the newest is strict.
LEMMA NewestStrict ==
  ASSUME GuardInv, NEW t \in GuardTabs, guardOf[t] = "ready", poolPhase # "closing",
         \A u \in GuardTabs : guardOf[u] \notin Installing
  PROVE  routes # <<>> /\ Head(routes).strict = TRUE
<1>1. PICK i \in 1 .. Len(routes) : routes[i].tab = t
  BY DEF GuardInv, Routed
<1>2. routes \in Seq(Modes) /\ routes # <<>> /\ 1 \in 1 .. Len(routes) /\ Head(routes) = routes[1]
  BY <1>1 DEF GuardInv, GuardSane
<1>3. routes[1].tab \in GuardTabs /\ routes[1].strict \in BOOLEAN
  BY <1>2, HandlersTyped, Zenon DEF GuardInv
<1>4. routes[1].strict \/ guardOf[routes[1].tab] \in Installing \/ poolPhase = "closing"
  BY <1>2 DEF GuardInv, WeakInstalling
<1> QED BY <1>2, <1>3, <1>4

LEMMA HandleKeeps ==
  ASSUME GuardInv, NEW r, Judged(r), HandleRequest(r)
  PROVE  GuardInv'
<1> DEFINE reading == poolPhase \in {"reading", "rejected"} /\ \E t \in GuardTabs : guardOf[t] = "ready"
           installing == \E t \in GuardTabs : guardOf[t] \in {"installing", "reinstalling"}
           continued == routes = <<>> \/ ~ShouldBlockRequest(r, Head(routes).strict)
           mutates == Mutates(r)
           readsOnly == ReadsOnly(r)
<1>1. /\ seen' = [mutates |-> mutates, readsOnly |-> readsOnly, continued |-> continued,
                  reading |-> reading, installing |-> installing]
      /\ UNCHANGED <<routes, guardOf, poolPhase>>
  BY DEF HandleRequest
<1>2. GuardSane' /\ WeakInstalling' /\ Routed'
  BY <1>1 DEF GuardInv, GuardSane, WeakInstalling, Routed
<1>3. readsOnly => continued
  <2>1. routes # <<>> => Head(routes).strict \in BOOLEAN
    <3> SUFFICES ASSUME routes # <<>> PROVE Head(routes).strict \in BOOLEAN
      OBVIOUS
    <3>1. 1 \in 1 .. Len(routes) /\ Head(routes) = routes[1] /\ GuardSane
      BY DEF GuardInv, GuardSane
    <3> QED BY <3>1, HandlersTyped
  <2> QED BY <2>1, Zenon DEF Judged
<1>4. reading /\ ~installing /\ mutates => ~continued
  <2> SUFFICES ASSUME reading, ~installing, mutates PROVE ~continued
    BY Zenon
  <2>1. PICK t \in GuardTabs : guardOf[t] = "ready"
    BY Zenon
  <2>2. poolPhase # "closing" /\ \A u \in GuardTabs : guardOf[u] \notin Installing
    BY DEF Installing
  <2>3. routes # <<>> /\ Head(routes).strict = TRUE
    BY <2>1, <2>2, NewestStrict
  <2> QED BY <2>3, Zenon DEF Judged
<1> HIDE DEF reading, installing, continued, mutates, readsOnly
<1>5. /\ seen'.mutates = mutates /\ seen'.readsOnly = readsOnly /\ seen'.continued = continued
      /\ seen'.reading = reading /\ seen'.installing = installing
  BY <1>1
<1>6. GuardReadsOnly'
  BY <1>3, <1>4, <1>5, Zenon DEF GuardReadsOnly
<1> QED BY <1>2, <1>6 DEF GuardInv

LEMMA GuardNextInv == ASSUME GuardInv, [GuardNext]_guardVars PROVE GuardInv'
<1>1. CASE EndPool
  BY <1>1, EndKeeps
<1>2. ASSUME NEW t \in GuardTabs,
             OpenTab(t) \/ EnterExtractionMode(t) \/ InstallFails(t) \/ DisposeGuard(t) \/ ReinstallGuard(t)
      PROVE  GuardInv'
  <2>1. CASE OpenTab(t)
    BY <2>1, InstallKeeps DEF OpenTab, Installing
  <2>2. CASE EnterExtractionMode(t)
    BY <2>2, EnterKeeps
  <2>3. CASE InstallFails(t)
    BY <2>3, FailsKeeps
  <2>4. CASE DisposeGuard(t)
    BY <2>4, DisposeKeeps
  <2>5. CASE ReinstallGuard(t)
    BY <2>5, InstallKeeps DEF ReinstallGuard, Installing
  <2> QED BY <1>2, <2>1, <2>2, <2>3, <2>4, <2>5
<1>3. ASSUME NEW method \in {"GET", "POST", "DELETE"}, NEW path \in BOOLEAN, NEW auth \in BOOLEAN,
             NEW graphql \in BOOLEAN, HandleRequest(Request(method, path, auth, graphql, None))
      PROVE  GuardInv'
  <2>1. Judged(Request(method, path, auth, graphql, None))
    BY PlainRequestsJudged
  <2> QED BY <1>3, <2>1, HandleKeeps
<1>4. ASSUME NEW document \in Documents, NEW damage \in {"none", "cut", "unreadable"},
             NEW name \in {None, "a", "mutation"},
             HandleRequest(Request("POST", FALSE, FALSE, TRUE, GraphqlBody(document, damage, name)))
      PROVE  GuardInv'
  <2>1. Judged(Request("POST", FALSE, FALSE, TRUE, GraphqlBody(document, damage, name)))
    BY GraphqlRequestsJudged
  <2> QED BY <1>4, <2>1, HandleKeeps
<1>5. CASE UNCHANGED guardVars
  <2>1. UNCHANGED <<routes, guardOf, poolPhase, seen>>
    BY <1>5 DEF guardVars, guardState
  <2> QED BY <2>1 DEF GuardInv, GuardSane, WeakInstalling, Routed, GuardReadsOnly
<1> QED BY <1>1, <1>2, <1>3, <1>4, <1>5 DEF GuardNext

LEMMA GuardInvSound == ASSUME GuardInv PROVE GuardTypeOK /\ GuardReadsOnly
<1>1. DOMAIN routes = 1 .. Len(routes) /\ GuardSane
  BY DEF GuardInv, GuardSane
<1>2. \A i \in DOMAIN routes : routes[i].tab \in GuardTabs /\ routes[i].strict \in BOOLEAN
  BY <1>1, HandlersTyped
<1> QED BY <1>2 DEF GuardInv, GuardSane, GuardTypeOK

(* For every number of tabs and definitions, every name and every order of    *)
(* installations, failures and requests: while a tab reads and no handler is  *)
(* just being installed, no request that changes the account leaves a page,  *)
(* and a request that only reads always does.                                *)
THEOREM GuardPromises == GuardSpec => [](GuardTypeOK /\ GuardReadsOnly)
<1>1. GuardInit => GuardInv
  BY GuardInitInv
<1>2. GuardInv /\ [GuardNext]_guardVars => GuardInv'
  BY GuardNextInv
<1>3. GuardInv => GuardTypeOK /\ GuardReadsOnly
  BY GuardInvSound
<1> QED BY <1>1, <1>2, <1>3, PTL DEF GuardSpec

-----------------------------------------------------------------------------
(* The components together: the one a behaviour follows keeps its invariant, *)
(* and what the others promise stays true of a state that does not change.   *)
ReadingState ==
  <<part, cacheState, indexState, extractorState, guardState, poolState, scanState, searchState,
    auditState, boundVars>>

ReadingInv ==
  /\ IF part = "cache" THEN CacheInv ELSE MarksReadDurable
  /\ IF part = "index" THEN IndexInv ELSE IndexSound
  /\ IF part = "extractor" THEN ExtractorInv ELSE ReadingsSound
  /\ IF part = "guard" THEN GuardInv ELSE GuardReadsOnly
  /\ IF part = "pool" THEN PoolInv ELSE MarkedChunkRead
  /\ IF part = "stores" THEN ScanInv ELSE VerdictsTrue
  /\ IF part = "lyrics" THEN SearchInv ELSE ProviderSound
  /\ IF part = "audit" THEN AuditInv ELSE AuditSound

LEMMA MarksStay == ASSUME UNCHANGED cacheState, MarksReadDurable PROVE MarksReadDurable'
BY DEF cacheState, MarksReadDurable

LEMMA IndexStays == ASSUME UNCHANGED indexState, IndexSound PROVE IndexSound'
<1>1. UNCHANGED <<shown, step, entries, totalRead>>
  BY DEF indexState
<1>2. IndexExact' /\ CountsUncontradicted'
  BY <1>1 DEF IndexSound, IndexExact, CountsUncontradicted
<1> QED BY <1>2 DEF IndexSound

LEMMA ReadingsStay == ASSUME UNCHANGED extractorState, ReadingsSound PROVE ReadingsSound'
<1>1. UNCHANGED <<reader, caps, cdpCaps, bodies, responses, profile, goodReads, readings, nextRef>>
  BY DEF extractorState
<1>2. NamedElsewhereUnused'
  BY <1>1 DEF ReadingsSound, NamedElsewhereUnused, ForeignData
<1>3. PromotionEarned'
  BY <1>1 DEF ReadingsSound, PromotionEarned, StatusOfProfile
<1> QED BY <1>2, <1>3 DEF ReadingsSound

LEMMA GuardStays == ASSUME UNCHANGED guardState, GuardReadsOnly PROVE GuardReadsOnly'
BY DEF guardState, GuardReadsOnly

LEMMA MarkedStays == ASSUME UNCHANGED poolState, MarkedChunkRead PROVE MarkedChunkRead'
<1>1. UNCHANGED <<attempt, rowsStored, chunkMarked>>
  BY DEF poolState
<1> QED BY <1>1 DEF MarkedChunkRead

LEMMA VerdictsStay == ASSUME UNCHANGED scanState, VerdictsTrue PROVE VerdictsTrue'
BY DEF scanState, VerdictsTrue

LEMMA ProviderStays == ASSUME UNCHANGED searchState, ProviderSound PROVE ProviderSound'
<1>1. UNCHANGED <<now, nextSlot, breaker, answers, lookup, capped, truth, lyricRows, checkStatus>>
  BY DEF searchState
<1>2. \A q \in Queries : Results(q)' = Results(q)
  BY <1>1 DEF Results
<1>3. SlotsSpaced' /\ CachedAnswersReal'
  BY <1>1, <1>2 DEF ProviderSound, SlotsSpaced, CachedAnswersReal
<1> QED BY <1>3 DEF ProviderSound

LEMMA AuditStays == ASSUME UNCHANGED auditState, AuditSound PROVE AuditSound'
<1>1. UNCHANGED <<export, uploads, consent, audit, library, objects>>
  BY DEF auditState
<1>2. Expected' = Expected /\ ListedItems' = ListedItems /\ UNCHANGED <<export, audit>>
  BY <1>1, RowsStay DEF ListedItems
<1>4. MissingIsAbsent <=>
        \A i \in DOMAIN audit.classified : audit.classified[i].status = "missing" /\ audit.complete =>
          NotAmong(NormalizedItem(export[Expected[i]]), ListedItems)
  BY Zenon DEF MissingIsAbsent, NotAmong, ListedItems, UnderOtherName, OtherSong
<1>5. MissingIsAbsent' <=>
        \A i \in DOMAIN audit'.classified : audit'.classified[i].status = "missing" /\ audit'.complete =>
          NotAmong(NormalizedItem(export'[Expected'[i]]), ListedItems')
  BY Zenon DEF MissingIsAbsent, NotAmong, ListedItems, UnderOtherName, OtherSong
<1>6. MissingIsAbsent'
  BY <1>2, <1>4, <1>5 DEF AuditSound
<1>3. RunsLeaveWholePackets'
  BY <1>1 DEF AuditSound, RunsLeaveWholePackets
<1> QED BY <1>3, <1>6 DEF AuditSound

LEMMA ReadingInitInv == ASSUME ReadingInit PROVE ReadingInv
<1>1. CacheInv /\ IndexInv /\ ExtractorInv /\ GuardInv /\ PoolInv /\ ScanInv /\ SearchInv /\ AuditInv
  BY CacheInitInv, IndexInitInv, ExtractorInitInv, GuardInitInv, PoolInitInv, ScanInitInv, SearchInitInv,
     AuditInitInv DEF ReadingInit
<1>2. /\ MarksReadDurable /\ IndexSound /\ ReadingsSound /\ GuardReadsOnly /\ MarkedChunkRead
      /\ VerdictsTrue /\ ProviderSound /\ AuditSound
  BY <1>1, CacheInvSound, IndexInvSound, ExtractorInvSound, GuardInvSound, PoolInvSound, ScanInvSound,
     SearchInvSound, AuditInvImplies
<1> QED BY <1>1, <1>2 DEF ReadingInv

LEMMA ReadingNextInv == ASSUME ReadingInv, [ReadingNext]_ReadingState PROVE ReadingInv'
<1>1. part' = part
  BY DEF ReadingNext, ReadingState
<1>2. IF part = "cache" THEN CacheInv' ELSE MarksReadDurable'
  <2>1. IF part = "cache" THEN [CacheNext]_cacheVars ELSE UNCHANGED cacheState
    BY DEF ReadingNext, ReadingState, cacheVars
  <2> QED BY <2>1, CacheNextInv, MarksStay DEF ReadingInv
<1>3. IF part = "index" THEN IndexInv' ELSE IndexSound'
  <2>1. IF part = "index" THEN [IndexNext]_indexVars ELSE UNCHANGED indexState
    BY DEF ReadingNext, ReadingState, indexVars
  <2> QED BY <2>1, IndexNextInv, IndexStays DEF ReadingInv
<1>4. IF part = "extractor" THEN ExtractorInv' ELSE ReadingsSound'
  <2>1. IF part = "extractor" THEN [ExtractorNext]_extractorVars ELSE UNCHANGED extractorState
    BY DEF ReadingNext, ReadingState, extractorVars
  <2> QED BY <2>1, ExtractorNextInv, ReadingsStay DEF ReadingInv
<1>5. IF part = "guard" THEN GuardInv' ELSE GuardReadsOnly'
  <2>1. IF part = "guard" THEN [GuardNext]_guardVars ELSE UNCHANGED guardState
    BY DEF ReadingNext, ReadingState, guardVars
  <2> QED BY <2>1, GuardNextInv, GuardStays DEF ReadingInv
<1>6. IF part = "pool" THEN PoolInv' ELSE MarkedChunkRead'
  <2>1. IF part = "pool" THEN [PoolNext]_poolVars ELSE UNCHANGED poolState
    BY DEF ReadingNext, ReadingState, poolVars
  <2> QED BY <2>1, PoolNextInv, MarkedStays DEF ReadingInv
<1>7. IF part = "stores" THEN ScanInv' ELSE VerdictsTrue'
  <2>1. IF part = "stores" THEN [ScanNext]_scanVars ELSE UNCHANGED scanState
    BY DEF ReadingNext, ReadingState, scanVars
  <2> QED BY <2>1, ScanNextInv, VerdictsStay DEF ReadingInv
<1>8. IF part = "lyrics" THEN SearchInv' ELSE ProviderSound'
  <2>1. IF part = "lyrics" THEN [SearchNext]_searchVars ELSE UNCHANGED searchState
    BY DEF ReadingNext, ReadingState, searchVars
  <2> QED BY <2>1, SearchNextInv, ProviderStays DEF ReadingInv
<1>9. IF part = "audit" THEN AuditInv' ELSE AuditSound'
  <2>1. IF part = "audit" THEN [AuditNext]_auditVars ELSE UNCHANGED auditState
    BY DEF ReadingNext, ReadingState, auditVars
  <2> QED BY <2>1, AuditStepInv, AuditStays DEF ReadingInv
<1> QED BY <1>1, <1>2, <1>3, <1>4, <1>5, <1>6, <1>7, <1>8, <1>9 DEF ReadingInv

LEMMA ReadingInvSound ==
  ASSUME ReadingInv
  PROVE  /\ TypesOK /\ ExtractionSound /\ MarksReadDurable /\ IndexSound /\ MarkedChunkRead
         /\ VerdictsTrue /\ ProviderSound /\ AuditSound
<1>1. MarksReadDurable /\ (part = "cache" => CacheTypeOK)
  BY CacheInvSound DEF ReadingInv
<1>2. IndexSound /\ (part = "index" => IndexTypeOK)
  BY IndexInvSound DEF ReadingInv
<1>3. ReadingsSound /\ (part = "extractor" => ExtractorTypeOK)
  BY ExtractorInvSound DEF ReadingInv
<1>4. GuardReadsOnly /\ (part = "guard" => GuardTypeOK)
  BY GuardInvSound DEF ReadingInv
<1>5. MarkedChunkRead /\ (part = "pool" => PoolTypeOK)
  BY PoolInvSound DEF ReadingInv
<1>6. VerdictsTrue /\ (part = "stores" => ScanTypeOK)
  BY ScanInvSound DEF ReadingInv
<1>7. ProviderSound /\ (part = "lyrics" => SearchTypeOK)
  BY SearchInvSound DEF ReadingInv
<1>8. AuditSound /\ (part = "audit" => AuditTypeOK)
  BY AuditInvImplies DEF ReadingInv
<1> QED BY <1>1, <1>2, <1>3, <1>4, <1>5, <1>6, <1>7, <1>8 DEF TypesOK, ExtractionSound

(* Whichever component a behaviour follows, it keeps its types; no reading    *)
(* uses another release's data and none changes the account; and the index,  *)
(* the marks, the store verdicts, the searches and the audit keep their       *)
(* promises.                                                                  *)
THEOREM ReadingsPromise ==
  ReadingSpec => [](/\ TypesOK /\ ExtractionSound /\ MarksReadDurable /\ IndexSound /\ MarkedChunkRead
                    /\ VerdictsTrue /\ ProviderSound /\ AuditSound)
<1>1. ReadingInit => ReadingInv
  BY ReadingInitInv
<1>2. ReadingInv /\ [ReadingNext]_ReadingState => ReadingInv'
  BY ReadingNextInv
<1>3. ReadingInv => /\ TypesOK /\ ExtractionSound /\ MarksReadDurable /\ IndexSound /\ MarkedChunkRead
                    /\ VerdictsTrue /\ ProviderSound /\ AuditSound
  BY ReadingInvSound
<1>4. ReadingSpec => ReadingInit /\ [][ReadingNext]_ReadingState
  BY DEF ReadingSpec, ReadingState
<1> QED BY <1>1, <1>2, <1>3, <1>4, PTL

(* The state of the checkpoint cache, the readers, the guard, the tabs, the   *)
(* store scan, the searches and the audit stays well formed.                  *)
THEOREM ReadingTyped == ReadingSpec => []TypesOK
BY ReadingsPromise, PTL
=============================================================================
