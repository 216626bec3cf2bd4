---------------------------- MODULE SearchRecords ----------------------------
(***************************************************************************)
(* The tiered search store (packages/search-store): PostgreSQL is the      *)
(* source of truth and is written first, Redis is a version-aware cache    *)
(* with a list index.  API replicas and workers use one store each; every  *)
(* SQL statement, Redis command and Lua script is one step, and anything   *)
(* may happen between two of them.  One record of one owner is modelled.   *)
(***************************************************************************)
EXTENDS ModelBounds

CONSTANTS
  Clients,      \* processes that use the store
  CasAttempts,  \* rounds of an optimistic update (8 in the code)
  MaxStoreCalls \* bound on store calls

ASSUME RecordsAssumption ==
  /\ IsFiniteSet(Clients)
  /\ CasAttempts \in Nat \ {0} /\ MaxStoreCalls \in Nat

VARIABLES
  db,      \* the scan_records row, or None
  hot,     \* the JSON value under search:{id}, or None
  index,   \* how often the id stands in the Redis list index
  client,  \* what each process is doing
  acked,   \* updates (each named by its call's number) acknowledged since
           \* the row was last deleted
  erased   \* the row has been deleted at least once

recordState == <<db, hot, index, client, acked, erased>>
recordVars == <<recordState, boundVars>>

(* revision is the concurrency token, edits the mutations applied so far. *)
StoredRecord == [revision : Nat, edits : SUBSET Nat]

(* None is no record. *)
ASSUME RecordAssumption == None \notin StoredRecord

(* The record every retried save and handoff writes (revision 1). *)
NewRecord == [revision |-> 1, edits |-> {}]

PCs == {"idle", "upsert", "compare", "reread", "read", "cas", "hotRead", "insert",
        "push", "hotCas", "erase", "hotErase", "hotDelete"}

(* rec is the record at hand, raw the Redis value last read, try the round. *)
ClientState == [pc : PCs, edit : Nat, rec : StoredRecord \cup {None},
                raw : StoredRecord \cup {None}, try : Nat]

IdleClient == [pc |-> "idle", edit |-> 0, rec |-> None, raw |-> None, try |-> 0]

RecordsInit ==
  /\ db = None /\ hot = None /\ index = 0
  /\ client = [c \in Clients |-> IdleClient]
  /\ acked = {} /\ erased = FALSE
  /\ BoundsInit

At(c, pc) == client[c].pc = pc
Become(c, s) == client' = [client EXCEPT ![c] = s]
Goto(c, pc) == Become(c, [client[c] EXCEPT !.pc = pc])
Return(c) == Become(c, IdleClient)

(* A mutation keeps identity and owner and advances the revision. *)
ApplySearchMutation(r, edit) ==
  [revision |-> r.revision + 1, edits |-> r.edits \cup {edit}]

(* INSERT ... ON CONFLICT DO UPDATE ... WHERE revision < incoming. *)
Upserted(row, rec) ==
  IF row = None \/ row.revision < rec.revision THEN rec ELSE row

(* Broken variant: the update is keyed by the id only. *)
RowMatchesById(row, seen) == row # None

(* UPDATE ... WHERE revision = the revision that was read. *)
RowMatches(row, seen) == row # None /\ row.revision = seen.revision

(* A call begins: save or put, update, get or delete. *)
BeginPut(c) ==
  /\ At(c, "idle") /\ calls < MaxStoreCalls
  /\ calls' = calls + 1
  /\ Become(c, [IdleClient EXCEPT !.pc = "upsert", !.rec = NewRecord])
  /\ UNCHANGED <<db, hot, index, acked, erased, finals, faults>>

BeginUpdate(c) ==
  /\ At(c, "idle") /\ calls < MaxStoreCalls
  /\ calls' = calls + 1
  /\ Become(c, [IdleClient EXCEPT !.pc = "read", !.edit = calls + 1])
  /\ UNCHANGED <<db, hot, index, acked, erased, finals, faults>>

(* The scoped delete refuses a record its owner cannot see. *)
BeginDelete(c) ==
  /\ At(c, "idle") /\ calls < MaxStoreCalls
  /\ calls' = calls + 1
  /\ IF db = None THEN UNCHANGED client
     ELSE Become(c, [IdleClient EXCEPT !.pc = "erase"])
  /\ UNCHANGED <<db, hot, index, acked, erased, finals, faults>>

(* get reads the row and warms the cache with it. *)
GetRecord(c) ==
  /\ At(c, "idle") /\ calls < MaxStoreCalls
  /\ calls' = calls + 1
  /\ IF db = None THEN UNCHANGED client
     ELSE Become(c, [IdleClient EXCEPT !.pc = "hotRead", !.rec = db])
  /\ UNCHANGED <<db, hot, index, acked, erased, finals, faults>>

(* upsert: a statement that wrote no row is followed by a comparison. *)
Upsert(c) ==
  /\ At(c, "upsert")
  /\ db' = Upserted(db, client[c].rec)
  /\ Goto(c, IF db = None \/ db' # db THEN "reread" ELSE "compare")
  /\ UNCHANGED <<hot, index, acked, calls, erased, finals, faults>>

(* A newer or equal row is a replay; a vanished or different one is an error. *)
CompareRow(c) ==
  /\ At(c, "compare")
  /\ IF db # None /\ (db.revision > client[c].rec.revision \/ db = client[c].rec)
     THEN Goto(c, "reread") ELSE Return(c)
  /\ UNCHANGED <<db, hot, index, acked, calls, erased, finals, faults>>

Reread(c) ==
  /\ At(c, "reread")
  /\ IF db = None THEN Return(c)
     ELSE Become(c, [IdleClient EXCEPT !.pc = "hotRead", !.rec = db])
  /\ UNCHANGED <<db, hot, index, acked, calls, erased, finals, faults>>

ReadRow(c) ==
  /\ At(c, "read")
  /\ IF db = None THEN Return(c)
     ELSE Become(c, [client[c] EXCEPT !.pc = "cas", !.rec = db])
  /\ UNCHANGED <<db, hot, index, acked, calls, erased, finals, faults>>

CompareAndSwapRow(c) ==
  LET seen == client[c].rec
      next == ApplySearchMutation(seen, client[c].edit)
  IN /\ At(c, "cas")
     /\ IF RowMatches(db, seen)
        THEN /\ db' = next
             /\ acked' = acked \cup {client[c].edit}
             /\ Become(c, [IdleClient EXCEPT !.pc = "hotRead", !.rec = next])
        ELSE /\ UNCHANGED <<db, acked>>
             /\ IF client[c].try + 1 < CasAttempts
                THEN Become(c, [client[c] EXCEPT !.pc = "read", !.try = @ + 1])
                ELSE Return(c)
     /\ UNCHANGED <<hot, index, calls, erased, finals, faults>>

-----------------------------------------------------------------------------
(* warm is the Redis put; whatever it throws is logged and forgotten. *)
NextRound(c, pc) ==
  IF client[c].try + 1 < CasAttempts
  THEN Become(c, [client[c] EXCEPT !.pc = pc, !.try = @ + 1])
  ELSE Return(c)

(* Whether an incoming record replaces the cached one. *)
Replaces(rec, cached) == rec.revision > cached.revision

HotRead(c) ==
  /\ At(c, "hotRead")
  /\ IF hot = None THEN Goto(c, "insert")
     ELSE IF Replaces(client[c].rec, hot)
     THEN Become(c, [client[c] EXCEPT !.pc = "hotCas", !.raw = hot])
     ELSE Return(c)
  /\ UNCHANGED <<db, hot, index, acked, calls, erased, finals, faults>>

PutIfAbsent(c) ==
  /\ At(c, "insert")
  /\ IF hot = None
     THEN hot' = client[c].rec /\ Goto(c, "push")
     ELSE UNCHANGED hot /\ NextRound(c, "hotRead")
  /\ UNCHANGED <<db, index, acked, calls, erased, finals, faults>>

IndexRecord(c) ==
  /\ At(c, "push")
  /\ index' = index + 1
  /\ Return(c)
  /\ UNCHANGED <<db, hot, acked, calls, erased, finals, faults>>

CompareAndSetHot(c) ==
  /\ At(c, "hotCas")
  /\ IF hot = client[c].raw
     THEN hot' = client[c].rec /\ Return(c)
     ELSE UNCHANGED hot /\ NextRound(c, "hotRead")
  /\ UNCHANGED <<db, index, acked, calls, erased, finals, faults>>

(* delete: the durable row first, then the cached value with its index. *)
DeleteRow(c) ==
  /\ At(c, "erase")
  /\ db' = None /\ acked' = {}
  /\ erased' = (erased \/ db # None)
  /\ Goto(c, "hotErase")
  /\ UNCHANGED <<hot, index, calls, finals, faults>>

HotErase(c) ==
  /\ At(c, "hotErase")
  /\ IF hot = None THEN index' = 0 /\ Return(c)
     ELSE UNCHANGED index /\ Goto(c, "hotDelete")
  /\ UNCHANGED <<db, hot, acked, calls, erased, finals, faults>>

DeleteWithIndexes(c) ==
  /\ At(c, "hotDelete")
  /\ hot' = None /\ index' = 0
  /\ Return(c)
  /\ UNCHANGED <<db, acked, calls, erased, finals, faults>>

(* A Redis command fails and is swallowed, or the process dies. *)
CallFails(c) ==
  /\ client[c].pc # "idle" /\ faults < MaxFaults
  /\ faults' = faults + 1
  /\ Return(c)
  /\ UNCHANGED <<db, hot, index, acked, calls, finals, erased>>

RecordsNext ==
  \E c \in Clients :
    \/ BeginPut(c) \/ BeginUpdate(c) \/ BeginDelete(c) \/ GetRecord(c)
    \/ Upsert(c) \/ CompareRow(c) \/ Reread(c) \/ ReadRow(c) \/ CompareAndSwapRow(c)
    \/ HotRead(c) \/ PutIfAbsent(c) \/ IndexRecord(c) \/ CompareAndSetHot(c)
    \/ DeleteRow(c) \/ HotErase(c) \/ DeleteWithIndexes(c) \/ CallFails(c)

RecordsSpec == RecordsInit /\ [][RecordsNext]_recordVars

-----------------------------------------------------------------------------
RecordsTypeOK ==
  /\ db \in StoredRecord \cup {None} /\ hot \in StoredRecord \cup {None}
  /\ index \in Nat /\ client \in [Clients -> ClientState]
  /\ acked \subseteq Nat /\ calls \in Nat
  /\ erased \in BOOLEAN /\ faults \in 0..MaxFaults

(* Every acknowledged update is in the row: concurrent writers of store    *)
(* results, reviews and names never erase each other                       *)
(* (PostgresSearchStore.update), nor does a replayed save of the first     *)
(* revision (PostgresSearchStore.upsert).  A deletion ends the promise:    *)
(* an id saved again counts its revisions from 1.                          *)
AckedUpdatesKept == ~erased /\ db # None => acked \subseteq db.edits

(* While the record has not been deleted, the cache never holds more than  *)
(* the row (a revision that was not committed, or an edit the row lacks),  *)
(* and once every process is done without a fault it holds exactly the     *)
(* row, listed once, whatever order the writers reached Redis in           *)
(* (TieredSearchStore.warm over RedisSearchStore.put).                     *)
CacheFollowsRow ==
  ~erased =>
    /\ hot # None =>
         /\ db # None /\ hot.revision <= db.revision
         /\ hot.revision = db.revision => hot = db
    /\ faults = 0 /\ db # None /\ (\A c \in Clients : At(c, "idle"))
         => hot = db /\ index = 1

(* What the record store promises its callers. *)
RecordsSound == AckedUpdatesKept /\ CacheFollowsRow
=============================================================================
