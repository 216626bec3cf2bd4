------------------------- MODULE ScanRecords_proofs -------------------------
(***************************************************************************)
(* Proofs about what a scan leaves behind: the record of a search and its  *)
(* cache, the history of a user's scans, the durable track rows of a user's*)
(* catalogue and the verdict cells of a search record.  Each part has its  *)
(* own specification, invariant and theorem.                               *)
(***************************************************************************)
EXTENDS ScanRecords, FiniteSetTheorems, WellFoundedInduction, TLAPS

-----------------------------------------------------------------------------
(* The record store keeps every acknowledged update for any number of        *)
(* concurrent callers, calls and failures, and its cache follows the row     *)
(* when the callers are no more than the rounds of an optimistic put.        *)

(* No more callers work on one record at a time than RedisSearchStore.put  *)
(* has rounds (8): with more, the caller that carries the newest revision  *)
(* may give up and leave the cache behind the row.                         *)
FewClients == Cardinality(Clients) <= CasAttempts

(* r is the row, or an earlier revision of it. *)
Follows(r, held) ==
  r # None => /\ held # None /\ r.revision <= held.revision
              /\ r.revision = held.revision => r = held

(* c is in the Redis put of warm. *)
Warming(c) == client[c].pc \in {"hotRead", "insert", "hotCas"}

(* Steps that use the record at hand. *)
HasRecord(c) == Warming(c) \/ client[c].pc \in {"cas", "push"}

(* What a caller holds at each step. *)
CallerSane(c) ==
  /\ client[c].pc \in {"upsert", "compare"} => client[c].rec = NewRecord
  /\ HasRecord(c) => client[c].rec # None
  /\ At(c, "hotCas") => /\ client[c].raw # None
                        /\ client[c].raw.revision < client[c].rec.revision

(* The row before the first deletion, and what callers know of it. *)
CallerFollows(c) ==
  /\ HasRecord(c) => Follows(client[c].rec, db)
  /\ client[c].pc \in {"compare", "reread", "erase"} => db # None
  /\ client[c].pc \notin {"hotErase", "hotDelete"}

RowInv ==
  /\ Follows(hot, db)
  /\ db = None => acked = {}
  /\ db # None => db.revision >= 1 /\ acked \subseteq db.edits
  /\ \A c \in Clients : CallerFollows(c)

(* The id is listed once, or one caller is about to list it. *)
Listing(c) == \A d \in Clients : At(d, "push") <=> d = c

ListInv ==
  IF hot = None THEN index = 0 /\ \A c \in Clients : ~At(c, "push")
  ELSE \/ index = 1 /\ \A c \in Clients : ~At(c, "push")
       \/ index = 0 /\ \E c \in Clients : Listing(c)

(* c brings the newest revision to the cache, unless it runs out of rounds. *)
CarriesNewest(c) == Warming(c) /\ client[c].rec = db
CarriedInv ==
  FewClients /\ db # None /\ hot # db => \E c \in Clients : At(c, "reread") \/ CarriesNewest(c)

(* Callers that may still write an older revision to the cache. *)
Laggards == {c \in Clients : Warming(c) /\ client[c].rec # db}

(* The cache changed since c read it, so that its round is lost. *)
Stale(c) ==
  IF (At(c, "insert") /\ hot # None) \/ (At(c, "hotCas") /\ hot # client[c].raw)
  THEN 1 ELSE 0

(* A caller with the newest revision loses a round to a laggard only. *)
RoundsInv ==
  \A c \in Clients :
    CarriesNewest(c) /\ hot # db =>
      client[c].try + Stale(c) + Cardinality(Laggards) + 1 <= Cardinality(Clients)

RecordsInv ==
  /\ RecordsTypeOK
  /\ \A c \in Clients : CallerSane(c)
  /\ ~erased => RowInv /\ RoundsInv
  /\ ~erased /\ faults = 0 => ListInv /\ CarriedInv

-----------------------------------------------------------------------------
(* Steps that change what callers do and nothing they share.               *)

Carrier(c) == At(c, "reread") \/ CarriesNewest(c)
Lagging(c) == Warming(c) /\ client[c].rec # db

(* What a caller may do by itself. *)
LocalStep(c) ==
  /\ UNCHANGED <<db, hot, index, acked, erased>>
  /\ calls' \in Nat /\ faults' \in 0..MaxFaults /\ (faults' = 0 => faults = 0)
  /\ client' \in [Clients -> ClientState]
  /\ \A d \in Clients : d # c => client'[d] = client[d]
  /\ CallerSane(c)'
  /\ ~erased => CallerFollows(c)'
  /\ faults' = 0 => (At(c, "push")' <=> At(c, "push"))
  /\ ~erased /\ Lagging(c)' => Lagging(c)
  /\ FewClients /\ ~erased /\ faults' = 0 /\ hot # db /\ Carrier(c) => Carrier(c)'
  /\ ~erased /\ hot # db /\ CarriesNewest(c)' =>
       \/ client'[c].try = 0 /\ Stale(c)' = 0
       \/ CarriesNewest(c) /\ client'[c].try + Stale(c)' <= client[c].try + Stale(c)

(* A caller that moves to state s, alone. *)
LEMMA Moves ==
  ASSUME RecordsTypeOK, NEW c \in Clients, NEW s \in ClientState, Become(c, s)
  PROVE  /\ client' \in [Clients -> ClientState]
         /\ client'[c] = s
         /\ \A d \in Clients : d # c => client'[d] = client[d]
  BY DEF RecordsTypeOK, Become

(* The caller's fields, and how many callers lag. *)
LEMMA CallerTyped ==
  ASSUME RecordsTypeOK, NEW c \in Clients
  PROVE  /\ client[c] \in ClientState
         /\ client[c].pc \in PCs /\ client[c].edit \in Nat /\ client[c].try \in Nat
         /\ client[c].rec \in StoredRecord \cup {None}
         /\ client[c].raw \in StoredRecord \cup {None}
  BY DEF RecordsTypeOK, ClientState

LEMMA LaggardsCounted ==
  /\ IsFiniteSet(Laggards) /\ Cardinality(Laggards) \in Nat
  /\ Cardinality(Clients) \in Nat
  /\ \A S \in SUBSET Clients : IsFiniteSet(S) /\ Cardinality(S) \in Nat
<1>1. \A S \in SUBSET Clients : IsFiniteSet(S) /\ Cardinality(S) \in Nat
  BY FS_Subset, FS_CardinalityType, RecordsAssumption DEF RecordsAssumption
<1>2. Laggards \in SUBSET Clients /\ Clients \in SUBSET Clients
  BY DEF Laggards
<1> QED BY <1>1, <1>2

LEMMA OthersCounted ==
  ASSUME NEW c \in Clients, NEW S \in SUBSET (Clients \ {c})
  PROVE  Cardinality(S) + 1 <= Cardinality(Clients)
<1>1. Cardinality(Clients \ {c}) = Cardinality(Clients) - 1
  BY FS_RemoveElement, RecordsAssumption DEF RecordsAssumption
<1>2. /\ Cardinality(S) <= Cardinality(Clients \ {c})
      /\ Cardinality(S) \in Nat /\ Cardinality(Clients \ {c}) \in Nat
  BY LaggardsCounted, FS_Subset
<1> QED BY <1>1, <1>2, LaggardsCounted

LEMMA LaggardsAre ==
  ASSUME NEW c \in Clients
  PROVE  c \in Laggards <=> Lagging(c)
  BY DEF Laggards, Lagging

(* Such a step keeps the invariant. *)
LEMMA LocalKeeps ==
  ASSUME RecordsInv, NEW c \in Clients, LocalStep(c)
  PROVE  RecordsInv'
<1> USE DEF LocalStep
<1>1. RecordsTypeOK'
  BY DEF RecordsInv, RecordsTypeOK
<1>2. \A d \in Clients : CallerSane(d)'
  <2> SUFFICES ASSUME NEW d \in Clients, d # c PROVE CallerSane(d)'
    OBVIOUS
  <2> QED BY DEF RecordsInv, CallerSane, HasRecord, Warming, At
<1>3. ASSUME ~erased' PROVE RowInv'
  <2>1. ~erased /\ RowInv
    BY <1>3 DEF RecordsInv
  <2>2. ASSUME NEW d \in Clients PROVE CallerFollows(d)'
    <3>1. CASE d = c BY <3>1, <2>1
    <3>2. CASE d # c
      BY <3>2, <2>1 DEF RowInv, CallerFollows, HasRecord, Warming, Follows
    <3> QED BY <3>1, <3>2
  <2> QED BY <2>1, <2>2 DEF RowInv, Follows
<1>4. ASSUME ~erased' PROVE RoundsInv'
  <2>1. ~erased /\ RowInv /\ RoundsInv
    BY <1>4 DEF RecordsInv
  <2>2. Laggards' \subseteq Laggards
    BY <2>1 DEF Laggards, Lagging, Warming
  <2>3. /\ Cardinality(Laggards') \in Nat /\ Cardinality(Laggards) \in Nat
        /\ Cardinality(Clients) \in Nat /\ Cardinality(Laggards') <= Cardinality(Laggards)
    BY <2>2, LaggardsCounted, FS_Subset, FS_CardinalityType
  <2> SUFFICES ASSUME NEW d \in Clients, CarriesNewest(d)', hot # db
               PROVE  client'[d].try + Stale(d)' + Cardinality(Laggards') + 1
                        <= Cardinality(Clients)
    BY DEF RoundsInv
  <2>4. /\ client[d].try \in Nat /\ client'[d].try \in Nat
        /\ Stale(d) \in Nat /\ Stale(d)' \in Nat
    BY CallerTyped, <1>1 DEF RecordsInv, RecordsTypeOK, ClientState, Stale
  <2>5. CASE d # c
    <3>1. CarriesNewest(d) /\ client'[d] = client[d] /\ Stale(d)' = Stale(d)
      BY <2>5 DEF CarriesNewest, Warming, Stale, At
    <3>2. client[d].try + Stale(d) + Cardinality(Laggards) + 1 <= Cardinality(Clients)
      BY <3>1, <2>1 DEF RoundsInv
    <3> QED BY <3>1, <3>2, <2>3, <2>4
  <2>6. CASE d = c /\ CarriesNewest(c) /\ client'[c].try + Stale(c)' <= client[c].try + Stale(c)
    <3>1. client[d].try + Stale(d) + Cardinality(Laggards) + 1 <= Cardinality(Clients)
      BY <2>6, <2>1 DEF RoundsInv
    <3> HIDE DEF LocalStep
    <3> QED BY <2>6, <3>1, <2>3, <2>4
  <2>7. CASE d = c /\ client'[c].try = 0 /\ Stale(c)' = 0
    <3>1. Laggards' \subseteq Clients \ {c}
      BY <2>7 DEF Laggards, CarriesNewest
    <3>2. Cardinality(Laggards') + 1 <= Cardinality(Clients)
      BY <3>1, OthersCounted
    <3> QED BY <2>7, <3>2, <2>3
  <2> QED BY <2>1, <2>5, <2>6, <2>7
<1>5. ASSUME ~erased', faults' = 0 PROVE ListInv' /\ CarriedInv'
  <2>1. ~erased /\ faults = 0 /\ ListInv /\ CarriedInv
    BY <1>5 DEF RecordsInv
  <2>2. \A d \in Clients : At(d, "push")' <=> At(d, "push")
    BY <1>5 DEF At
  <2>3. ListInv'
    BY <2>1, <2>2 DEF ListInv, Listing
  <2>4. CarriedInv'
    <3>1. SUFFICES ASSUME FewClients, db # None, hot # db
                   PROVE  \E d \in Clients : Carrier(d)'
      BY DEF CarriedInv, Carrier
    <3>2. PICK d \in Clients : Carrier(d)
      BY <3>1, <2>1 DEF CarriedInv, Carrier
    <3>3. Carrier(d)'
      <4>1. CASE d = c BY <4>1, <3>1, <3>2, <2>1, <1>5
      <4>2. CASE d # c BY <4>2, <3>2 DEF Carrier, CarriesNewest, Warming, At
      <4> QED BY <4>1, <4>2
    <3> QED BY <3>3
  <2> QED BY <2>3, <2>4
<1> QED BY <1>1, <1>2, <1>3, <1>4, <1>5 DEF RecordsInv

(* A caller that is not in the Redis put promises nothing to the cache. *)
LEMMA QuietMove ==
  ASSUME RecordsInv, NEW c \in Clients, NEW s \in ClientState, Become(c, s),
         UNCHANGED <<db, hot, index, acked, erased>>,
         calls' \in Nat, faults' \in 0..MaxFaults, faults' = 0 => faults = 0,
         s.pc \in {"upsert", "compare"} => s.rec = NewRecord,
         s.pc \in {"cas", "hotRead"} => s.rec # None,
         s.pc \notin {"insert", "push", "hotCas", "hotErase", "hotDelete"},
         ~erased => /\ s.pc \in {"compare", "reread", "erase"} => db # None
                    /\ s.pc \in {"cas", "hotRead"} => s.rec = db
                    /\ s.pc = "hotRead" => s.try = 0,
         faults' = 0 => ~At(c, "push"),
         FewClients /\ ~erased /\ faults' = 0 /\ hot # db /\ Carrier(c) =>
           s.pc = "reread" \/ (s.pc = "hotRead" /\ s.rec = db)
  PROVE  LocalStep(c)
<1>1. /\ client' \in [Clients -> ClientState] /\ client'[c] = s
      /\ \A d \in Clients : d # c => client'[d] = client[d]
  BY Moves DEF RecordsInv
<1>2. s.pc \in PCs /\ s.try \in Nat
  BY DEF ClientState
<1>3. CallerSane(c)'
  BY <1>1 DEF CallerSane, HasRecord, Warming, At
<1>4. ~erased => CallerFollows(c)'
  <2> SUFFICES ASSUME ~erased PROVE CallerFollows(c)'
    OBVIOUS
  <2>1. s.pc \in {"cas", "hotRead"} => Follows(s.rec, db)
    BY DEF Follows, RecordsInv, RecordsTypeOK, StoredRecord
  <2> QED BY <1>1, <2>1 DEF CallerFollows, HasRecord, Warming, Follows
<1>5. faults' = 0 => (At(c, "push")' <=> At(c, "push"))
  BY <1>1 DEF At
<1>6. ~erased /\ Lagging(c)' => Lagging(c)
  BY <1>1 DEF Lagging, Warming
<1>7. FewClients /\ ~erased /\ faults' = 0 /\ hot # db /\ Carrier(c) => Carrier(c)'
  BY <1>1 DEF Carrier, At, CarriesNewest, Warming
<1>8. ~erased /\ hot # db /\ CarriesNewest(c)' => client'[c].try = 0 /\ Stale(c)' = 0
  BY <1>1 DEF CarriesNewest, Warming, Stale, At
<1> QED BY <1>1, <1>3, <1>4, <1>5, <1>6, <1>7, <1>8 DEF LocalStep

(* The calls begin, and the steps that only read the row. *)
LEMMA CallSteps ==
  ASSUME RecordsInv, NEW c \in Clients,
         \/ BeginPut(c) \/ BeginUpdate(c) \/ BeginDelete(c) \/ GetRecord(c)
         \/ CompareRow(c) \/ Reread(c) \/ ReadRow(c) \/ CallFails(c)
  PROVE  RecordsInv'
<1> DEFINE s == client[c]
<1>1. /\ RecordsTypeOK /\ db \in StoredRecord \cup {None} /\ CallerSane(c)
      /\ ~erased => CallerFollows(c)
      /\ calls \in Nat /\ faults \in 0..MaxFaults /\ MaxFaults \in Nat
  BY FaultsAssumption DEF RecordsInv, RecordsTypeOK, RowInv, FaultsAssumption
<1>2. s \in ClientState /\ client = [client EXCEPT ![c] = s]
  BY <1>1 DEF RecordsTypeOK
<1>3. NewRecord \in StoredRecord /\ NewRecord # None
  BY RecordAssumption DEF NewRecord, StoredRecord, RecordAssumption
<1>4. IdleClient \in ClientState /\ s.edit \in Nat /\ s.try \in Nat
  BY <1>2 DEF IdleClient, ClientState, PCs
<1> DEFINE Shared == /\ UNCHANGED <<db, hot, index, acked, erased>>
                     /\ calls' \in Nat /\ faults' \in 0..MaxFaults /\ faults' = faults
<1> SUFFICES LocalStep(c)
  BY LocalKeeps
<1>c. calls + 1 \in Nat
  BY <1>1
<1>s. s.pc = "idle" => ~At(c, "push") /\ ~Carrier(c)
  BY DEF At, Carrier, CarriesNewest, Warming
<1>5. CASE BeginPut(c)
  <2> DEFINE t == [IdleClient EXCEPT !.pc = "upsert", !.rec = NewRecord]
  <2>1. t \in ClientState /\ t.pc = "upsert" /\ t.rec = NewRecord
    BY <1>3 DEF IdleClient, ClientState, PCs
  <2>2. s.pc = "idle" /\ Become(c, t)
    BY <1>5 DEF BeginPut, At
  <2>3. Shared
    BY <1>5, <1>1, <1>c DEF BeginPut
  <2> QED BY <1>1, <1>s, <2>1, <2>2, <2>3, QuietMove
<1>6. CASE BeginUpdate(c)
  <2> DEFINE t == [IdleClient EXCEPT !.pc = "read", !.edit = calls + 1]
  <2>1. t \in ClientState /\ t.pc = "read"
    <3>1. ASSUME NEW e \in Nat
          PROVE  LET u == [IdleClient EXCEPT !.pc = "read", !.edit = e]
                 IN  u \in ClientState /\ u.pc = "read"
      BY DEF IdleClient, ClientState, PCs
    <3> QED BY <3>1, <1>c
  <2>2. s.pc = "idle" /\ Become(c, t)
    BY <1>6 DEF BeginUpdate, At
  <2>3. Shared
    BY <1>6, <1>1, <1>c DEF BeginUpdate
  <2> QED BY <1>1, <1>s, <2>1, <2>2, <2>3, QuietMove
<1>7. CASE BeginDelete(c)
  <2> DEFINE t == [IdleClient EXCEPT !.pc = "erase"]
  <2>1. t \in ClientState /\ t.pc = "erase"
    BY DEF IdleClient, ClientState, PCs
  <2>2. s.pc = "idle"
    BY <1>7 DEF BeginDelete, At
  <2>s. Shared
    BY <1>7, <1>1, <1>c DEF BeginDelete
  <2>3. CASE db = None
    <3>1. Become(c, s)
      BY <1>7, <1>2, <2>3 DEF BeginDelete, Become
    <3> QED BY <1>1, <1>2, <1>s, <2>2, <2>s, <3>1, QuietMove
  <2>4. CASE db # None
    <3>1. Become(c, t)
      BY <1>7, <2>4 DEF BeginDelete
    <3> QED BY <1>1, <1>s, <2>1, <2>2, <2>4, <2>s, <3>1, QuietMove
  <2> QED BY <2>3, <2>4
<1>8. CASE GetRecord(c)
  <2> DEFINE t == [IdleClient EXCEPT !.pc = "hotRead", !.rec = db]
  <2>1. t \in ClientState /\ t.pc = "hotRead" /\ t.rec = db /\ t.try = 0
    BY <1>1 DEF IdleClient, ClientState, PCs
  <2>2. s.pc = "idle"
    BY <1>8 DEF GetRecord, At
  <2>s. Shared
    BY <1>8, <1>1, <1>c DEF GetRecord
  <2>3. CASE db = None
    <3>1. Become(c, s)
      BY <1>8, <1>2, <2>3 DEF GetRecord, Become
    <3> QED BY <1>1, <1>2, <1>s, <2>2, <2>s, <3>1, QuietMove
  <2>4. CASE db # None
    <3>1. Become(c, t)
      BY <1>8, <2>4 DEF GetRecord
    <3> QED BY <1>1, <1>s, <2>1, <2>2, <2>4, <2>s, <3>1, QuietMove
  <2> QED BY <2>3, <2>4
<1>9. CASE CompareRow(c)
  <2> DEFINE t == [s EXCEPT !.pc = "reread"]
  <2>1. t \in ClientState /\ t.pc = "reread"
    BY <1>2 DEF ClientState, PCs
  <2>2. s.pc = "compare" /\ ((Become(c, t) /\ db # None) \/ Become(c, IdleClient))
    BY <1>9 DEF CompareRow, At, Goto, Return
  <2>3. IdleClient.pc = "idle"
    BY DEF IdleClient
  <2>4. CASE Become(c, t) /\ db # None
    BY <1>9, <1>1, <2>1, <2>2, <2>4, QuietMove
       DEF CompareRow, At, Carrier, CarriesNewest, Warming
  <2>5. CASE Become(c, IdleClient)
    BY <1>9, <1>1, <1>4, <2>2, <2>3, <2>5, QuietMove
       DEF CompareRow, At, Carrier, CarriesNewest, Warming
  <2> QED BY <2>2, <2>4, <2>5
<1>10. CASE Reread(c)
  <2> DEFINE t == [IdleClient EXCEPT !.pc = "hotRead", !.rec = db]
  <2>1. t \in ClientState /\ t.pc = "hotRead" /\ t.rec = db /\ t.try = 0
    BY <1>1 DEF IdleClient, ClientState, PCs
  <2>2. s.pc = "reread"
    BY <1>10 DEF Reread, At
  <2>3. IdleClient.pc = "idle"
    BY DEF IdleClient
  <2>4. CASE db = None
    <3>1. Become(c, IdleClient) /\ erased
      BY <1>10, <1>1, <2>2, <2>4 DEF Reread, Return, CallerFollows
    <3> QED BY <1>10, <1>1, <1>4, <2>2, <2>3, <3>1, QuietMove
            DEF Reread, At, Carrier, CarriesNewest, Warming
  <2>5. CASE db # None
    <3>1. Become(c, t)
      BY <1>10, <2>5 DEF Reread
    <3> QED BY <1>10, <1>1, <2>1, <2>2, <2>5, <3>1, QuietMove
            DEF Reread, At, Carrier, CarriesNewest, Warming
  <2> QED BY <2>4, <2>5
<1>11. CASE ReadRow(c)
  <2> DEFINE t == [s EXCEPT !.pc = "cas", !.rec = db]
  <2>1. t \in ClientState /\ t.pc = "cas" /\ t.rec = db
    BY <1>1, <1>2 DEF ClientState, PCs
  <2>2. s.pc = "read"
    BY <1>11 DEF ReadRow, At
  <2>3. IdleClient.pc = "idle"
    BY DEF IdleClient
  <2>4. CASE db = None
    <3>1. Become(c, IdleClient)
      BY <1>11, <2>4 DEF ReadRow, Return
    <3> QED BY <1>11, <1>1, <1>4, <2>2, <2>3, <3>1, QuietMove
            DEF ReadRow, At, Carrier, CarriesNewest, Warming
  <2>5. CASE db # None
    <3>1. Become(c, t)
      BY <1>11, <2>5 DEF ReadRow
    <3> QED BY <1>11, <1>1, <2>1, <2>2, <2>5, <3>1, QuietMove
            DEF ReadRow, At, Carrier, CarriesNewest, Warming
  <2> QED BY <2>4, <2>5
<1>12. CASE CallFails(c)
  <2>1. /\ Become(c, IdleClient) /\ faults' \in 0..MaxFaults /\ faults' # 0
        /\ IdleClient.pc = "idle"
    BY <1>12, <1>1 DEF CallFails, Return, IdleClient
  <2> QED BY <1>12, <1>1, <1>4, <2>1, QuietMove DEF CallFails
<1> QED BY <1>5, <1>6, <1>7, <1>8, <1>9, <1>10, <1>11, <1>12

(* The step that reads the cache. *)
LEMMA HotReadStep ==
  ASSUME RecordsInv, NEW c \in Clients, HotRead(c)
  PROVE  RecordsInv'
<1> DEFINE s == client[c]
<1>1. /\ RecordsTypeOK /\ CallerSane(c) /\ s \in ClientState /\ s.try \in Nat
      /\ ~erased => RowInv /\ CallerFollows(c)
      /\ UNCHANGED <<db, hot, index, acked, erased, calls, faults>>
      /\ calls \in Nat /\ faults \in 0..MaxFaults
  BY CallerTyped DEF RecordsInv, RecordsTypeOK, RowInv, HotRead
<1>2. s.pc = "hotRead" /\ s.rec # None /\ s.rec \in StoredRecord
  BY <1>1, CallerTyped DEF HotRead, At, CallerSane, HasRecord, Warming
<1>3. CASE ~erased /\ hot # None /\ ~Replaces(s.rec, hot) /\ CarriesNewest(c)
  <2>1. hot = db
    BY <1>1, <1>2, <1>3
       DEF CarriesNewest, RowInv, Follows, Replaces, RecordsTypeOK, StoredRecord
  <2>2. Become(c, IdleClient) /\ IdleClient.pc = "idle" /\ IdleClient \in ClientState
    BY <1>3 DEF HotRead, Return, IdleClient, ClientState, PCs
  <2> QED BY <1>1, <1>2, <2>1, <2>2, QuietMove, LocalKeeps DEF At
<1>4. CASE hot # None /\ ~Replaces(s.rec, hot) /\ ~(~erased /\ CarriesNewest(c))
  <2>2. Become(c, IdleClient) /\ IdleClient.pc = "idle" /\ IdleClient \in ClientState
    BY <1>4 DEF HotRead, Return, IdleClient, ClientState, PCs
  <2>3. ~erased => ~Carrier(c)
    BY <1>2, <1>4 DEF Carrier, At
  <2> QED BY <1>1, <1>2, <2>2, <2>3, QuietMove, LocalKeeps DEF At
<1>5. ASSUME NEW t \in ClientState, Become(c, t), t.rec = s.rec, t.try = s.try,
             \/ t.pc = "insert" /\ hot = None
             \/ t.pc = "hotCas" /\ hot # None /\ t.raw = hot /\ Replaces(s.rec, hot)
      PROVE  RecordsInv'
  <2>1. /\ client' \in [Clients -> ClientState] /\ client'[c] = t
        /\ \A d \in Clients : d # c => client'[d] = client[d]
    BY <1>1, <1>5, Moves
  <2>2. /\ Warming(c) /\ Warming(c)' /\ HasRecord(c) /\ HasRecord(c)'
        /\ ~At(c, "push") /\ ~At(c, "push")' /\ ~At(c, "reread")
        /\ client'[c].pc \in {"insert", "hotCas"}
    BY <1>2, <1>5, <2>1 DEF Warming, HasRecord, At
  <2>3. Stale(c) = 0 /\ Stale(c)' = 0
    BY <1>1, <1>2, <1>5, <2>1 DEF Stale, At
  <2>4. CallerSane(c)'
    BY <1>1, <1>2, <1>5, <2>1, <2>2 DEF CallerSane, At, Replaces, RecordsTypeOK
  <2>5. ~erased => CallerFollows(c)'
    BY <1>1, <1>5, <2>1, <2>2 DEF CallerFollows, Follows
  <2>6. /\ Lagging(c)' <=> Lagging(c)
        /\ CarriesNewest(c)' <=> CarriesNewest(c)
    BY <1>1, <1>5, <2>1, <2>2 DEF Lagging, CarriesNewest
  <2>7. LocalStep(c)
    BY <1>1, <1>5, <2>1, <2>2, <2>3, <2>4, <2>5, <2>6 DEF LocalStep, Carrier
  <2> QED BY <2>7, LocalKeeps
<1>6. CASE hot = None
  <2> DEFINE t == [s EXCEPT !.pc = "insert"]
  <2>1. t \in ClientState /\ t.rec = s.rec /\ t.try = s.try /\ t.pc = "insert"
    BY <1>1 DEF ClientState, PCs
  <2>2. Become(c, t)
    BY <1>6 DEF HotRead, Goto
  <2> HIDE DEF t
  <2> QED BY <1>5, <1>6, <2>1, <2>2
<1>7. CASE hot # None /\ Replaces(s.rec, hot)
  <2> DEFINE t == [s EXCEPT !.pc = "hotCas", !.raw = hot]
  <2>1. /\ t \in ClientState /\ t.rec = s.rec /\ t.try = s.try
        /\ t.pc = "hotCas" /\ t.raw = hot
    BY <1>1 DEF ClientState, PCs, RecordsTypeOK
  <2>2. Become(c, t)
    BY <1>7 DEF HotRead
  <2> HIDE DEF t
  <2> QED BY <1>5, <1>7, <2>1, <2>2
<1> QED BY <1>3, <1>4, <1>6, <1>7

(* A round lost to another caller.  The one that carries the newest        *)
(* revision has a round left.                                              *)
LEMMA LostRound ==
  ASSUME RecordsInv, NEW c \in Clients, At(c, "insert") \/ At(c, "hotCas"),
         At(c, "insert") => hot # None, At(c, "hotCas") => hot # client[c].raw,
         NextRound(c, "hotRead"), UNCHANGED <<db, hot, index, acked, erased, calls, faults>>
  PROVE  RecordsInv'
<1> DEFINE s == client[c]
           t == [s EXCEPT !.pc = "hotRead", !.try = @ + 1]
<1>1. /\ RecordsTypeOK /\ CallerSane(c) /\ s \in ClientState /\ s.try \in Nat
      /\ ~erased => RowInv /\ RoundsInv /\ CallerFollows(c)
      /\ calls \in Nat /\ faults \in 0..MaxFaults
  BY CallerTyped DEF RecordsInv, RecordsTypeOK, RowInv
<1>2. /\ Warming(c) /\ HasRecord(c) /\ s.rec # None /\ Stale(c) = 1
      /\ s.pc \in {"insert", "hotCas"}
  BY <1>1 DEF Warming, HasRecord, At, CallerSane, Stale
<1>3. ASSUME FewClients, ~erased, hot # db, CarriesNewest(c) PROVE s.try + 1 < CasAttempts
  <2>1. s.try + 1 + Cardinality(Laggards) + 1 <= Cardinality(Clients)
    BY <1>1, <1>2, <1>3 DEF RoundsInv
  <2> QED BY <2>1, <1>1, <1>3, LaggardsCounted, RecordsAssumption DEF FewClients, RecordsAssumption
<1>4. CASE ~(s.try + 1 < CasAttempts)
  <2>2. Become(c, IdleClient) /\ IdleClient.pc = "idle" /\ IdleClient \in ClientState
    BY <1>4 DEF NextRound, Return, IdleClient, ClientState, PCs
  <2>3. FewClients /\ ~erased /\ hot # db => ~Carrier(c)
    BY <1>2, <1>3, <1>4 DEF Carrier, At
  <2> QED BY <1>1, <1>2, <2>2, <2>3, QuietMove, LocalKeeps DEF At
<1>5. CASE s.try + 1 < CasAttempts
  <2>1. Become(c, t)
    BY <1>5 DEF NextRound
  <2>2. /\ t \in ClientState /\ t.pc = "hotRead" /\ t.try = s.try + 1
        /\ t.rec = s.rec
    <3>1. ASSUME NEW n \in Nat
          PROVE  LET u == [s EXCEPT !.pc = "hotRead", !.try = n]
                 IN  u \in ClientState /\ u.pc = "hotRead" /\ u.try = n /\ u.rec = s.rec
      BY <1>1 DEF ClientState, PCs
    <3>2. s.try + 1 \in Nat
      BY <1>1
    <3> QED BY <3>1, <3>2
  <2> HIDE DEF t
  <2>3. /\ client' \in [Clients -> ClientState] /\ client'[c] = t
        /\ \A d \in Clients : d # c => client'[d] = client[d]
    BY <1>1, <2>1, <2>2, Moves
  <2>4. /\ Warming(c)' /\ HasRecord(c)' /\ Stale(c)' = 0
        /\ ~At(c, "push") /\ ~At(c, "push")' /\ ~At(c, "reread")
    BY <1>2, <2>2, <2>3 DEF Warming, HasRecord, At, Stale
  <2>5. CallerSane(c)'
    BY <1>2, <2>2, <2>3 DEF CallerSane, At
  <2>6. ~erased => CallerFollows(c)'
    BY <1>1, <1>2, <2>2, <2>3, <2>4 DEF CallerFollows, Follows
  <2>7. /\ Lagging(c)' <=> Lagging(c)
        /\ CarriesNewest(c)' <=> CarriesNewest(c)
    BY <1>2, <2>2, <2>3, <2>4 DEF Lagging, CarriesNewest
  <2>8. client'[c].try + Stale(c)' <= client[c].try + Stale(c)
    BY <1>1, <1>2, <2>2, <2>3, <2>4
  <2>9. LocalStep(c)
    BY <1>1, <2>3, <2>4, <2>5, <2>6, <2>7, <2>8 DEF LocalStep, Carrier
  <2> QED BY <2>9, LocalKeeps
<1> QED BY <1>4, <1>5

-----------------------------------------------------------------------------
(* Steps that change the row, the cache or the list.                       *)

(* What such a step does to the caller, and the types it keeps. *)
SharedStep(c, t) ==
  /\ t \in ClientState /\ Become(c, t)
  /\ db' \in StoredRecord \cup {None} /\ hot' \in StoredRecord \cup {None}
  /\ index' \in Nat /\ acked' \subseteq Nat /\ erased' \in BOOLEAN
  /\ UNCHANGED <<calls, faults>>
  /\ t.pc \notin {"upsert", "compare", "cas", "hotCas", "insert"}
  /\ t.pc \in {"hotRead", "push"} => t.rec # None

LEMMA SharedTypes ==
  ASSUME RecordsInv, NEW c \in Clients, NEW t, SharedStep(c, t)
  PROVE  /\ RecordsTypeOK' /\ \A d \in Clients : CallerSane(d)'
         /\ client'[c] = t
         /\ \A d \in Clients : d # c => client'[d] = client[d]
<1> USE DEF SharedStep
<1>1. /\ client' \in [Clients -> ClientState] /\ client'[c] = t
      /\ \A d \in Clients : d # c => client'[d] = client[d]
  BY Moves DEF RecordsInv
<1>2. RecordsTypeOK'
  BY <1>1 DEF RecordsInv, RecordsTypeOK
<1>3. CallerSane(c)'
  BY <1>1 DEF CallerSane, HasRecord, Warming, At
<1>4. ASSUME NEW d \in Clients, d # c PROVE CallerSane(d)'
  BY <1>1, <1>4 DEF RecordsInv, CallerSane, HasRecord, Warming, At
<1> QED BY <1>1, <1>2, <1>3, <1>4

(* After a deletion nothing is promised until the record is gone. *)
LEMMA ErasedKeeps ==
  ASSUME RecordsInv, NEW c \in Clients, NEW t, SharedStep(c, t), erased'
  PROVE  RecordsInv'
  BY SharedTypes DEF RecordsInv

(* A caller leaves the Redis put; it changes the cache to the newest       *)
(* revision, or to an older one and lags no more.                          *)
LEMMA RoundsKept ==
  ASSUME RecordsInv, ~erased, NEW c \in Clients, NEW t, SharedStep(c, t),
         t.pc \in {"push", "idle"}, db' = db,
         hot' = hot \/ hot' = db \/ (Lagging(c) /\ hot # db)
  PROVE  RoundsInv'
<1>1. /\ \A d \in Clients : d # c => client'[d] = client[d]
      /\ ~Warming(c)' /\ RoundsInv
      /\ RecordsTypeOK /\ RecordsTypeOK'
  BY SharedTypes DEF Warming, RecordsInv
<1>2. /\ Laggards' \subseteq Laggards \ {c}
      /\ Laggards \in SUBSET Clients /\ Laggards' \in SUBSET Clients
  BY <1>1 DEF Laggards, Warming
<1>3. /\ IsFiniteSet(Laggards) /\ Cardinality(Laggards) \in Nat
      /\ Cardinality(Laggards') \in Nat /\ Cardinality(Clients) \in Nat
      /\ IsFiniteSet(Laggards \ {c}) /\ Cardinality(Laggards \ {c}) \in Nat
      /\ Cardinality(Laggards') <= Cardinality(Laggards \ {c})
      /\ Cardinality(Laggards \ {c}) <= Cardinality(Laggards)
  <2>1. /\ IsFiniteSet(Laggards) /\ IsFiniteSet(Laggards \ {c})
        /\ Cardinality(Laggards) \in Nat /\ Cardinality(Laggards \ {c}) \in Nat
        /\ Cardinality(Laggards') \in Nat /\ Cardinality(Clients) \in Nat
    BY <1>2, LaggardsCounted
  <2> QED BY <1>2, <2>1, FS_Subset
<1> SUFFICES ASSUME NEW d \in Clients, CarriesNewest(d)', hot' # db
             PROVE  client'[d].try + Stale(d)' + Cardinality(Laggards') + 1
                      <= Cardinality(Clients)
  BY DEF RoundsInv
<1>4. /\ d # c /\ client'[d] = client[d] /\ CarriesNewest(d)
      /\ client[d].try \in Nat /\ Stale(d) \in {0, 1} /\ Stale(d)' \in {0, 1}
  BY <1>1, CallerTyped DEF CarriesNewest, Warming, Stale
<1>5. CASE hot' = hot
  <2>1. client[d].try + Stale(d) + Cardinality(Laggards) + 1 <= Cardinality(Clients)
    BY <1>1, <1>4, <1>5 DEF RoundsInv
  <2>2. Stale(d)' = Stale(d)
    BY <1>4, <1>5 DEF Stale, At
  <2> QED BY <2>1, <2>2, <1>3, <1>4
<1>6. CASE Lagging(c) /\ hot # db
  <2>1. client[d].try + Stale(d) + Cardinality(Laggards) + 1 <= Cardinality(Clients)
    BY <1>1, <1>4, <1>6 DEF RoundsInv
  <2>2. Cardinality(Laggards \ {c}) = Cardinality(Laggards) - 1
    BY <1>3, <1>6, LaggardsAre, FS_RemoveElement
  <2> QED BY <2>1, <2>2, <1>3, <1>4
<1> QED BY <1>5, <1>6

LEMMA UpsertStep ==
  ASSUME RecordsInv, NEW c \in Clients, Upsert(c)
  PROVE  RecordsInv'
<1> DEFINE s == client[c]
           t == [s EXCEPT !.pc = "reread"]
           u == [s EXCEPT !.pc = "compare"]
<1>1. /\ RecordsTypeOK /\ CallerSane(c) /\ s \in ClientState /\ s.pc = "upsert"
      /\ ~erased => RowInv /\ RoundsInv /\ CallerFollows(c)
      /\ s.rec = NewRecord /\ db' = Upserted(db, NewRecord)
      /\ UNCHANGED <<hot, index, acked, erased, calls, faults>>
      /\ calls \in Nat /\ faults \in 0..MaxFaults
      /\ NewRecord \in StoredRecord /\ NewRecord # None
      /\ NewRecord.revision = 1 /\ NewRecord.edits = {}
  BY CallerTyped, RecordAssumption
     DEF RecordsInv, RecordsTypeOK, RowInv, Upsert, At, CallerSane, NewRecord,
         StoredRecord, RecordAssumption
<1>2. /\ t \in ClientState /\ t.pc = "reread"
      /\ u \in ClientState /\ u.pc = "compare" /\ u.rec = NewRecord
  BY <1>1 DEF ClientState, PCs
<1>3. Become(c, IF db = None \/ db' # db THEN t ELSE u)
  BY DEF Upsert, Goto
<1> HIDE DEF t, u
<1>4. CASE erased /\ (db = None \/ db' # db)
  <2>1. SharedStep(c, t)
    BY <1>1, <1>2, <1>3, <1>4 DEF SharedStep, RecordsTypeOK, Upserted
  <2> QED BY <2>1, <1>1, <1>4, ErasedKeeps
<1>5. CASE db # None /\ db' = db
  <2>1. Become(c, u)
    BY <1>3, <1>5
  <2> QED BY <1>1, <1>2, <1>5, <2>1, QuietMove, LocalKeeps DEF At, Carrier, CarriesNewest, Warming
<1>6. CASE ~erased /\ db # None
  <2>1. db.revision >= 1 /\ db.revision \in Nat
    BY <1>1, <1>6 DEF RowInv, RecordsTypeOK, StoredRecord
  <2>2. db' = db
    BY <1>1, <1>6, <2>1 DEF Upserted
  <2> QED BY <1>5, <1>6, <2>2
<1>7. CASE ~erased /\ db = None
  <2>1. SharedStep(c, t)
    BY <1>1, <1>2, <1>3, <1>7 DEF SharedStep, RecordsTypeOK, Upserted
  <2>2. /\ RecordsTypeOK' /\ \A d \in Clients : CallerSane(d)'
        /\ client'[c] = t
        /\ \A d \in Clients : d # c => client'[d] = client[d]
    BY <2>1, SharedTypes
  <2>3. db' = NewRecord /\ hot = None /\ acked = {}
    BY <1>1, <1>7 DEF Upserted, RowInv, Follows
  <2>4. \A d \in Clients : ~HasRecord(d) /\ ~HasRecord(d)'
    <3>1. \A d \in Clients : ~HasRecord(d)
      BY <1>1, <1>7 DEF RowInv, CallerFollows, Follows, RecordsInv, CallerSane
    <3> QED BY <3>1, <2>2, <1>2 DEF HasRecord, Warming
  <2>5. RowInv'
    <3>1. ASSUME NEW d \in Clients PROVE CallerFollows(d)'
      BY <3>1, <1>1, <1>2, <1>7, <2>2, <2>3, <2>4 DEF CallerFollows, RowInv
    <3> QED BY <3>1, <1>1, <2>3 DEF RowInv, Follows
  <2>6. RoundsInv'
    BY <2>4 DEF RoundsInv, CarriesNewest, HasRecord
  <2>7. ASSUME faults' = 0 PROVE ListInv' /\ CarriedInv'
    <3>1. ListInv
      BY <1>1, <1>7, <2>7 DEF RecordsInv
    <3>2. ListInv'
      BY <3>1, <1>1, <2>3, <2>4 DEF ListInv, HasRecord, At
    <3>3. CarriedInv'
      BY <1>2, <2>2 DEF CarriedInv, At
    <3> QED BY <3>2, <3>3
  <2> QED BY <2>2, <2>5, <2>6, <2>7 DEF RecordsInv
<1> QED BY <1>1, <1>4, <1>5, <1>6, <1>7 DEF RecordsTypeOK

LEMMA CasStep ==
  ASSUME RecordsInv, NEW c \in Clients, CompareAndSwapRow(c)
  PROVE  RecordsInv'
<1> DEFINE s == client[c]
           next == ApplySearchMutation(s.rec, s.edit)
           t == [IdleClient EXCEPT !.pc = "hotRead", !.rec = next]
           u == [s EXCEPT !.pc = "read", !.try = @ + 1]
<1>1. /\ RecordsTypeOK /\ CallerSane(c) /\ s \in ClientState /\ s.pc = "cas"
      /\ ~erased => RowInv /\ RoundsInv /\ CallerFollows(c)
      /\ UNCHANGED <<hot, index, erased, calls, faults>>
      /\ calls \in Nat /\ faults \in 0..MaxFaults
      /\ s.edit \in Nat /\ s.try \in Nat /\ HasRecord(c)
      /\ s.rec \in StoredRecord /\ s.rec # None
  BY CallerTyped
     DEF RecordsInv, RecordsTypeOK, RowInv, CompareAndSwapRow, At, CallerSane, HasRecord
<1>2. IdleClient \in ClientState /\ IdleClient.pc = "idle"
  BY DEF IdleClient, ClientState, PCs
<1>3. CASE ~RowMatches(db, s.rec)
  <2>1. u \in ClientState /\ u.pc = "read"
    <3>1. ASSUME NEW n \in Nat
          PROVE  LET v == [s EXCEPT !.pc = "read", !.try = n]
                 IN  v \in ClientState /\ v.pc = "read"
      BY <1>1 DEF ClientState, PCs
    <3>2. s.try + 1 \in Nat
      BY <1>1
    <3> QED BY <3>1, <3>2
  <2>2. UNCHANGED <<db, acked>> /\ (Become(c, u) \/ Become(c, IdleClient))
    BY <1>3 DEF CompareAndSwapRow, Return
  <2> HIDE DEF u
  <2>3. CASE Become(c, u)
    BY <1>1, <2>1, <2>2, <2>3, QuietMove, LocalKeeps DEF At, Carrier, CarriesNewest, Warming
  <2>4. CASE Become(c, IdleClient)
    BY <1>1, <1>2, <2>2, <2>4, QuietMove, LocalKeeps DEF At, Carrier, CarriesNewest, Warming
  <2> QED BY <2>2, <2>3, <2>4
<1>4. CASE RowMatches(db, s.rec)
  <2>1. db' = next /\ acked' = acked \cup {s.edit} /\ Become(c, t)
    BY <1>4 DEF CompareAndSwapRow
  <2>2. /\ next \in StoredRecord /\ next # None
        /\ next.revision = s.rec.revision + 1 /\ next.edits = s.rec.edits \cup {s.edit}
    BY <1>1, RecordAssumption DEF ApplySearchMutation, StoredRecord, RecordAssumption
  <2> HIDE DEF next
  <2>3. t \in ClientState /\ t.pc = "hotRead" /\ t.rec = next /\ t.try = 0
    BY <2>2 DEF IdleClient, ClientState, PCs
  <2> HIDE DEF t
  <2>4. SharedStep(c, t)
    BY <1>1, <2>1, <2>2, <2>3 DEF SharedStep, RecordsTypeOK
  <2>5. CASE erased
    BY <2>4, <2>5, <1>1, ErasedKeeps
  <2>6. CASE ~erased
    <3>1. /\ RecordsTypeOK' /\ \A d \in Clients : CallerSane(d)'
          /\ client'[c] = t
          /\ \A d \in Clients : d # c => client'[d] = client[d]
      BY <2>4, SharedTypes
    <3>2. /\ db # None /\ s.rec = db /\ db.revision \in Nat
          /\ db.revision >= 1 /\ acked \subseteq db.edits
      BY <1>1, <1>4, <2>6 DEF RowMatches, CallerFollows, Follows, RowInv, StoredRecord
    <3>3. ASSUME NEW r \in StoredRecord \cup {None}, Follows(r, db)
          PROVE  Follows(r, db') /\ r # db'
      <4>1. CASE r = None BY <4>1, <2>1, <2>2 DEF Follows
      <4>2. CASE r # None
        <5>1. r.revision \in Nat /\ r.revision <= db.revision
          BY <3>3, <4>2 DEF Follows, StoredRecord
        <5>2. r.revision < next.revision
          BY <5>1, <3>2, <2>2
        <5> QED BY <5>1, <5>2, <2>1, <2>2, <3>2 DEF Follows
      <4> QED BY <4>1, <4>2
    <3>4. ASSUME NEW d \in Clients, d # c
          PROVE  /\ CallerFollows(d)' /\ ~CarriesNewest(d)'
      <4>1. CallerFollows(d) /\ client'[d] = client[d]
        BY <1>1, <2>6, <3>1, <3>4 DEF RowInv
      <4>2. client[d].rec \in StoredRecord \cup {None}
        BY <1>1, CallerTyped
      <4>3. HasRecord(d) => Follows(client[d].rec, db') /\ client[d].rec # db'
        BY <4>1, <4>2, <3>3 DEF CallerFollows
      <4>4. HasRecord(d)' <=> HasRecord(d)
        BY <4>1 DEF HasRecord, Warming
      <4>5. CallerFollows(d)'
        BY <4>1, <4>3, <4>4, <2>1, <2>2 DEF CallerFollows
      <4>6. ~CarriesNewest(d)'
        BY <4>1, <4>3, <4>4 DEF CarriesNewest, HasRecord
      <4> QED BY <4>5, <4>6
    <3>5. CallerFollows(c)' /\ CarriesNewest(c)' /\ Stale(c)' = 0
      BY <3>1, <2>1, <2>2, <2>3
         DEF CallerFollows, CarriesNewest, Warming, Stale, At, Follows, StoredRecord
    <3>6. RowInv'
      <4>1. Follows(hot, db')
        BY <1>1, <2>6, <3>3 DEF RowInv, RecordsTypeOK
      <4>2. db'.revision >= 1 /\ acked' \subseteq db'.edits /\ db' # None
        BY <2>1, <2>2, <3>2
      <4> QED BY <4>1, <4>2, <3>4, <3>5, <1>1 DEF RowInv
    <3>7. RoundsInv'
      <4>1. (client[c].try + Stale(c) + Cardinality(Laggards) + 1 <= Cardinality(Clients))'
        <5>1. client'[c].try = 0
          BY <2>3, <3>1
        <5>2. Laggards' \subseteq Clients \ {c}
          BY <3>5 DEF Laggards, CarriesNewest
        <5>3. Cardinality(Laggards') + 1 <= Cardinality(Clients)
          BY <5>2, OthersCounted
        <5>4. Cardinality(Laggards') \in Nat /\ Cardinality(Clients) \in Nat
          BY <5>2, LaggardsCounted
        <5> QED BY <5>1, <5>3, <5>4, <3>5
      <4> QED BY <4>1, <3>4 DEF RoundsInv
    <3>8. ASSUME faults' = 0 PROVE ListInv' /\ CarriedInv'
      <4>1. ListInv
        BY <1>1, <2>6, <3>8 DEF RecordsInv
      <4>2. \A d \in Clients : At(d, "push")' <=> At(d, "push")
        BY <1>1, <2>3, <3>1 DEF At
      <4>3. ListInv'
        BY <4>1, <4>2, <1>1 DEF ListInv, Listing
      <4>4. CarriedInv'
        BY <3>5 DEF CarriedInv
      <4> QED BY <4>3, <4>4
    <3> QED BY <3>1, <3>6, <3>7, <3>8 DEF RecordsInv
  <2> QED BY <2>5, <2>6
<1> QED BY <1>3, <1>4

(* The cache takes the record of a caller. *)
LEMMA CacheTakes ==
  ASSUME RecordsInv, NEW c \in Clients, NEW t, SharedStep(c, t), Warming(c),
         hot' = client[c].rec, UNCHANGED <<db, index, acked, erased>>,
         hot # client[c].rec,
         ~erased => hot # db,
         \/ t.pc = "push" /\ hot = None
         \/ t.pc = "idle" /\ hot # None,
         t.rec = client[c].rec \/ t = IdleClient
  PROVE  RecordsInv'
<1> DEFINE s == client[c]
<1>1. /\ RecordsTypeOK /\ s.pc \in {"hotRead", "insert", "hotCas"}
      /\ HasRecord(c) /\ s.rec # None
      /\ UNCHANGED faults
  BY DEF Warming, HasRecord, SharedStep, RecordsInv, CallerSane
<1>2. /\ RecordsTypeOK' /\ \A d \in Clients : CallerSane(d)'
      /\ client'[c] = t
      /\ \A d \in Clients : d # c => client'[d] = client[d]
  BY SharedTypes
<1>3. CASE erased
  BY <1>3, ErasedKeeps
<1>4. CASE ~erased
  <2>1. RowInv /\ RoundsInv /\ CallerFollows(c) /\ Follows(s.rec, db)
    BY <1>1, <1>4 DEF RecordsInv, RowInv, CallerFollows
  <2>2. RowInv'
    <3>1. ASSUME NEW d \in Clients, d # c PROVE CallerFollows(d)'
      BY <3>1, <1>2, <2>1 DEF RowInv, CallerFollows, HasRecord, Warming, Follows
    <3>2. CallerFollows(c)'
      BY <1>2, <2>1 DEF CallerFollows, HasRecord, Warming, Follows, IdleClient
    <3> QED BY <3>1, <3>2, <2>1 DEF RowInv, Follows
  <2>3. RoundsInv'
    <3>1. hot' = db \/ (Lagging(c) /\ hot # db)
      BY <1>4 DEF Lagging
    <3> QED BY <3>1, <1>4, RoundsKept
  <2>4. ASSUME faults' = 0 PROVE ListInv' /\ CarriedInv'
    <3>1. ListInv /\ CarriedInv
      BY <1>1, <1>4, <2>4 DEF RecordsInv
    <3>2. ListInv'
      <4>1. CASE t.pc = "push" /\ hot = None
        <5>1. index' = 0 /\ hot' # None /\ Listing(c)'
          BY <4>1, <3>1, <1>1, <1>2 DEF ListInv, Listing, At
        <5> QED BY <5>1 DEF ListInv
      <4>2. CASE t.pc = "idle" /\ hot # None
        <5>1. \A d \in Clients : At(d, "push")' <=> At(d, "push")
          BY <4>2, <1>1, <1>2 DEF At
        <5>2. hot' # None
          BY <1>1
        <5> QED BY <4>2, <5>1, <5>2, <3>1 DEF ListInv, Listing
      <4> QED BY <4>1, <4>2
    <3>3. CarriedInv'
      <4> SUFFICES ASSUME FewClients, db # None, hot' # db
                   PROVE  \E d \in Clients : Carrier(d)'
        BY DEF CarriedInv, Carrier
      <4>1. PICK d \in Clients : Carrier(d)
        BY <3>1, <1>4 DEF CarriedInv, Carrier
      <4>2. d # c
        BY <4>1, <1>1 DEF Carrier, CarriesNewest, At
      <4>3. Carrier(d)'
        BY <4>1, <4>2, <1>2 DEF Carrier, CarriesNewest, Warming, At
      <4> QED BY <4>3
    <3> QED BY <3>2, <3>3
  <2> QED BY <1>2, <2>2, <2>3, <2>4 DEF RecordsInv
<1> QED BY <1>3, <1>4

LEMMA PutIfAbsentStep ==
  ASSUME RecordsInv, NEW c \in Clients, PutIfAbsent(c)
  PROVE  RecordsInv'
<1> DEFINE s == client[c]
           t == [s EXCEPT !.pc = "push"]
<1>1. /\ RecordsTypeOK /\ CallerSane(c) /\ s \in ClientState /\ s.pc = "insert"
      /\ UNCHANGED <<db, index, acked, erased, calls, faults>>
      /\ Warming(c) /\ s.rec # None /\ s.rec \in StoredRecord
      /\ ~erased => Follows(s.rec, db)
  BY CallerTyped
     DEF RecordsInv, PutIfAbsent, At, CallerSane, HasRecord, Warming, RowInv, CallerFollows
<1>2. CASE hot # None
  BY <1>1, <1>2, LostRound DEF PutIfAbsent, At
<1>3. CASE hot = None
  <2>1. hot' = s.rec /\ Become(c, t)
    BY <1>3 DEF PutIfAbsent, Goto
  <2>2. t \in ClientState /\ t.pc = "push" /\ t.rec = s.rec
    BY <1>1 DEF ClientState, PCs
  <2> HIDE DEF t
  <2>3. SharedStep(c, t)
    BY <1>1, <2>1, <2>2 DEF SharedStep, RecordsTypeOK
  <2>4. ~erased => hot # db
    BY <1>1, <1>3 DEF Follows
  <2> QED BY <1>1, <1>3, <2>1, <2>2, <2>3, <2>4, CacheTakes
<1> QED BY <1>2, <1>3

LEMMA HotCasStep ==
  ASSUME RecordsInv, NEW c \in Clients, CompareAndSetHot(c)
  PROVE  RecordsInv'
<1> DEFINE s == client[c]
<1>1. /\ RecordsTypeOK /\ CallerSane(c) /\ s \in ClientState /\ s.pc = "hotCas"
      /\ UNCHANGED <<db, index, acked, erased, calls, faults>>
      /\ Warming(c) /\ s.rec # None /\ s.rec \in StoredRecord
      /\ s.raw # None /\ s.raw \in StoredRecord /\ s.raw.revision < s.rec.revision
      /\ ~erased => Follows(s.rec, db)
  BY CallerTyped
     DEF RecordsInv, CompareAndSetHot, At, CallerSane, HasRecord, Warming, RowInv,
         CallerFollows
<1>2. CASE hot # s.raw
  BY <1>1, <1>2, LostRound DEF CompareAndSetHot, At
<1>3. CASE hot = s.raw
  <2>1. hot' = s.rec /\ Become(c, IdleClient)
    BY <1>3 DEF CompareAndSetHot, Return
  <2>2. IdleClient \in ClientState /\ IdleClient.pc = "idle"
    BY DEF IdleClient, ClientState, PCs
  <2>3. SharedStep(c, IdleClient)
    BY <1>1, <2>1, <2>2 DEF SharedStep, RecordsTypeOK
  <2>4. hot # s.rec /\ (~erased => hot # db)
    BY <1>1, <1>3 DEF Follows, StoredRecord
  <2> QED BY <1>1, <1>3, <2>1, <2>2, <2>3, <2>4, CacheTakes
<1> QED BY <1>2, <1>3

LEMMA IndexStep ==
  ASSUME RecordsInv, NEW c \in Clients, IndexRecord(c)
  PROVE  RecordsInv'
<1>1. /\ At(c, "push") /\ index' = index + 1 /\ Become(c, IdleClient)
      /\ UNCHANGED <<db, hot, acked, erased, calls, faults>>
  BY DEF IndexRecord, Return
<1>2. IdleClient \in ClientState /\ IdleClient.pc = "idle"
  BY DEF IdleClient, ClientState, PCs
<1>3. SharedStep(c, IdleClient)
  BY <1>1, <1>2 DEF SharedStep, RecordsTypeOK, RecordsInv
<1>4. /\ RecordsTypeOK' /\ \A d \in Clients : CallerSane(d)'
      /\ client'[c] = IdleClient
      /\ \A d \in Clients : d # c => client'[d] = client[d]
  BY <1>3, SharedTypes
<1>5. CASE erased
  BY <1>1, <1>3, <1>5, ErasedKeeps
<1>6. CASE ~erased
  <2>1. RowInv'
    <3>1. RowInv
      BY <1>6 DEF RecordsInv
    <3>2. ASSUME NEW d \in Clients PROVE CallerFollows(d)'
      <4>1. CASE d # c
        BY <4>1, <3>1, <1>1, <1>4 DEF RowInv, CallerFollows, HasRecord, Warming, Follows
      <4>2. CASE d = c
        BY <4>2, <1>2, <1>4 DEF CallerFollows, HasRecord, Warming
      <4> QED BY <4>1, <4>2
    <3> QED BY <3>1, <3>2, <1>1 DEF RowInv, Follows
  <2>2. RoundsInv'
    BY <1>1, <1>2, <1>3, <1>6, RoundsKept
  <2>3. ASSUME faults' = 0 PROVE ListInv' /\ CarriedInv'
    <3>1. ListInv /\ CarriedInv
      BY <1>1, <1>6, <2>3 DEF RecordsInv
    <3>2. hot # None /\ index = 0
      BY <3>1, <1>1 DEF ListInv
    <3>3. PICK e \in Clients : Listing(e)
      BY <3>1, <1>1, <3>2 DEF ListInv
    <3>4. e = c
      BY <3>3, <1>1 DEF Listing
    <3>5. \A d \in Clients : ~At(d, "push")'
      BY <3>3, <3>4, <1>2, <1>4 DEF Listing, At
    <3>6. ListInv'
      BY <1>1, <3>2, <3>5 DEF ListInv
    <3>7. CarriedInv'
      <4> SUFFICES ASSUME FewClients, db # None, hot # db
                   PROVE  \E d \in Clients : Carrier(d)'
        BY <1>1 DEF CarriedInv, Carrier
      <4>1. PICK d \in Clients : Carrier(d)
        BY <3>1 DEF CarriedInv, Carrier
      <4>2. d # c
        BY <4>1, <1>1 DEF Carrier, CarriesNewest, Warming, At
      <4>3. Carrier(d)'
        BY <4>1, <4>2, <1>1, <1>4 DEF Carrier, CarriesNewest, Warming, At
      <4> QED BY <4>3
    <3> QED BY <3>6, <3>7
  <2> QED BY <1>4, <2>1, <2>2, <2>3 DEF RecordsInv
<1> QED BY <1>5, <1>6

(* The deletion, durable row first. *)
LEMMA DeleteSteps ==
  ASSUME RecordsInv, NEW c \in Clients,
         DeleteRow(c) \/ HotErase(c) \/ DeleteWithIndexes(c)
  PROVE  RecordsInv'
<1> DEFINE s == client[c]
           t == [s EXCEPT !.pc = "hotErase"]
           u == [s EXCEPT !.pc = "hotDelete"]
<1>1. /\ RecordsTypeOK /\ s \in ClientState
      /\ ~erased => CallerFollows(c)
  BY CallerTyped DEF RecordsInv, RowInv
<1>2. IdleClient \in ClientState /\ IdleClient.pc = "idle"
  BY DEF IdleClient, ClientState, PCs
<1>3. t \in ClientState /\ t.pc = "hotErase" /\ u \in ClientState /\ u.pc = "hotDelete"
  BY <1>1 DEF ClientState, PCs
<1>4. CASE DeleteRow(c)
  <2>1. /\ s.pc = "erase" /\ db' = None /\ acked' = {} /\ erased' = (erased \/ db # None)
        /\ Become(c, t) /\ UNCHANGED <<hot, index, calls, faults>>
    BY <1>4 DEF DeleteRow, Goto, At
  <2> HIDE DEF t, u
  <2>2. erased'
    BY <2>1, <1>1 DEF CallerFollows
  <2>3. erased' \in BOOLEAN
    BY <2>1, <1>1 DEF RecordsTypeOK
  <2>4. SharedStep(c, t)
    BY <1>1, <1>3, <2>1, <2>3 DEF SharedStep, RecordsTypeOK
  <2> QED BY <2>2, <2>4, ErasedKeeps
<1>5. CASE HotErase(c)
  <2>1. /\ s.pc = "hotErase" /\ index' \in {0, index}
        /\ Become(c, u) \/ Become(c, IdleClient)
        /\ UNCHANGED <<db, hot, acked, erased, calls, faults>>
    BY <1>5 DEF HotErase, Goto, Return, At
  <2> HIDE DEF t, u
  <2>2. erased'
    BY <2>1, <1>1 DEF CallerFollows
  <2>3. SharedStep(c, u) \/ SharedStep(c, IdleClient)
    BY <1>1, <1>2, <1>3, <2>1 DEF SharedStep, RecordsTypeOK
  <2> QED BY <2>2, <2>3, ErasedKeeps
<1>6. CASE DeleteWithIndexes(c)
  <2>1. /\ s.pc = "hotDelete" /\ hot' = None /\ index' = 0 /\ Become(c, IdleClient)
        /\ UNCHANGED <<db, acked, erased, calls, faults>>
    BY <1>6 DEF DeleteWithIndexes, Return, At
  <2>2. erased'
    BY <2>1, <1>1 DEF CallerFollows
  <2>3. SharedStep(c, IdleClient)
    BY <1>1, <1>2, <2>1 DEF SharedStep, RecordsTypeOK
  <2> QED BY <2>2, <2>3, ErasedKeeps
<1> QED BY <1>4, <1>5, <1>6

-----------------------------------------------------------------------------
LEMMA InitSound == RecordsInit => RecordsInv
<1> SUFFICES ASSUME RecordsInit PROVE RecordsInv
  OBVIOUS
<1>1. IdleClient \in ClientState /\ IdleClient.pc = "idle"
  BY DEF IdleClient, ClientState, PCs
<1>2. \A c \in Clients : client[c] = IdleClient
  BY DEF RecordsInit
<1>3. RecordsTypeOK
  <2>1. client \in [Clients -> ClientState]
    BY <1>1 DEF RecordsInit
  <2>2. faults \in 0..MaxFaults /\ calls \in Nat
    BY FaultsAssumption DEF RecordsInit, BoundsInit, FaultsAssumption
  <2> QED BY <2>1, <2>2 DEF RecordsInit, RecordsTypeOK
<1>4. \A c \in Clients : CallerSane(c) /\ ~HasRecord(c) /\ ~At(c, "push") /\ ~CarriesNewest(c)
  BY <1>1, <1>2 DEF CallerSane, HasRecord, Warming, At, CarriesNewest
<1>5. RowInv
  BY <1>1, <1>2, <1>4 DEF RowInv, CallerFollows, Follows, RecordsInit
<1>6. RoundsInv /\ ListInv /\ CarriedInv
  BY <1>4 DEF RoundsInv, ListInv, CarriedInv, RecordsInit
<1> QED BY <1>3, <1>4, <1>5, <1>6 DEF RecordsInv

LEMMA StepSound ==
  ASSUME RecordsInv, [RecordsNext]_recordVars
  PROVE  RecordsInv'
<1>1. CASE UNCHANGED recordVars
  BY <1>1 DEF recordVars, recordState, boundVars, RecordsInv, RecordsTypeOK, CallerSane,
     RowInv, CallerFollows, Follows, RoundsInv, CarriesNewest, Stale, Laggards, ListInv, Listing,
     CarriedInv, HasRecord, Warming, At
<1>2. CASE RecordsNext
  <2> PICK c \in Clients :
        \/ BeginPut(c) \/ BeginUpdate(c) \/ BeginDelete(c) \/ GetRecord(c)
        \/ Upsert(c) \/ CompareRow(c) \/ Reread(c) \/ ReadRow(c) \/ CompareAndSwapRow(c)
        \/ HotRead(c) \/ PutIfAbsent(c) \/ IndexRecord(c) \/ CompareAndSetHot(c)
        \/ DeleteRow(c) \/ HotErase(c) \/ DeleteWithIndexes(c) \/ CallFails(c)
    BY <1>2 DEF RecordsNext
  <2> QED BY CallSteps, UpsertStep, CasStep, HotReadStep, PutIfAbsentStep, IndexStep,
             HotCasStep, DeleteSteps
<1> QED BY <1>1, <1>2

LEMMA InvImplies ==
  ASSUME RecordsInv
  PROVE  AckedUpdatesKept /\ (FewClients => CacheFollowsRow)
<1>1. AckedUpdatesKept
  BY DEF AckedUpdatesKept, RecordsInv, RowInv
<1>2. ASSUME FewClients PROVE CacheFollowsRow
  <2> SUFFICES ASSUME ~erased
               PROVE  /\ hot # None =>
                           /\ db # None /\ hot.revision <= db.revision
                           /\ hot.revision = db.revision => hot = db
                      /\ faults = 0 /\ db # None /\ (\A c \in Clients : At(c, "idle"))
                           => hot = db /\ index = 1
    BY Zenon DEF CacheFollowsRow
  <2>1. Follows(hot, db)
    BY DEF RecordsInv, RowInv
  <2>2. ASSUME faults = 0, db # None, \A c \in Clients : At(c, "idle")
        PROVE  hot = db /\ index = 1
    <3>1. ListInv /\ CarriedInv
      BY <2>2 DEF RecordsInv
    <3>2. \A c \in Clients : ~At(c, "push") /\ ~At(c, "reread") /\ ~CarriesNewest(c)
      BY <2>2 DEF At, CarriesNewest, Warming
    <3>3. hot = db
      BY <3>1, <3>2, <2>2, <1>2 DEF CarriedInv
    <3>4. \A c \in Clients : ~Listing(c)
      BY <3>2 DEF Listing
    <3> QED BY <3>1, <3>2, <3>3, <3>4, <2>2 DEF ListInv
  <2> QED BY <2>1, <2>2 DEF Follows
<1> QED BY <1>1, <1>2

(* The invariant is inductive. *)
LEMMA Inductive == RecordsSpec => []RecordsInv
  BY InitSound, StepSound, PTL DEF RecordsSpec

(* Records, cached copy and callers are well formed, and no acknowledged   *)
(* update is lost, whatever order any number of callers reach PostgreSQL   *)
(* in (PostgresSearchStore.update and upsert).                             *)
THEOREM UpdatesKept == RecordsSpec => [](RecordsTypeOK /\ AckedUpdatesKept)
<1>1. RecordsInv => RecordsTypeOK /\ AckedUpdatesKept
  BY InvImplies DEF RecordsInv
<1> QED BY <1>1, Inductive, PTL

(* With no more callers at a time than rounds, the Redis cache also never  *)
(* runs ahead of the row and ends up equal to it, listed once              *)
(* (TieredSearchStore.warm over RedisSearchStore.put).                     *)
THEOREM StoreSound ==
  ASSUME FewClients
  PROVE  RecordsSpec => []RecordsSound
<1>1. RecordsInv => RecordsSound
  BY InvImplies DEF RecordsSound
<1> QED BY <1>1, Inductive, PTL

-----------------------------------------------------------------------------
(* The history of a user's scans. *)

(* A strict order on a finite set has an element that nothing precedes: the *)
(* one with the fewest elements before it.                                   *)
LEMMA HasFirst ==
  ASSUME NEW S, IsFiniteSet(S), S # {}, NEW R,
         \A x \in S : <<x, x>> \notin R,
         \A x, y, z \in S : <<x, y>> \in R /\ <<y, z>> \in R => <<x, z>> \in R
  PROVE  \E m \in S : \A x \in S : <<x, m>> \notin R
<1> DEFINE Before1(m) == {x \in S : <<x, m>> \in R}
           C == {Cardinality(Before1(m)) : m \in S}
           L == {p \in Nat \X Nat : p[1] < p[2]}
<1>1. \A m \in S : IsFiniteSet(Before1(m)) /\ Cardinality(Before1(m)) \in Nat
  <2> TAKE m \in S
  <2>1. IsFiniteSet(Before1(m))
    BY FS_Subset
  <2> QED BY <2>1, FS_CardinalityType
<1>6. \A m \in S, x \in S : <<x, m>> \in R =>
        Before1(x) \subseteq Before1(m) /\ x \in Before1(m) /\ x \notin Before1(x)
  OBVIOUS
<1> HIDE DEF Before1
<1>2. C \subseteq Nat /\ C # {}
  <2>1. PICK m \in S : TRUE
    OBVIOUS
  <2>2. Cardinality(Before1(m)) \in C
    BY <2>1
  <2> QED BY <1>1, <2>2
<1>3. IsWellFoundedOn(L, Nat)
  BY NatLessThanWellFounded DEF OpToRel
<1>4. PICK c \in C : \A d \in C : <<d, c>> \notin L
  BY <1>2, <1>3, WFMin
<1>5. PICK m \in S : c = Cardinality(Before1(m))
  BY DEF C
<1>7. ASSUME NEW x \in S, <<x, m>> \in R PROVE FALSE
  <2>1. Before1(x) \subseteq Before1(m) /\ x \in Before1(m) /\ x \notin Before1(x)
    BY <1>6, <1>7
  <2>2. Cardinality(Before1(x)) <= Cardinality(Before1(m)) /\ Cardinality(Before1(x)) # Cardinality(Before1(m))
    BY <1>1, <2>1, FS_Subset
  <2>3. Cardinality(Before1(x)) \in Nat /\ Cardinality(Before1(m)) \in Nat
    BY <1>1
  <2>4. Cardinality(Before1(x)) < Cardinality(Before1(m))
    BY <2>2, <2>3
  <2>5. <<Cardinality(Before1(x)), c>> \in L /\ Cardinality(Before1(x)) \in C
    BY <1>5, <2>3, <2>4
  <2> QED BY <1>4, <2>5
<1> QED BY <1>7

(* The order of the history is strict. *)
LEMMA BeforeOrder ==
  ASSUME NEW r \in Row, NEW q \in Row, NEW s \in Row
  PROVE  /\ ~Before(PosOf(r), PosOf(r))
         /\ Before(PosOf(r), PosOf(q)) /\ Before(PosOf(q), PosOf(s)) => Before(PosOf(r), PosOf(s))
         /\ r.id # q.id => Before(PosOf(r), PosOf(q)) \/ Before(PosOf(q), PosOf(r))
<1>1. {r.at, q.at, s.at, r.id, q.id, s.id} \subseteq Nat
  BY HistoryAssumption DEF Row
<1>2. \A x, y : Before(PosOf(x), PosOf(y)) <=> x.at < y.at \/ (x.at = y.at /\ x.id < y.id)
  BY DEF Before, PosOf
<1>3. ~Before(PosOf(r), PosOf(r))
  BY <1>1, <1>2
<1>4. Before(PosOf(r), PosOf(q)) /\ Before(PosOf(q), PosOf(s)) => Before(PosOf(r), PosOf(s))
  BY <1>1, <1>2
<1>5. r.id # q.id => Before(PosOf(r), PosOf(q)) \/ Before(PosOf(q), PosOf(r))
  BY <1>1, <1>2
<1> QED BY <1>3, <1>4, <1>5

(* The rows of a finite set that are newest and oldest. *)
LEMMA NewestAndOldest ==
  ASSUME NEW S \in SUBSET Row, IsFiniteSet(S), S # {}
  PROVE  /\ \E m \in S : \A x \in S : ~Before(PosOf(m), PosOf(x))
         /\ \E m \in S : \A x \in S : ~Before(PosOf(x), PosOf(m))
<1> DEFINE Up == {p \in S \X S : Before(PosOf(p[1]), PosOf(p[2]))}
           Down == {p \in S \X S : Before(PosOf(p[2]), PosOf(p[1]))}
<1>1. \A x, y \in S : /\ <<x, y>> \in Up <=> Before(PosOf(x), PosOf(y))
                      /\ <<x, y>> \in Down <=> Before(PosOf(y), PosOf(x))
  OBVIOUS
<1> HIDE DEF Up, Down
<1>2. \A x, y, z \in S : /\ ~Before(PosOf(x), PosOf(x))
                         /\ Before(PosOf(x), PosOf(y)) /\ Before(PosOf(y), PosOf(z))
                               => Before(PosOf(x), PosOf(z))
  BY BeforeOrder
<1>3. \E m \in S : \A x \in S : <<x, m>> \notin Up
  <2>1. \A x \in S : <<x, x>> \notin Up
    BY <1>1, <1>2
  <2>2. \A x, y, z \in S : <<x, y>> \in Up /\ <<y, z>> \in Up => <<x, z>> \in Up
    BY <1>1, <1>2
  <2> QED BY <2>1, <2>2, HasFirst
<1>4. \E m \in S : \A x \in S : <<x, m>> \notin Down
  <2>1. \A x \in S : <<x, x>> \notin Down
    BY <1>1, <1>2
  <2>2. \A x, y, z \in S : <<x, y>> \in Down /\ <<y, z>> \in Down => <<x, z>> \in Down
    BY <1>1, <1>2
  <2> QED BY <2>1, <2>2, HasFirst
<1> QED BY <1>1, <1>3, <1>4

\* No two rows of a set have one id.
OneRowPerId(S) == \A r, q \in S : r.id = q.id => r = q

\* The rows of S that are newer than r.
NewerThan(r, S) == {q \in S : Before(PosOf(r), PosOf(q))}

(* What a row limit leaves out is older than all it keeps, and it leaves out *)
(* nothing of a set that is smaller.                                          *)
LEMMA NewestCut ==
  ASSUME NEW S \in SUBSET Row, IsFiniteSet(S), OneRowPerId(S), NEW k \in Nat
  PROVE  /\ Newest(S, k) \subseteq S /\ IsFiniteSet(Newest(S, k))
         /\ \A r \in S \ Newest(S, k), x \in Newest(S, k) : Before(PosOf(r), PosOf(x))
         /\ Cardinality(Newest(S, k)) < k => Newest(S, k) = S
         /\ Cardinality(S) <= k => Newest(S, k) = S
         /\ k > 0 /\ S # {} => Newest(S, k) # {}
<1> DEFINE N == Newest(S, k)
<1>1. \A r \in S : IsFiniteSet(NewerThan(r, S)) /\ Cardinality(NewerThan(r, S)) \in Nat
  <2> TAKE r \in S
  <2>1. IsFiniteSet(NewerThan(r, S))
    BY FS_Subset DEF NewerThan
  <2> QED BY <2>1, FS_CardinalityType
<1>2. N = {r \in S : Cardinality(NewerThan(r, S)) < k}
  BY DEF Newest, NewerThan
<1>3. N \subseteq S /\ IsFiniteSet(N) /\ Cardinality(N) \in Nat
  <2>1. N \subseteq S
    BY <1>2
  <2>2. IsFiniteSet(N)
    BY <2>1, FS_Subset
  <2> QED BY <2>1, <2>2, FS_CardinalityType
<1> HIDE DEF N
<1>4. ASSUME NEW r \in S, r \notin N, NEW x \in N PROVE Before(PosOf(r), PosOf(x))
  <2>1. r # x /\ x \in S
    BY <1>3, <1>4
  <2>2. r.id # x.id
    BY <2>1 DEF OneRowPerId
  <2>3. CASE Before(PosOf(x), PosOf(r))
    <3>1. NewerThan(r, S) \subseteq NewerThan(x, S)
      BY <2>1, <2>3, BeforeOrder DEF NewerThan
    <3>2. Cardinality(NewerThan(r, S)) <= Cardinality(NewerThan(x, S))
      BY <1>1, <2>1, <3>1, FS_Subset
    <3>3. Cardinality(NewerThan(r, S)) \in Nat /\ Cardinality(NewerThan(x, S)) \in Nat
          /\ Cardinality(NewerThan(x, S)) < k
      BY <1>1, <1>2, <2>1
    <3> QED BY <1>2, <1>4, <3>2, <3>3
  <2> QED BY <2>1, <2>2, <2>3, BeforeOrder
<1>5. ASSUME Cardinality(N) < k PROVE N = S
  <2> SUFFICES ASSUME S \ N # {} PROVE FALSE
    BY <1>3
  <2>1. IsFiniteSet(S \ N) /\ S \ N \in SUBSET Row
    BY FS_Subset
  <2>2. PICK r \in S \ N : \A x \in S \ N : ~Before(PosOf(r), PosOf(x))
    BY <2>1, NewestAndOldest
  <2>3. NewerThan(r, S) \subseteq N
    BY <2>2 DEF NewerThan
  <2>4. Cardinality(NewerThan(r, S)) <= Cardinality(N)
    BY <1>3, <2>3, FS_Subset
  <2>5. Cardinality(NewerThan(r, S)) < k
    BY <1>1, <1>3, <1>5, <2>4
  <2> QED BY <1>2, <2>5
<1>6. ASSUME Cardinality(S) <= k PROVE N = S
  <2>1. ASSUME NEW r \in S PROVE r \in N
    <3>1. r \notin NewerThan(r, S) /\ NewerThan(r, S) \subseteq S
      BY BeforeOrder DEF NewerThan
    <3>2. Cardinality(NewerThan(r, S)) <= Cardinality(S) /\ Cardinality(NewerThan(r, S)) # Cardinality(S)
      BY <3>1, FS_Subset
    <3>3. Cardinality(NewerThan(r, S)) \in Nat /\ Cardinality(S) \in Nat
      BY <1>1, FS_CardinalityType
    <3>4. Cardinality(NewerThan(r, S)) < k
      BY <1>6, <3>2, <3>3
    <3> QED BY <1>2, <3>4
  <2> QED BY <1>3, <2>1
<1>7. ASSUME k > 0, S # {} PROVE N # {}
  <2>1. PICK r \in S : \A x \in S : ~Before(PosOf(r), PosOf(x))
    BY <1>7, NewestAndOldest
  <2>2. NewerThan(r, S) = {}
    BY <2>1 DEF NewerThan
  <2>3. Cardinality(NewerThan(r, S)) = 0
    BY <2>2, FS_EmptySet
  <2> QED BY <1>2, <1>7, <2>3
<1> QED BY <1>3, <1>4, <1>5, <1>6, <1>7 DEF N

\* Rows at the cursor or before it in the walk: not later than the page it ends.
Shown(r, cursor) == cursor # NoCursor /\ ~Before(PosOf(r), cursor.pos)

(* A walk under way has been given what stands between its beginning and its *)
(* cursor, and nothing after it; a cursor another user left off is not used.  *)
HistoryInv ==
    /\ rows \in SUBSET Row /\ IsFiniteSet(rows) /\ OneRowPerId(rows)
    /\ walk \in Walks /\ standing \subseteq rows
    /\ \A r \in standing \cup walk.given : r.user = walk.user
    /\ ~walk.twice
    /\ walk.ended => standing \subseteq walk.given
    /\ ~walk.ended => \A r \in walk.given : Shown(r, walk.cursor)
    /\ ~CursorAccepted(walk.user, walk.cursor) => walk.given = {} /\ ~walk.ended
    /\ CursorAccepted(walk.user, walk.cursor) /\ ~walk.ended =>
          \A r \in standing : Shown(r, walk.cursor) => r \in walk.given

LEMMA HistoryInitInv == HistoryInit => HistoryInv
<1> SUFFICES ASSUME HistoryInit PROVE HistoryInv
  OBVIOUS
<1>1. PICK u \in Users : walk = NewWalk(u)
  BY DEF HistoryInit
<1>2. walk \in Walks /\ walk.user = u /\ walk.given = {} /\ walk.cursor = NoCursor /\ ~walk.twice /\ ~walk.ended
  BY <1>1 DEF NewWalk, Walks
<1> QED BY <1>2 DEF HistoryInit, HistoryInv, OneRowPerId, CursorAccepted, Shown

\* The oldest row of a page is its last.
LEMMA LastIsOldest ==
  ASSUME NEW S \in SUBSET Row, IsFiniteSet(S), S # {}
  PROVE  /\ \E x \in S : LastOf(S) = PosOf(x)
         /\ \A r \in S : ~Before(PosOf(r), LastOf(S))
<1>1. \E p \in {PosOf(r) : r \in S} : \A r \in S : ~Before(PosOf(r), p)
  BY NewestAndOldest
<1>2. LastOf(S) \in {PosOf(r) : r \in S} /\ \A r \in S : ~Before(PosOf(r), LastOf(S))
  BY <1>1 DEF LastOf
<1> QED BY <1>2

(* A page takes the newest of the rows after the cursor, all of them when    *)
(* there is no page more, and its last item is older than everything in it.  *)
LEMMA PageTaken ==
  ASSUME HistoryInv, NEW limit \in 1 .. MaxPage
  PROVE  LET rest == Eligible(walk.user, walk.cursor)
             items == PageItems(walk.user, walk.cursor, limit)
             more == HasMore(walk.user, walk.cursor, limit)
         IN  /\ rest \in SUBSET Row /\ items \subseteq rest /\ IsFiniteSet(items)
             /\ ~more => items = rest
             /\ more => /\ LastOf(items) \in Position
                        /\ \E x \in items : LastOf(items) = PosOf(x)
                        /\ \A r \in items : ~Before(PosOf(r), LastOf(items))
                        /\ \A r \in rest \ items : Before(PosOf(r), LastOf(items))
<1> DEFINE rest == Eligible(walk.user, walk.cursor)
           N == Newest(rest, limit + 1)
           items == Newest(N, limit)
<1>1. limit \in Nat /\ limit > 0 /\ limit + 1 \in Nat
  BY HistoryAssumption
<1>2. rest \in SUBSET Row /\ IsFiniteSet(rest) /\ OneRowPerId(rest)
  <2>1. rest \subseteq rows /\ rows \in SUBSET Row /\ IsFiniteSet(rows) /\ OneRowPerId(rows)
    BY DEF Eligible, HistoryInv
  <2>2. IsFiniteSet(rest)
    BY <2>1, FS_Subset
  <2> QED BY <2>1, <2>2 DEF OneRowPerId
<1> HIDE DEF rest
<1>3. /\ N \subseteq rest /\ IsFiniteSet(N)
      /\ \A r \in rest \ N, x \in N : Before(PosOf(r), PosOf(x))
      /\ Cardinality(N) < limit + 1 => N = rest
  BY <1>1, <1>2, NewestCut
<1> HIDE DEF N
<1>4. N \in SUBSET Row /\ OneRowPerId(N) /\ Cardinality(N) \in Nat
  <2>1. N \in SUBSET Row /\ OneRowPerId(N)
    BY <1>2, <1>3 DEF OneRowPerId
  <2> QED BY <1>3, <2>1, FS_CardinalityType
<1>5. /\ items \subseteq N /\ IsFiniteSet(items)
      /\ \A r \in N \ items, x \in items : Before(PosOf(r), PosOf(x))
      /\ Cardinality(N) <= limit => items = N
      /\ limit > 0 /\ N # {} => items # {}
  BY <1>1, <1>3, <1>4, NewestCut
<1> HIDE DEF items
<1>6. HasMore(walk.user, walk.cursor, limit) <=> Cardinality(N) > limit
  BY DEF HasMore, N, rest
<1>7. PageItems(walk.user, walk.cursor, limit) = items
  BY DEF PageItems, items, N, rest
<1>8. Cardinality(N) <= limit => items = rest
  BY <1>1, <1>3, <1>4, <1>5
<1>9. ASSUME Cardinality(N) > limit
      PROVE  /\ LastOf(items) \in Position
             /\ \E x \in items : LastOf(items) = PosOf(x)
             /\ \A r \in items : ~Before(PosOf(r), LastOf(items))
             /\ \A r \in rest \ items : Before(PosOf(r), LastOf(items))
  <2>1. N # {}
    <3>1. Cardinality({}) = 0
      BY FS_EmptySet
    <3> QED BY <1>1, <1>9, <3>1
  <2>2. items # {} /\ items \in SUBSET Row
    BY <1>1, <1>4, <1>5, <2>1
  <2>3. /\ \E x \in items : LastOf(items) = PosOf(x)
        /\ \A r \in items : ~Before(PosOf(r), LastOf(items))
    BY <1>5, <2>2, LastIsOldest
  <2>4. PICK x \in items : LastOf(items) = PosOf(x)
    BY <2>3
  <2>5. LastOf(items) \in Position
    BY <2>2, <2>4 DEF PosOf, Position, Row
  <2>6. \A r \in rest \ items : Before(PosOf(r), PosOf(x))
    BY <1>3, <1>5
  <2> QED BY <2>3, <2>4, <2>5, <2>6
<1>10. items \subseteq rest
  BY <1>3, <1>5
<1>11. HasMore(walk.user, walk.cursor, limit) \/ Cardinality(N) <= limit
  BY <1>1, <1>4, <1>6
<1>12. rest = Eligible(walk.user, walk.cursor)
  BY DEF rest
<1> QED BY <1>2, <1>5, <1>6, <1>7, <1>8, <1>9, <1>10, <1>11, <1>12

LEMMA GetPageStep == ASSUME HistoryInv, GetPage PROVE HistoryInv'
<1> DEFINE user == walk.user
           rest == Eligible(user, walk.cursor)
<1>1. PICK limit \in Limits :
        /\ ~walk.ended /\ LimitAccepted(limit) /\ CursorAccepted(user, walk.cursor)
        /\ walk' = [walk EXCEPT
             !.given = @ \cup PageItems(user, walk.cursor, limit),
             !.twice = @ \/ walk.given \cap PageItems(user, walk.cursor, limit) # {},
             !.cursor = IF HasMore(user, @, limit)
                        THEN [scope |-> user, pos |-> LastOf(PageItems(user, walk.cursor, limit))] ELSE @,
             !.ended = ~HasMore(user, walk.cursor, limit)]
        /\ UNCHANGED <<rows, standing>>
  BY DEF GetPage
<1> DEFINE items == PageItems(user, walk.cursor, limit)
           more == HasMore(user, walk.cursor, limit)
           next == [scope |-> user, pos |-> LastOf(items)]
           cursor == IF more THEN next ELSE walk.cursor
<1>2. limit \in 1 .. MaxPage
  BY <1>1 DEF LimitAccepted
<1>3. walk \in Walks /\ user \in Users /\ walk.given \in SUBSET Row
  BY DEF HistoryInv, Walks
<1>4. /\ rest \in SUBSET Row /\ items \subseteq rest
      /\ ~more => items = rest
      /\ more => /\ LastOf(items) \in Position
                 /\ \E x \in items : LastOf(items) = PosOf(x)
                 /\ \A r \in items : ~Before(PosOf(r), LastOf(items))
                 /\ \A r \in rest \ items : Before(PosOf(r), LastOf(items))
  BY <1>2, PageTaken
<1>5. walk' = [walk EXCEPT !.given = walk.given \cup items, !.twice = walk.twice \/ walk.given \cap items # {},
                           !.cursor = cursor, !.ended = ~more]
  BY <1>1, <1>3 DEF Walks
<1>6. \A r \in rows : r \in rest <=> r.user = user /\ (walk.cursor = NoCursor \/ Before(PosOf(r), walk.cursor.pos))
  BY DEF Eligible
<1>7. rest \subseteq rows /\ more \in BOOLEAN
  BY DEF Eligible, HasMore
<1> HIDE DEF rest, items, more
<1>8. more => next \in Cursor /\ next # NoCursor /\ next.pos = LastOf(items) /\ next.scope = user
  BY <1>3, <1>4, HistoryAssumption DEF Cursor
<1> HIDE DEF next
<1>9. cursor \in Cursor \cup {NoCursor}
  BY <1>3, <1>8 DEF Walks
<1>10. walk.given \cap items = {}
  BY <1>1, <1>4, <1>6, <1>7 DEF HistoryInv, Shown
<1> HIDE DEF cursor
<1>11. /\ walk' \in Walks /\ walk'.user = user /\ walk'.given = walk.given \cup items
       /\ walk'.twice = FALSE /\ walk'.cursor = cursor /\ walk'.ended = ~more
  <2>1. walk.twice = FALSE
    BY <1>3 DEF HistoryInv, Walks
  <2> QED BY <1>3, <1>4, <1>5, <1>7, <1>9, <1>10, <2>1 DEF Walks
<1>12. \A r \in standing \cup walk'.given : r.user = user
  BY <1>4, <1>6, <1>7, <1>11 DEF HistoryInv
<1>13. \A r \in standing : r \in rest \/ r \in walk.given
  BY <1>1, <1>6 DEF HistoryInv, Shown
<1>14. CASE ~more
  <2>1. CursorAccepted(user, cursor)
    BY <1>1, <1>14 DEF cursor
  <2>2. standing \subseteq walk'.given
    BY <1>4, <1>11, <1>13, <1>14
  <2> QED BY <1>1, <1>11, <1>12, <1>14, <2>1, <2>2 DEF HistoryInv, OneRowPerId, CursorAccepted
<1>15. CASE more
  <2>1. cursor = next /\ CursorAccepted(user, cursor)
    BY <1>8, <1>15 DEF cursor, CursorAccepted
  <2>2. PICK x \in items : LastOf(items) = PosOf(x)
    BY <1>4, <1>15
  <2>3. x \in Row /\ x \in rows /\ (walk.cursor = NoCursor \/ Before(PosOf(x), walk.cursor.pos))
    BY <1>4, <1>6, <1>7
  <2>4. ASSUME NEW r \in walk.given PROVE ~Before(PosOf(r), PosOf(x))
    <3>1. walk.cursor # NoCursor /\ ~Before(PosOf(r), walk.cursor.pos) /\ r \in Row
      BY <1>1, <1>3 DEF HistoryInv, Shown
    <3>2. walk.cursor.pos \in Position
      BY <1>3, <3>1 DEF Walks, Cursor
    <3>3. walk.cursor.pos = [at |-> walk.cursor.pos.at, id |-> walk.cursor.pos.id]
          /\ walk.cursor.pos.at \in Nat /\ walk.cursor.pos.id \in Nat
      BY <3>2, HistoryAssumption DEF Position
    <3>4. r.at \in Nat /\ r.id \in Nat /\ x.at \in Nat /\ x.id \in Nat
      BY <2>3, <3>1, HistoryAssumption DEF Row
    <3> DEFINE p == walk.cursor.pos
    <3>5. Before(PosOf(x), p) /\ ~Before(PosOf(r), p)
      BY <2>3, <3>1
    <3> HIDE DEF p
    <3>6. p.at \in Nat /\ p.id \in Nat
      BY <3>3 DEF p
    <3>7. /\ x.at < p.at \/ (x.at = p.at /\ x.id < p.id)
          /\ ~(r.at < p.at \/ (r.at = p.at /\ r.id < p.id))
      BY <3>5 DEF Before, PosOf
    <3>8. ~(r.at < x.at \/ (r.at = x.at /\ r.id < x.id))
      BY <3>4, <3>6, <3>7
    <3> QED BY <3>8 DEF Before, PosOf
  <2>5. \A r \in walk'.given : Shown(r, cursor)
    BY <1>4, <1>8, <1>11, <1>15, <2>1, <2>2, <2>4 DEF Shown
  <2>6. \A r \in standing : Shown(r, cursor) => r \in walk'.given
    BY <1>4, <1>8, <1>11, <1>13, <1>15, <2>1 DEF Shown
  <2> QED BY <1>1, <1>11, <1>12, <1>15, <2>1, <2>5, <2>6 DEF HistoryInv, OneRowPerId, CursorAccepted, Shown
<1> QED BY <1>14, <1>15

LEMMA HistoryNextInv == ASSUME HistoryInv, [HistoryNext]_historyVars PROVE HistoryInv'
<1>1. CASE UNCHANGED historyVars
  BY <1>1 DEF historyVars, HistoryInv, OneRowPerId, Shown, CursorAccepted
<1>2. CASE RefuseCursor
  <2>1. /\ walk' = [walk EXCEPT !.cursor = NoCursor] /\ UNCHANGED <<rows, standing>> /\ walk \in Walks
        /\ walk.given = {} /\ ~walk.ended
    BY <1>2 DEF RefuseCursor, HistoryInv
  <2>2. walk' \in Walks /\ walk'.user = walk.user /\ walk'.given = {} /\ walk'.twice = walk.twice
        /\ ~walk'.ended /\ walk'.cursor = NoCursor
    BY <2>1 DEF Walks
  <2> QED BY <2>1, <2>2 DEF HistoryInv, OneRowPerId, Shown, CursorAccepted
<1>3. CASE SaveScan
  <2>1. PICK r \in Row : /\ \A q \in rows : q.id # r.id /\ q.at <= r.at
                         /\ rows' = rows \cup {r} /\ UNCHANGED <<walk, standing>>
    BY <1>3 DEF SaveScan
  <2>2. IsFiniteSet(rows')
    BY <2>1, FS_AddElement DEF HistoryInv
  <2> QED BY <2>1, <2>2 DEF HistoryInv, OneRowPerId, Shown, CursorAccepted
<1>4. CASE DeleteScan
  <2>1. PICK r \in rows : rows' = rows \ {r} /\ standing' = standing \ {r} /\ UNCHANGED walk
    BY <1>4 DEF DeleteScan
  <2>2. IsFiniteSet(rows')
    BY <2>1, FS_Subset DEF HistoryInv
  <2> QED BY <2>1, <2>2 DEF HistoryInv, OneRowPerId, Shown, CursorAccepted
<1>5. ASSUME NEW u \in Users, SignInAs(u) PROVE HistoryInv'
  <2>1. /\ walk' = [walk EXCEPT !.user = u, !.given = {}, !.twice = FALSE, !.ended = FALSE]
        /\ standing' = {r \in rows : r.user = u} /\ UNCHANGED rows /\ u # walk.user /\ walk \in Walks
        /\ (walk.cursor # NoCursor => walk.cursor.scope = walk.user)
    BY <1>5 DEF SignInAs, HistoryInv
  <2>2. walk' \in Walks /\ walk'.user = u /\ walk'.given = {} /\ ~walk'.twice
        /\ ~walk'.ended /\ walk'.cursor = walk.cursor
    BY <2>1 DEF Walks
  <2> QED BY <2>1, <2>2 DEF HistoryInv, OneRowPerId, Shown, CursorAccepted
<1> QED BY <1>1, <1>2, <1>3, <1>4, <1>5, GetPageStep DEF HistoryNext

(* For any users, scans, page sizes and order of creations, deletions and    *)
(* sign-ins: a walk through the history shows every scan that was there all   *)
(* along, none twice and none of another user.                                *)
THEOREM WalksComplete == HistorySpec => [](HistoryTypeOK /\ WalkComplete)
<1>1. HistoryInit => HistoryInv
  BY HistoryInitInv
<1>2. HistoryInv /\ [HistoryNext]_historyVars => HistoryInv'
  BY HistoryNextInv
<1>3. HistoryInv => HistoryTypeOK /\ WalkComplete
  BY DEF HistoryInv, HistoryTypeOK, WalkComplete
<1> QED BY <1>1, <1>2, <1>3, PTL DEF HistorySpec

-----------------------------------------------------------------------------
(* What a scan leaves behind stays true, for any number of snapshots,        *)
(* releases, tracks, records, requests and faults: the durable track rows    *)
(* of a user's catalogue and the verdict cells of a search record.           *)

(* A finite set without one of its elements is smaller. *)
LEMMA FewerElements ==
  ASSUME NEW A, IsFiniteSet(A), NEW B \in SUBSET A, NEW x \in A, x \notin B
  PROVE  /\ Cardinality(B) < Cardinality(A)
         /\ Cardinality(A) \in Nat /\ Cardinality(B) \in Nat
<1>1. IsFiniteSet(B) /\ Cardinality(B) <= Cardinality(A) /\ Cardinality(A) # Cardinality(B)
  BY FS_Subset
<1>2. Cardinality(A) \in Nat /\ Cardinality(B) \in Nat
  BY <1>1, FS_CardinalityType
<1> QED BY <1>1, <1>2

(* A finite set of natural numbers has a largest element. *)
LEMMA HasGreatest ==
  ASSUME NEW S, IsFiniteSet(S), S \subseteq Nat, S # {}
  PROVE  \E m \in S : \A n \in S : n <= m
<1> DEFINE Above(m) == {n \in S : n > m}
           C == {Cardinality(Above(m)) : m \in S}
           R == {ss \in Nat \X Nat : ss[1] < ss[2]}
<1>1. \A m \in S : IsFiniteSet(Above(m)) /\ Cardinality(Above(m)) \in Nat
  BY FS_Subset, FS_CardinalityType
<1>2. C \subseteq Nat /\ C # {}
  BY <1>1
<1>3. IsWellFoundedOn(R, Nat)
  BY NatLessThanWellFounded DEF OpToRel
<1>4. PICK i \in C : \A k \in C : ~(<<k, i>> \in R)
  <2> HIDE DEF C, R
  <2> QED BY <1>2, <1>3, WFMin
<1>5. PICK m \in S : i = Cardinality(Above(m))
  BY <1>4
<1>6. ASSUME NEW n \in S, n > m PROVE FALSE
  <2>1. Above(n) \subseteq Above(m) /\ n \in Above(m) /\ n \notin Above(n)
    <3>1. n \in Nat /\ m \in Nat
      OBVIOUS
    <3>2. \A k \in S : k \in Nat /\ (k > n => k > m)
      BY <1>6, <3>1
    <3>3. n \in Above(m) /\ ~(n > n)
      BY <1>6, <3>1
    <3>4. n \notin Above(n)
      BY <3>3
    <3>5. Above(n) \subseteq Above(m)
      BY <3>2, Zenon
    <3> HIDE DEF Above, C, R
    <3> QED BY <3>3, <3>4, <3>5
  <2>2. Cardinality(Above(n)) \in C
    OBVIOUS
  <2>3. IsFiniteSet(Above(m))
    BY <1>1
  <2> HIDE DEF Above, C
  <2>4. /\ Cardinality(Above(n)) < Cardinality(Above(m))
        /\ Cardinality(Above(n)) \in Nat /\ Cardinality(Above(m)) \in Nat
    BY <2>1, <2>3, FewerElements
  <2>5. <<Cardinality(Above(n)), i>> \in R
    BY <1>5, <2>4
  <2> QED BY <1>4, <2>2, <2>5
<1>7. \A n \in S : n <= m
  BY <1>6
<1> QED BY <1>7

(* A set of natural numbers has a least element. *)
LEMMA HasLeast ==
  ASSUME NEW S, S \subseteq Nat, S # {}
  PROVE  \E m \in S : \A n \in S : m <= n
<1> DEFINE R == {ss \in Nat \X Nat : ss[1] < ss[2]}
<1>1. IsWellFoundedOn(R, Nat)
  BY NatLessThanWellFounded DEF OpToRel
<1>2. PICK m \in S : \A n \in S : ~(<<n, m>> \in R)
  <2> HIDE DEF R
  <2> QED BY <1>1, WFMin
<1>3. ASSUME NEW n \in S PROVE m <= n
  <2>1. n \in Nat /\ m \in Nat /\ ~(<<n, m>> \in R)
    BY <1>2
  <2> QED BY <2>1
<1> QED BY <1>3

-----------------------------------------------------------------------------
(* The durable catalogue.                                                  *)

(* A row that comes back starts without mark and verdict. *)
AbsentReset ==
  \A k \in Keys : row[k] = None => marked[k] = "unmarked" /\ stored[k] = "unknown"

OutcomesInv ==
  /\ OutcomesTypeOK
  /\ OutcomesSound
  /\ AbsentReset
  /\ \A s \in Snapshots : check[s].state = "waiting" => check[s].made < MaxAttempts

(* A step of another writer: it neither adds nor removes a row and writes  *)
(* its own columns only.                                                   *)
ColumnStep ==
  /\ row' \in [Keys -> TrackRow \cup {None}] /\ UNCHANGED <<kind, read>>
  /\ marked' \in [Keys -> Marks] /\ stored' \in [Keys -> StoreStates]
  /\ \A k \in Keys : row'[k] = None <=> row[k] = None
  /\ \A k \in Keys : row[k] = None => marked'[k] = marked[k] /\ stored'[k] = stored[k]
  /\ \A k \in Keys : row[k] # None =>
       \/ row'[k].mark = row[k].mark /\ marked'[k] = marked[k]
       \/ row'[k].mark = marked'[k]
  /\ \A k \in Keys : row[k] # None =>
       \/ row'[k].store = row[k].store /\ stored'[k] = stored[k]
       \/ row'[k].store = stored'[k]

(* A writer of its own columns keeps the rows sound. *)
LEMMA ColumnsKept ==
  ASSUME OutcomesInv, ColumnStep
  PROVE  OutcomesSound' /\ AbsentReset'
<1>1. RowsMatchReading'
  <2>1. ASSUME NEW s \in Snapshots, NEW r \in Releases PROVE RowsOf(s, r)' = RowsOf(s, r)
    <3>1. \A t \in Indexes : <<s, r, t>> \in Keys
      BY DEF Keys
    <3> QED BY <3>1 DEF RowsOf, ColumnStep
  <2>2. RowsMatchReading /\ UNCHANGED <<kind, read>>
    BY DEF OutcomesInv, OutcomesSound, ColumnStep
  <2> QED BY <2>1, <2>2 DEF RowsMatchReading
<1>2. ColumnsIndependent'
  BY DEF OutcomesInv, OutcomesSound, ColumnsIndependent, ColumnStep
<1>3. AbsentReset'
  BY DEF OutcomesInv, AbsentReset, ColumnStep
<1> QED BY <1>1, <1>2, <1>3 DEF OutcomesSound

(* The row a replayed finalizer writes. *)
LEMMA UpsertedRow ==
  ASSUME NEW old \in [Indexes -> TrackRow \cup {None}], NEW tracks \in 0..AlbumTracks,
         NEW inline \in LyricStates, NEW t \in Indexes,
         NEW new, new = UpsertedRows(old, tracks, inline)[t]
  PROVE  /\ new \in TrackRow \cup {None}
         /\ new = None <=> t > tracks
         /\ t <= tracks /\ old[t] = None => new.mark = "unmarked" /\ new.store = "unknown"
         /\ t <= tracks /\ old[t] # None =>
              new.mark = old[t].mark /\ new.store = old[t].store
<1>1. new = IF t > tracks THEN None
            ELSE IF old[t] = None THEN [NewRow EXCEPT !.lyric = inline]
            ELSE [old[t] EXCEPT !.lyric = inline]
  BY DEF UpsertedRows
<1>2. t \in Nat /\ tracks \in Nat /\ (t > tracks <=> ~(t <= tracks))
  BY OutcomesAssumption DEF OutcomesAssumption, Indexes
<1>3. /\ [NewRow EXCEPT !.lyric = inline] \in TrackRow
      /\ [NewRow EXCEPT !.lyric = inline].mark = "unmarked"
      /\ [NewRow EXCEPT !.lyric = inline].store = "unknown"
  BY DEF NewRow, TrackRow, LyricStates, StoreStates, Marks
<1>4. ASSUME old[t] # None
      PROVE  /\ [old[t] EXCEPT !.lyric = inline] \in TrackRow
             /\ [old[t] EXCEPT !.lyric = inline].mark = old[t].mark
             /\ [old[t] EXCEPT !.lyric = inline].store = old[t].store
  <2>1. old[t] \in TrackRow
    BY <1>4
  <2> QED BY <2>1 DEF TrackRow
<1> QED BY <1>1, <1>2, <1>3, <1>4, NoRowAssumption DEF NoRowAssumption

(* The finalizer's transaction. *)
LEMMA PersistStep ==
  ASSUME OutcomesInv, NEW s \in Snapshots, Persist(s)
  PROVE  OutcomesInv'
<1> PICK size \in [Releases -> 0..AlbumTracks], inline \in {"unknown", "present"} :
    LET Old(r) == [t \in Indexes |-> row[<<s, r, t>>]]
        New(r) == UpsertedRows(Old(r), size[r], inline)
    IN /\ finalizer[s] = "idle" /\ finals < MaxPersists
       /\ kind' = [kind EXCEPT ![s] =
            [r \in Releases |-> IF size[r] = 0 THEN "FAILED" ELSE "COMPLETED"]]
       /\ row' = [k \in Keys |-> IF k[1] = s THEN New(k[2])[k[3]] ELSE row[k]]
       /\ read' = [read EXCEPT ![s] = size]
       /\ marked' = [k \in Keys |-> IF k[1] = s /\ k[3] > size[k[2]] THEN "unmarked" ELSE marked[k]]
       /\ stored' = [k \in Keys |-> IF k[1] = s /\ k[3] > size[k[2]] THEN "unknown" ELSE stored[k]]
       /\ finalizer' = [finalizer EXCEPT ![s] = "carry"]
       /\ finals' = finals + 1
       /\ UNCHANGED <<jobVars, calls, faults>>
  BY Zenon DEF Persist
<1> DEFINE Old(r) == [t \in Indexes |-> row[<<s, r, t>>]]
           New(r) == UpsertedRows(Old(r), size[r], inline)
<1>1. OutcomesTypeOK /\ RowsMatchReading /\ ColumnsIndependent /\ AbsentReset
  BY DEF OutcomesInv, OutcomesSound
<1>2. ASSUME NEW r \in Releases PROVE Old(r) \in [Indexes -> TrackRow \cup {None}]
  <2>1. \A t \in Indexes : <<s, r, t>> \in Keys
    BY DEF Keys
  <2> QED BY <1>1, <2>1 DEF OutcomesTypeOK
<1>3. inline \in LyricStates
  BY DEF LyricStates
<1>4. ASSUME NEW k \in Keys
      PROVE  /\ k[1] \in Snapshots /\ k[2] \in Releases /\ k[3] \in Indexes
             /\ k = <<k[1], k[2], k[3]>> /\ size[k[2]] \in 0..AlbumTracks
             /\ k[1] = s => Old(k[2])[k[3]] = row[k]
  BY <1>4 DEF Keys
<1>5. \A k \in Keys : row'[k] = IF k[1] = s THEN New(k[2])[k[3]] ELSE row[k]
  OBVIOUS
<1> HIDE DEF Old
<1>6. ASSUME NEW k \in Keys, k[1] = s
      PROVE  /\ row'[k] \in TrackRow \cup {None}
             /\ row'[k] = None <=> k[3] > size[k[2]]
             /\ k[3] <= size[k[2]] /\ row[k] = None =>
                  row'[k].mark = "unmarked" /\ row'[k].store = "unknown"
             /\ k[3] <= size[k[2]] /\ row[k] # None =>
                  row'[k].mark = row[k].mark /\ row'[k].store = row[k].store
  BY <1>2, <1>3, <1>4, <1>5, <1>6, UpsertedRow
<1>7. row' \in [Keys -> TrackRow \cup {None}]
  <2>1. ASSUME NEW k \in Keys PROVE row'[k] \in TrackRow \cup {None}
    BY <1>1, <1>5, <1>6, <2>1 DEF OutcomesTypeOK
  <2> QED BY <2>1, Zenon
<1> HIDE DEF New
<1>8. OutcomesTypeOK'
  BY <1>1, <1>7 DEF OutcomesTypeOK, jobVars, Marks, StoreStates
<1>9. RowsMatchReading'
  <2> SUFFICES ASSUME NEW p \in Snapshots, NEW r \in Releases
               PROVE  RowsOf(p, r)' =
                        IF kind'[p][r] = "COMPLETED" THEN 1..read'[p][r] ELSE {}
    BY DEF RowsMatchReading
  <2>1. \A t \in Indexes :
          /\ <<p, r, t>> \in Keys /\ <<p, r, t>>[1] = p
          /\ <<p, r, t>>[2] = r /\ <<p, r, t>>[3] = t
    BY DEF Keys
  <2>2. CASE p = s
    <3>1. /\ kind'[p][r] = IF size[r] = 0 THEN "FAILED" ELSE "COMPLETED"
          /\ read'[p][r] = size[r] /\ size[r] \in 0..AlbumTracks
      BY <1>1, <2>2 DEF OutcomesTypeOK
    <3>2. RowsOf(p, r)' = {t \in Indexes : t <= size[r]}
      <4>1. \A t \in Indexes : row'[<<p, r, t>>] = None <=> t > size[r]
        BY <1>6, <2>1, <2>2
      <4>2. \A t \in Indexes : row'[<<p, r, t>>] # None <=> t <= size[r]
        <5> TAKE t \in Indexes
        <5>1. t \in Nat /\ size[r] \in Nat
          BY <3>1, OutcomesAssumption DEF Indexes, OutcomesAssumption
        <5>2. t > size[r] <=> ~(t <= size[r])
          BY <5>1
        <5> QED BY <4>1, <5>2
      <4> QED BY <4>2 DEF RowsOf
    <3>3. {t \in Indexes : t <= size[r]} = 1..size[r]
      BY <3>1, OutcomesAssumption DEF Indexes, OutcomesAssumption
    <3>4. size[r] = 0 => 1..size[r] = {}
      OBVIOUS
    <3> QED BY <3>1, <3>2, <3>3, <3>4
  <2>3. CASE p # s
    <3>1. kind'[p] = kind[p] /\ read'[p] = read[p]
      BY <1>1, <2>3 DEF OutcomesTypeOK
    <3>2. RowsOf(p, r)' = RowsOf(p, r)
      BY <1>5, <2>1, <2>3 DEF RowsOf
    <3> QED BY <1>1, <3>1, <3>2 DEF RowsMatchReading
  <2> QED BY <2>2, <2>3
<1>10. ColumnsIndependent'
  <2> SUFFICES ASSUME NEW k \in Keys, row'[k] # None
               PROVE  row'[k].mark = marked'[k] /\ row'[k].store = stored'[k]
    BY DEF ColumnsIndependent
  <2>1. CASE k[1] # s
    BY <1>1, <1>5, <2>1 DEF ColumnsIndependent
  <2>2. CASE k[1] = s
    <3>1. ~(k[3] > size[k[2]]) /\ k[3] <= size[k[2]]
      BY <1>4, <1>6, <2>2, OutcomesAssumption DEF Indexes, OutcomesAssumption
    <3>2. marked'[k] = marked[k] /\ stored'[k] = stored[k]
      BY <3>1
    <3>3. CASE row[k] # None
      BY <1>1, <1>6, <2>2, <3>1, <3>2, <3>3 DEF ColumnsIndependent
    <3>4. CASE row[k] = None
      BY <1>1, <1>6, <2>2, <3>1, <3>2, <3>4 DEF AbsentReset
    <3> QED BY <3>3, <3>4
  <2> QED BY <2>1, <2>2
<1>11. AbsentReset'
  <2> SUFFICES ASSUME NEW k \in Keys, row'[k] = None
               PROVE  marked'[k] = "unmarked" /\ stored'[k] = "unknown"
    BY DEF AbsentReset
  <2>1. CASE k[1] # s
    BY <1>1, <1>5, <2>1 DEF AbsentReset
  <2>2. CASE k[1] = s
    BY <1>6, <2>2
  <2> QED BY <2>1, <2>2
<1> QED BY <1>8, <1>9, <1>10, <1>11 DEF OutcomesInv, OutcomesSound, jobVars

(* A row another writer leaves alone, or whose lyric column it writes. *)
LEMMA LyricColumn ==
  ASSUME NEW old \in TrackRow, NEW v \in LyricStates
  PROVE  /\ [old EXCEPT !.lyric = v] \in TrackRow /\ [old EXCEPT !.lyric = v] # None
         /\ [old EXCEPT !.lyric = v].mark = old.mark
         /\ [old EXCEPT !.lyric = v].store = old.store
  BY NoRowAssumption DEF TrackRow, NoRowAssumption

(* The finalizer carries verdicts of the previous scan over. *)
LEMMA CarryStep ==
  ASSUME OutcomesInv, NEW s \in Snapshots, CarryForwardLyrics(s)
  PROVE  OutcomesInv'
<1>1. /\ OutcomesTypeOK /\ row \in [Keys -> TrackRow \cup {None}]
      /\ UNCHANGED <<kind, read, jobVars, marked, stored, finals, calls>>
      /\ finalizer' = [finalizer EXCEPT ![s] = "queue"]
      /\ faults' \in 0..MaxFaults
  <2>1. OutcomesTypeOK /\ faults \in 0..MaxFaults /\ MaxFaults \in Nat
    BY FaultsAssumption DEF OutcomesInv, OutcomesTypeOK, FaultsAssumption
  <2>2. UNCHANGED faults \/ (faults < MaxFaults /\ faults' = faults + 1)
    BY DEF CarryForwardLyrics
  <2>3. faults' \in 0..MaxFaults
    BY <2>1, <2>2
  <2> QED BY <2>1, <2>3 DEF OutcomesTypeOK, CarryForwardLyrics
<1>2. ASSUME NEW k \in Keys
      PROVE  LET new == CarriedRow(k[1], k[2], k[3])
             IN  /\ new \in TrackRow \cup {None}
                 /\ new = None <=> row[k] = None
                 /\ row[k] # None => new.mark = row[k].mark /\ new.store = row[k].store
  <2> DEFINE prior == PriorReads(k[1], k[2], k[3])
             newest == CHOOSE p \in prior : \A q \in prior : q <= p
  <2>1. /\ k[1] \in Snapshots /\ k[2] \in Releases /\ k[3] \in Indexes
        /\ <<k[1], k[2], k[3]>> = k /\ row[k] \in TrackRow \cup {None}
        /\ \A p \in Snapshots : <<p, k[2], k[3]>> \in Keys
    BY <1>1 DEF Keys
  <2>2. CASE row[k] = None \/ prior = {} \/ row[k].lyric # "unknown"
    <3>1. CarriedRow(k[1], k[2], k[3]) = row[k]
      BY <2>1, <2>2 DEF CarriedRow
    <3> QED BY <2>1, <3>1
  <2>3. CASE row[k] # None /\ prior # {} /\ row[k].lyric = "unknown"
    <3>1. prior \subseteq Snapshots /\ prior \subseteq Nat /\ IsFiniteSet(prior)
      <4>1. prior \subseteq Snapshots
        BY DEF PriorReads
      <4> HIDE DEF prior
      <4> QED BY <4>1, OutcomesAssumption, FS_Subset DEF OutcomesAssumption
    <3>2. \E p \in prior : \A q \in prior : q <= p
      <4> HIDE DEF prior
      <4> QED BY <2>3, <3>1, HasGreatest
    <3>3. newest \in prior
      <4> HIDE DEF prior
      <4> QED BY <3>2
    <3>4. row[<<newest, k[2], k[3]>>] # None
      BY <3>3 DEF PriorReads
    <3>5. CarriedRow(k[1], k[2], k[3])
            = [row[k] EXCEPT !.lyric = row[<<newest, k[2], k[3]>>].lyric]
      BY <2>1, <2>3 DEF CarriedRow
    <3> HIDE DEF prior, newest
    <3>6. row[<<newest, k[2], k[3]>>] \in TrackRow /\ row[k] \in TrackRow
      BY <1>1, <2>1, <2>3, <3>1, <3>3, <3>4
    <3>7. row[<<newest, k[2], k[3]>>].lyric \in LyricStates
      BY <3>6 DEF TrackRow
    <3> QED BY <2>3, <3>5, <3>6, <3>7, LyricColumn
  <2> QED BY <2>1, <2>2, <2>3
<1>3. row' = row \/ row' = [k \in Keys |->
                              IF k[1] = s THEN CarriedRow(k[1], k[2], k[3]) ELSE row[k]]
  BY DEF CarryForwardLyrics
<1>4. ColumnStep
  <2>1. CASE row' = row
    BY <1>1, <2>1 DEF ColumnStep, OutcomesTypeOK
  <2>2. CASE row' = [k \in Keys |->
                       IF k[1] = s THEN CarriedRow(k[1], k[2], k[3]) ELSE row[k]]
    <3>1. ASSUME NEW k \in Keys
          PROVE  /\ row'[k] \in TrackRow \cup {None}
                 /\ row'[k] = None <=> row[k] = None
                 /\ row[k] # None => row'[k].mark = row[k].mark /\ row'[k].store = row[k].store
      BY <1>1, <1>2, <2>2
    <3>2. row' \in [Keys -> TrackRow \cup {None}]
      BY <2>2, <3>1, Zenon
    <3> QED BY <1>1, <3>1, <3>2 DEF ColumnStep, OutcomesTypeOK
  <2> QED BY <1>3, <2>1, <2>2
<1>5. OutcomesTypeOK'
  BY <1>1, <1>4 DEF OutcomesTypeOK, ColumnStep, jobVars
<1> QED BY <1>1, <1>4, <1>5, ColumnsKept DEF OutcomesInv, jobVars

(* One album page of the lyric scan. *)
LEMMA LyricPageStep ==
  ASSUME OutcomesInv, NEW s \in Snapshots, ReadAlbumLyrics(s)
  PROVE  OutcomesInv'
<1> PICK r \in scan[s], seen \in SUBSET Indexes :
      /\ row' = [k \in Keys |->
           IF k[1] = s /\ k[2] = r /\ k[3] \in seen /\ row[k] # None
           THEN [row[k] EXCEPT !.lyric = "none"] ELSE row[k]]
      /\ scan' = [scan EXCEPT ![s] = @ \ {r}]
      /\ UNCHANGED <<kind, read, finalizer, scanJob, progress, check, asking, marked, stored,
                     finals, calls, faults>>
  BY DEF ReadAlbumLyrics
<1>1. OutcomesTypeOK /\ row \in [Keys -> TrackRow \cup {None}]
  BY DEF OutcomesInv, OutcomesTypeOK
<1>2. ASSUME NEW k \in Keys
      PROVE  /\ row'[k] \in TrackRow \cup {None}
             /\ row'[k] = None <=> row[k] = None
             /\ row[k] # None => row'[k].mark = row[k].mark /\ row'[k].store = row[k].store
  <2>1. row'[k] = row[k] \/ (row[k] # None /\ row'[k] = [row[k] EXCEPT !.lyric = "none"])
    OBVIOUS
  <2>2. row[k] \in TrackRow \cup {None} /\ "none" \in LyricStates
    BY <1>1 DEF LyricStates
  <2> QED BY <2>1, <2>2, LyricColumn
<1>3. row' \in [Keys -> TrackRow \cup {None}]
  BY <1>2, Zenon
<1>4. ColumnStep
  BY <1>1, <1>2, <1>3 DEF ColumnStep, OutcomesTypeOK
<1>5. OutcomesTypeOK'
  BY <1>1, <1>3 DEF OutcomesTypeOK
<1> QED BY <1>4, <1>5, ColumnsKept DEF OutcomesInv

(* One release of the store-lyrics check. *)
LEMMA CheckStep ==
  ASSUME OutcomesInv, NEW s \in Snapshots, CheckRelease(s)
  PROVE  OutcomesInv'
<1> DEFINE Mine(r) == {k \in check[s].left : k[1] = r}
           Hit(r, k) == k[1] = s /\ <<k[2], k[3]>> \in Mine(r) /\ row[k] # None
<1> PICK r \in {k[1] : k \in check[s].left}, verdict \in {"found", "unverifiable"} :
       /\ check[s].state = "active"
       /\ verdict = "unverifiable" => faults < MaxFaults
       /\ faults' = IF verdict = "unverifiable" THEN faults + 1 ELSE faults
       /\ row' = [k \in Keys |-> IF Hit(r, k) THEN [row[k] EXCEPT !.store = verdict] ELSE row[k]]
       /\ stored' = [k \in Keys |-> IF Hit(r, k) THEN verdict ELSE stored[k]]
       /\ check' = [check EXCEPT ![s].left = @ \ Mine(r),
                                 ![s].failed = @ /\ verdict = "unverifiable"]
       /\ progress' = [progress EXCEPT ![s] = "running"]
       /\ UNCHANGED <<kind, read, finalizer, scanJob, scan, asking, marked, finals, calls>>
  BY Zenon DEF CheckRelease
<1>1. /\ OutcomesTypeOK /\ row \in [Keys -> TrackRow \cup {None}]
      /\ stored \in [Keys -> StoreStates] /\ check \in [Snapshots -> CheckJob]
  BY DEF OutcomesInv, OutcomesTypeOK
<1>2. verdict \in StoreStates
  BY DEF StoreStates
<1> HIDE DEF Hit, Mine
<1>3. ASSUME NEW k \in Keys
      PROVE  /\ row'[k] \in TrackRow \cup {None} /\ stored'[k] \in StoreStates
             /\ row'[k] = None <=> row[k] = None
             /\ row[k] # None => row'[k].mark = row[k].mark
             /\ row[k] # None => \/ row'[k].store = row[k].store /\ stored'[k] = stored[k]
                                 \/ row'[k].store = stored'[k]
             /\ row[k] = None => stored'[k] = stored[k]
  <2>1. row[k] \in TrackRow \cup {None} /\ stored[k] \in StoreStates
    BY <1>1
  <2>2. CASE Hit(r, k)
    <3>1. row[k] \in TrackRow /\ row[k] # None
      BY <2>1, <2>2 DEF Hit
    <3>2. row'[k] = [row[k] EXCEPT !.store = verdict] /\ stored'[k] = verdict
      BY <2>2
    <3>3. /\ [row[k] EXCEPT !.store = verdict] \in TrackRow
          /\ [row[k] EXCEPT !.store = verdict].mark = row[k].mark
          /\ [row[k] EXCEPT !.store = verdict].store = verdict
      BY <1>2, <3>1 DEF TrackRow
    <3> QED BY <1>2, <3>1, <3>2, <3>3, NoRowAssumption DEF NoRowAssumption
  <2>3. CASE ~Hit(r, k)
    BY <2>1, <2>3
  <2> QED BY <2>2, <2>3
<1>4. row' \in [Keys -> TrackRow \cup {None}] /\ stored' \in [Keys -> StoreStates]
  BY <1>3, Zenon
<1>5. ColumnStep
  BY <1>1, <1>3, <1>4 DEF ColumnStep, OutcomesTypeOK
<1>6. /\ check' \in [Snapshots -> CheckJob]
      /\ \A p \in Snapshots : /\ check'[p].state = check[p].state
                              /\ check'[p].made = check[p].made
  <2>1. /\ check[s] \in CheckJob /\ check[s].left \ Mine(r) \in SUBSET (Releases \X Indexes)
        /\ (check[s].failed /\ verdict = "unverifiable") \in BOOLEAN
    BY <1>1 DEF CheckJob
  <2>2. ASSUME NEW left \in SUBSET (Releases \X Indexes), NEW failed \in BOOLEAN
        PROVE  LET job2 == [check[s] EXCEPT !.left = left, !.failed = failed]
               IN  /\ job2 \in CheckJob /\ job2.state = check[s].state
                   /\ job2.made = check[s].made
    BY <2>1 DEF CheckJob
  <2> DEFINE next == [check[s] EXCEPT !.left = check[s].left \ Mine(r),
                                      !.failed = (check[s].failed /\ verdict = "unverifiable")]
  <2>3. next \in CheckJob /\ next.state = check[s].state /\ next.made = check[s].made
    BY <2>1, <2>2
  <2>4. check' = [check EXCEPT ![s] = next]
    BY <1>1, Zenon
  <2> HIDE DEF next
  <2> QED BY <1>1, <2>3, <2>4
<1>7. faults' \in 0..MaxFaults
  BY <1>1, FaultsAssumption DEF OutcomesTypeOK, FaultsAssumption
<1>8. OutcomesTypeOK'
  BY <1>1, <1>4, <1>6, <1>7 DEF OutcomesTypeOK
<1> QED BY <1>5, <1>6, <1>8, ColumnsKept DEF OutcomesInv

(* A mark the user sets. *)
LEMMA MarkStep ==
  ASSUME OutcomesInv, NEW s \in Snapshots, UpdateTrackMarks(s)
  PROVE  OutcomesInv'
<1> PICK r \in Releases, t \in Indexes, m \in Marks :
      /\ row[<<s, r, t>>] # None
      /\ row' = MarkedRow(<<s, r, t>>, m)
      /\ marked' = [marked EXCEPT ![<<s, r, t>>] = m]
      /\ calls' = calls + 1
      /\ UNCHANGED <<kind, read, finalizer, jobVars, stored, finals, faults>>
  BY DEF UpdateTrackMarks
<1> DEFINE key == <<s, r, t>>
<1>1. /\ OutcomesTypeOK /\ row \in [Keys -> TrackRow \cup {None}] /\ key \in Keys
      /\ marked \in [Keys -> Marks] /\ row[key] # None /\ row' = MarkedRow(key, m)
      /\ marked' = [marked EXCEPT ![key] = m]
  BY DEF OutcomesInv, OutcomesTypeOK, Keys
<1> HIDE DEF key
<1>2. ASSUME NEW k \in Keys
      PROVE  /\ row'[k] \in TrackRow \cup {None} /\ marked'[k] \in Marks
             /\ row'[k] = None <=> row[k] = None
             /\ row[k] # None => row'[k].store = row[k].store
             /\ row[k] # None => \/ row'[k].mark = row[k].mark /\ marked'[k] = marked[k]
                                 \/ row'[k].mark = marked'[k]
             /\ row[k] = None => marked'[k] = marked[k]
  <2>1. CASE k = key
    <3>1. row[key] \in TrackRow
      BY <1>1
    <3>2. row'[k] = [row[key] EXCEPT !.mark = m] /\ marked'[k] = m
      BY <1>1, <2>1 DEF MarkedRow
    <3>3. /\ [row[key] EXCEPT !.mark = m] \in TrackRow
          /\ [row[key] EXCEPT !.mark = m].mark = m
          /\ [row[key] EXCEPT !.mark = m].store = row[key].store
      BY <3>1 DEF TrackRow
    <3> QED BY <1>1, <2>1, <3>1, <3>2, <3>3, NoRowAssumption DEF NoRowAssumption
  <2>2. CASE k # key
    BY <1>1, <2>2 DEF MarkedRow
  <2> QED BY <2>1, <2>2
<1>3. row' \in [Keys -> TrackRow \cup {None}] /\ marked' \in [Keys -> Marks]
  <2>1. row' = [k \in Keys |-> row'[k]]
    BY <1>1 DEF MarkedRow
  <2>2. row' \in [Keys -> TrackRow \cup {None}]
    BY <1>2, <2>1, Zenon
  <2> QED BY <1>1, <2>2
<1>4. ColumnStep
  BY <1>1, <1>2, <1>3 DEF ColumnStep, OutcomesTypeOK
<1>5. calls' \in Nat
  BY <1>1 DEF OutcomesTypeOK
<1>6. OutcomesTypeOK'
  BY <1>1, <1>3, <1>5 DEF OutcomesTypeOK, jobVars
<1> QED BY <1>4, <1>6, ColumnsKept DEF OutcomesInv, jobVars

(* Steps of the jobs and of the route, which write no row. *)
LEMMA JobsOnly ==
  ASSUME OutcomesInv, UNCHANGED <<kind, row, read, marked, stored>>, OutcomesTypeOK',
         \A s \in Snapshots : check'[s].state = "waiting" => check'[s].made < MaxAttempts
  PROVE  OutcomesInv'
<1>1. ColumnStep
  BY DEF OutcomesInv, OutcomesTypeOK, ColumnStep
<1> QED BY <1>1, ColumnsKept DEF OutcomesInv

(* The lyric-scan job is queued, starts and ends. *)
LEMMA LyricScanSteps ==
  ASSUME OutcomesInv, NEW s \in Snapshots,
         QueueLyricScan(s) \/ StartLyricScan(s) \/ EndLyricScan(s)
  PROVE  OutcomesInv'
<1>1. OutcomesTypeOK /\ faults \in 0..MaxFaults /\ MaxFaults \in Nat
  BY FaultsAssumption DEF OutcomesInv, OutcomesTypeOK, FaultsAssumption
<1>2. Unread(s) \subseteq Releases
  BY DEF Unread, Completed
<1>3. CASE QueueLyricScan(s)
  <2>1. OutcomesTypeOK'
    BY <1>1, <1>3 DEF QueueLyricScan, OutcomesTypeOK
  <2> QED BY <1>3, <2>1, JobsOnly DEF QueueLyricScan, OutcomesInv
<1>4. CASE StartLyricScan(s)
  <2>1. faults' \in 0..MaxFaults
    <3>1. UNCHANGED faults \/ (faults < MaxFaults /\ faults' = faults + 1)
      BY <1>4 DEF StartLyricScan
    <3> QED BY <1>1, <3>1
  <2>2. /\ scanJob' \in [Snapshots -> {"none", "waiting", "active", "done"}]
        /\ scan' \in [Snapshots -> SUBSET Releases]
    <3>1. /\ scan \in [Snapshots -> SUBSET Releases]
          /\ scanJob \in [Snapshots -> {"none", "waiting", "active", "done"}]
      BY <1>1 DEF OutcomesTypeOK
    <3>2. scan' = scan \/ scan' = [scan EXCEPT ![s] = Unread(s)]
      BY <1>4 DEF StartLyricScan
    <3>3. \E w \in {"active", "done"} : scanJob' = [scanJob EXCEPT ![s] = w]
      BY <1>4 DEF StartLyricScan
    <3>4. scan' \in [Snapshots -> SUBSET Releases]
      BY <1>2, <3>1, <3>2
    <3>5. scanJob' \in [Snapshots -> {"none", "waiting", "active", "done"}]
      BY <3>1, <3>3
    <3> QED BY <3>4, <3>5
  <2>3. OutcomesTypeOK'
    BY <1>1, <1>4, <2>1, <2>2 DEF StartLyricScan, OutcomesTypeOK
  <2> QED BY <1>4, <2>3, JobsOnly DEF StartLyricScan, OutcomesInv
<1>5. CASE EndLyricScan(s)
  <2>1. faults' \in 0..MaxFaults
    BY <1>1, <1>5 DEF EndLyricScan
  <2>2. OutcomesTypeOK'
    BY <1>1, <1>5, <2>1 DEF EndLyricScan, OutcomesTypeOK
  <2> QED BY <1>5, <2>2, JobsOnly DEF EndLyricScan, OutcomesInv
<1> QED BY <1>3, <1>4, <1>5

(* The lyrics-check request. *)
LEMMA RequestSteps ==
  ASSUME OutcomesInv,
         (\E s \in Snapshots : LyricsCheck(s)) \/ MarkCheckQueued \/ DispatchCheck
  PROVE  OutcomesInv'
<1>1. /\ OutcomesTypeOK /\ faults \in 0..MaxFaults /\ MaxFaults \in Nat
      /\ check \in [Snapshots -> CheckJob] /\ asking \in Request \cup {None}
      /\ calls \in Nat
      /\ progress \in [Snapshots -> {"idle", "queued", "running", "done", "error"}]
      /\ \A s \in Snapshots : check[s].state = "waiting" => check[s].made < MaxAttempts
  BY FaultsAssumption DEF OutcomesInv, OutcomesTypeOK, FaultsAssumption
<1>2. ASSUME NEW s \in Snapshots, LyricsCheck(s) PROVE OutcomesInv'
  <2>1. asking' \in Request
    BY <1>2 DEF LyricsCheck, Request
  <2>2. OutcomesTypeOK'
    BY <1>1, <1>2, <2>1 DEF LyricsCheck, OutcomesTypeOK, rowVars
  <2> QED BY <1>1, <1>2, <2>2, JobsOnly DEF LyricsCheck, rowVars
<1>3. CASE MarkCheckQueued
  <2> DEFINE s == asking.snap
  <2>1. asking \in Request /\ s \in Snapshots
    BY <1>1, <1>3 DEF MarkCheckQueued, Request
  <2>2. asking' \in Request
    BY <1>3, <2>1 DEF MarkCheckQueued, Request
  <2>3. progress' \in [Snapshots -> {"idle", "queued", "running", "done", "error"}]
    BY <1>1, <1>3, <2>1 DEF MarkCheckQueued
  <2>4. /\ check' \in [Snapshots -> CheckJob]
        /\ \A p \in Snapshots : check'[p].state = "waiting" => check'[p].made < MaxAttempts
    <3>1. CASE check' = check
      BY <1>1, <3>1
    <3>2. CASE check' = [check EXCEPT ![s].state = "none"]
      <4>1. check[s] \in CheckJob
        BY <1>1, <2>1
      <4>2. [check[s] EXCEPT !.state = "none"] \in CheckJob
        BY <4>1 DEF CheckJob
      <4>3. [check[s] EXCEPT !.state = "none"].state = "none"
        BY <4>1 DEF CheckJob
      <4> QED BY <1>1, <2>1, <3>2, <4>2, <4>3
    <3> QED BY <1>3, <3>1, <3>2 DEF MarkCheckQueued
  <2>5. OutcomesTypeOK'
    BY <1>1, <1>3, <2>2, <2>3, <2>4 DEF MarkCheckQueued, OutcomesTypeOK, rowVars
  <2> QED BY <1>3, <2>4, <2>5, JobsOnly DEF MarkCheckQueued, rowVars
<1>4. CASE DispatchCheck
  <2> DEFINE s == asking.snap
             new == [state |-> "waiting", made |-> 0, left |-> {}, failed |-> FALSE]
  <2>1. asking \in Request /\ s \in Snapshots
    BY <1>1, <1>4 DEF DispatchCheck, Request
  <2>2. faults' \in 0..MaxFaults
    BY <1>1, <1>4 DEF DispatchCheck
  <2>3. progress' \in [Snapshots -> {"idle", "queued", "running", "done", "error"}]
    BY <1>1, <1>4, <2>1 DEF DispatchCheck
  <2>4. /\ check' \in [Snapshots -> CheckJob]
        /\ \A p \in Snapshots : check'[p].state = "waiting" => check'[p].made < MaxAttempts
    <3>1. CASE check' = check
      BY <1>1, <3>1
    <3>2. CASE check' = [check EXCEPT ![s] = new]
      <4>1. new \in CheckJob /\ new.made < MaxAttempts
        BY BoundsAssumption DEF CheckJob, BoundsAssumption
      <4> HIDE DEF new
      <4> QED BY <1>1, <2>1, <3>2, <4>1
    <3> QED BY <1>4, <3>1, <3>2 DEF DispatchCheck
  <2>5. OutcomesTypeOK'
    BY <1>1, <1>4, <2>2, <2>3, <2>4 DEF DispatchCheck, OutcomesTypeOK, rowVars
  <2> QED BY <1>4, <2>4, <2>5, JobsOnly DEF DispatchCheck, rowVars
<1> QED BY <1>2, <1>3, <1>4

(* The store-lyrics job starts, ends and is taken up again. *)
LEMMA CheckJobSteps ==
  ASSUME OutcomesInv, NEW s \in Snapshots, StartCheck(s) \/ EndCheck(s)
  PROVE  OutcomesInv'
<1>1. /\ OutcomesTypeOK /\ check \in [Snapshots -> CheckJob] /\ check[s] \in CheckJob
      /\ progress \in [Snapshots -> {"idle", "queued", "running", "done", "error"}]
      /\ \A p \in Snapshots : check[p].state = "waiting" => check[p].made < MaxAttempts
      /\ MaxAttempts \in Nat
  BY BoundsAssumption DEF OutcomesInv, OutcomesTypeOK, BoundsAssumption
<1>2. CASE StartCheck(s)
  <2> DEFINE tracks == {k \in Completed(s) \X Indexes : k[2] \in RowsOf(s, k[1])}
             new == [state |-> IF tracks = {} THEN "completed" ELSE "active",
                     made |-> check[s].made + 1, left |-> tracks, failed |-> TRUE]
  <2>1. check' = [check EXCEPT ![s] = new] /\ check[s].state = "waiting"
    BY <1>2, Zenon DEF StartCheck
  <2>2. tracks \in SUBSET (Releases \X Indexes)
    BY DEF Completed
  <2>3. check[s].made + 1 \in 0..MaxAttempts
    BY <1>1, <2>1 DEF CheckJob
  <2> HIDE DEF tracks
  <2>4. new \in CheckJob /\ new.state # "waiting"
    BY <2>2, <2>3 DEF CheckJob
  <2> HIDE DEF new
  <2>5. /\ check' \in [Snapshots -> CheckJob]
        /\ \A p \in Snapshots : check'[p].state = "waiting" => check'[p].made < MaxAttempts
    BY <1>1, <2>1, <2>4
  <2>6. progress' \in [Snapshots -> {"idle", "queued", "running", "done", "error"}]
    BY <1>1, <1>2 DEF StartCheck
  <2>7. OutcomesTypeOK'
    BY <1>1, <1>2, <2>5, <2>6 DEF StartCheck, OutcomesTypeOK, rowVars
  <2> QED BY <1>2, <2>5, <2>7, JobsOnly DEF StartCheck, rowVars
<1>3. CASE EndCheck(s)
  <2>1. PICK st \in {"completed", "waiting", "failed"} :
          /\ check' = [check EXCEPT ![s].state = st]
          /\ st = "waiting" => check[s].made < MaxAttempts
    BY <1>3 DEF EndCheck
  <2> DEFINE new == [check[s] EXCEPT !.state = st]
  <2>2. new \in CheckJob /\ new.state = st /\ new.made = check[s].made
    BY <1>1 DEF CheckJob
  <2>3. check' = [check EXCEPT ![s] = new]
    BY <2>1
  <2> HIDE DEF new
  <2>5. /\ check' \in [Snapshots -> CheckJob]
        /\ \A p \in Snapshots : check'[p].state = "waiting" => check'[p].made < MaxAttempts
    BY <1>1, <2>1, <2>2, <2>3
  <2>6. progress' \in [Snapshots -> {"idle", "queued", "running", "done", "error"}]
    BY <1>1, <1>3 DEF EndCheck
  <2>7. OutcomesTypeOK'
    BY <1>1, <1>3, <2>5, <2>6 DEF EndCheck, OutcomesTypeOK, rowVars
  <2> QED BY <1>3, <2>5, <2>7, JobsOnly DEF EndCheck, rowVars
<1> QED BY <1>2, <1>3

(* An empty catalogue is sound. *)
LEMMA OutcomesStart == OutcomesInit => OutcomesInv
<1> SUFFICES ASSUME OutcomesInit PROVE OutcomesInv
  OBVIOUS
<1> DEFINE job0 == [state |-> "none", made |-> 0, left |-> {}, failed |-> FALSE]
<1>1. job0 \in CheckJob /\ job0.state = "none"
  BY BoundsAssumption DEF CheckJob, BoundsAssumption
<1>2. /\ check \in [Snapshots -> CheckJob]
      /\ \A s \in Snapshots : check[s].state # "waiting"
  <2>1. check = [s \in Snapshots |-> job0]
    BY DEF OutcomesInit
  <2> HIDE DEF job0
  <2> QED BY <1>1, <2>1
<1>3. faults \in 0..MaxFaults /\ calls \in Nat
  BY FaultsAssumption DEF OutcomesInit, BoundsInit, FaultsAssumption
<1>4. OutcomesTypeOK
  BY <1>2, <1>3, OutcomesAssumption
     DEF OutcomesInit, OutcomesTypeOK, Marks, StoreStates, OutcomesAssumption
<1>5. RowsMatchReading
  <2>1. \A s \in Snapshots, r \in Releases : RowsOf(s, r) = {} /\ kind[s][r] # "COMPLETED"
    BY DEF OutcomesInit, RowsOf, Keys
  <2> QED BY <2>1 DEF RowsMatchReading
<1>6. ColumnsIndependent /\ AbsentReset
  BY DEF ColumnsIndependent, AbsentReset, OutcomesInit
<1> QED BY <1>2, <1>4, <1>5, <1>6 DEF OutcomesInv, OutcomesSound

(* Every writer keeps the catalogue sound. *)
LEMMA OutcomesStep ==
  ASSUME OutcomesInv, [OutcomesNext]_outcomeVars
  PROVE  OutcomesInv'
<1>1. CASE UNCHANGED outcomeVars
  BY <1>1 DEF outcomeVars, outcomeState, boundVars, OutcomesInv, OutcomesTypeOK, OutcomesSound,
     RowsMatchReading, RowsOf, ColumnsIndependent, AbsentReset
<1>2. CASE OutcomesNext
  BY <1>2, PersistStep, CarryStep, LyricPageStep, CheckStep, MarkStep, LyricScanSteps,
     RequestSteps, CheckJobSteps DEF OutcomesNext
<1> QED BY <1>1, <1>2

(* However often finalizers are replayed and whatever lyric scans, lyric   *)
(* checks and people write in between, the track rows are exactly those of *)
(* the last finalized reading and no writer's column is lost               *)
(* (DistroKidOutcomeRepository).                                           *)
THEOREM RowsSound == OutcomesSpec => [](OutcomesTypeOK /\ OutcomesSound)
<1>1. OutcomesInv => OutcomesTypeOK /\ OutcomesSound
  BY DEF OutcomesInv
<1> QED BY OutcomesStart, OutcomesStep, <1>1, PTL DEF OutcomesSpec

-----------------------------------------------------------------------------
(* The verdict cells of a search record.                                   *)

PlanCovers(r) == r.pending # {} => r.pending \cup r.done = Stores

(* Nothing that was verified is lost and the catalogue stays the same. *)
Keeps(r, q) ==
  /\ q.size = r.size
  /\ \A t \in Tracks, s \in Stores :
       /\ r.cell[t][s] # "none" => q.cell[t][s] # "none"
       /\ Backed(r, t, s) => Backed(q, t, s)

(* An attempt accounts for every store. *)
WorkerPlan(w) ==
  /\ RecordBacked(w.seen) /\ PlanCovers(w.seen)
  /\ w.done \cup w.failed \cup w.todo = Stores
  /\ w.seen.done \subseteq w.done
  /\ w.pc \in {"empty", "budget", "begin"} =>
       w.done = w.seen.done /\ w.todo = Targets(w.seen)
  /\ w.pc = "empty" => w.todo = {} \/ w.seen.size = 0
  /\ w.pc \in {"scan", "platform"} => w.todo # {}
  /\ w.pc = "platform" => Min(w.todo) \in w.done \cup w.failed
  /\ w.pc = "finish" => w.todo = {}
  /\ w.pc = "scan" => w.known \subseteq 1..w.seen.size

(* What an attempt counts as verified, the record shows. *)
WorkerBacked(w, r) ==
  /\ Keeps(w.seen, r)
  /\ \A s \in w.done, t \in 1..r.size : Backed(r, t, s)
  /\ w.pc = "scan" => \A t \in w.known : Backed(r, t, Min(w.todo))

(* Before the finalizer projected, nothing else touches the record; after  *)
(* it, the record shows that it did.                                       *)
Untouched ==
  \A i \in SearchIds : rec[i] # None =>
     IF rec[i].reading
     THEN /\ i = ConnectId /\ rec[i] = ReadingRecord /\ run[i] = None
          /\ job[i].state = "none" /\ final = "idle"
          /\ \A q \in Requests : api[q].pc # "idle" => api[q].id # i
     ELSE i = ConnectId => rec[i].status # "absent"

(* Ids are never used twice. *)
UsedIds ==
  /\ \A i \in SearchIds : rec[i] # None \/ run[i] # None => i \in used
  /\ \A q \in Requests : api[q].pc # "idle" => api[q].id \in used
  /\ ConnectId \in used

AttemptsLeft ==
  \A i \in SearchIds : job[i].state = "waiting" => job[i].made < MaxAttempts + faults

WorkersBacked ==
  \A i \in SearchIds : run[i] # None =>
    WorkerPlan(run[i]) /\ (rec[i] # None => WorkerBacked(run[i], rec[i]))

PresenceInv ==
  /\ PresenceTypeOK /\ AttemptsLeft
  /\ VerdictsBacked /\ \A i \in SearchIds : rec[i] # None => PlanCovers(rec[i])
  /\ Untouched /\ UsedIds
  /\ WorkersBacked

-----------------------------------------------------------------------------
(* Chunks. *)

(* The position of a store or of a track. *)
LEMMA LeastStore ==
  ASSUME NEW T \in SUBSET Stores, T # {}
  PROVE  Min(T) \in T
<1>1. T \subseteq Nat
  BY DEF Stores
<1>2. \E m \in T : \A n \in T : m <= n
  BY <1>1, HasLeast
<1> QED BY <1>2 DEF Min

(* The next chunk ends where the verified prefix ends once it is read. *)
LEMMA NextChunkShape ==
  ASSUME NEW n \in 0..MaxTracks, NEW w, w.seen.size = n, w.known \subseteq 1..n,
         ~(1..n \subseteq w.known)
  PROVE  /\ NextChunk(w) \subseteq 1..n
         /\ Max(NextChunk(w)) \in 1..n
         /\ \A t \in 1..n : t <= Max(NextChunk(w)) => t \in w.known \cup NextChunk(w)
<1>0. ChunkSize \in Nat \ {0} /\ n \in Nat /\ MaxTracks \in Nat
  BY PresenceAssumption, BoundsAssumption DEF PresenceAssumption, BoundsAssumption
<1> DEFINE ChunkOf(t) == (t - 1) \div ChunkSize
           C(k) == {t \in 1..n : ChunkOf(t) = k}
<1>1. Chunks(n) = {C(k) : k \in {ChunkOf(t) : t \in 1..n}}
  BY DEF Chunks
<1>2. \A t \in 1..n : ChunkOf(t) \in Nat
  BY <1>0
<1>3. \A t, v \in 1..n : t <= v => ChunkOf(t) <= ChunkOf(v)
  BY <1>0
<1> HIDE DEF ChunkOf
<1>4. PICK v \in 1..n \ w.known : \A t \in 1..n \ w.known : v <= t
  <2>1. 1..n \ w.known \subseteq Nat /\ 1..n \ w.known # {}
    BY <1>0
  <2> QED BY <2>1, HasLeast
<1>5. ASSUME NEW d \in Chunks(n)
      PROVE  /\ d \subseteq 1..n /\ d # {} /\ Min(d) \in d /\ \A t \in d : Min(d) <= t
  <2>1. PICK u \in 1..n : d = C(ChunkOf(u))
    BY <1>1
  <2>2. u \in d /\ d \subseteq 1..n /\ d \subseteq Nat
    BY <2>1, <1>0
  <2>3. \E m \in d : \A t \in d : m <= t
    BY <2>2, HasLeast
  <2> QED BY <2>2, <2>3 DEF Min
<1>6. C(ChunkOf(v)) \in Chunks(n) /\ v \in C(ChunkOf(v))
  BY <1>1
<1>7. \A d \in Chunks(n) : Min(d) < Min(C(ChunkOf(v))) => d \subseteq w.known
  <2> SUFFICES ASSUME NEW d \in Chunks(n), Min(d) < Min(C(ChunkOf(v))),
                      NEW t \in d, t \notin w.known
               PROVE  FALSE
    OBVIOUS
  <2>1. t \in 1..n /\ v <= t /\ Min(d) \in 1..n /\ Min(C(ChunkOf(v))) \in 1..n
    BY <1>4, <1>5, <1>6
  <2>2. PICK u \in 1..n : d = C(ChunkOf(u))
    BY <1>1
  <2>3. ChunkOf(t) = ChunkOf(u) /\ ChunkOf(Min(d)) = ChunkOf(u)
    BY <1>5, <2>2
  <2>4. ChunkOf(v) <= ChunkOf(t)
    BY <1>3, <2>1
  <2>5. Min(C(ChunkOf(v))) <= v
    BY <1>5, <1>6
  <2>6. ChunkOf(Min(d)) <= ChunkOf(v)
    BY <1>3, <2>1, <2>5, <1>0
  <2>7. ChunkOf(u) = ChunkOf(v)
    BY <2>3, <2>4, <2>6, <1>2
  <2> QED BY <2>1, <2>2, <2>7, <1>0
<1>8. NextChunk(w) = CHOOSE c \in Chunks(n) :
        /\ ~(c \subseteq w.known)
        /\ \A d \in Chunks(n) : Min(d) < Min(c) => d \subseteq w.known
  BY DEF NextChunk
<1>9. /\ NextChunk(w) \in Chunks(n) /\ ~(NextChunk(w) \subseteq w.known)
      /\ \A d \in Chunks(n) : Min(d) < Min(NextChunk(w)) => d \subseteq w.known
  <2>1. ~(C(ChunkOf(v)) \subseteq w.known)
    BY <1>4, <1>6
  <2> HIDE DEF C
  <2> QED BY <2>1, <1>6, <1>7, <1>8
<1> DEFINE c == NextChunk(w)
<1>10. c \in Chunks(n) /\ \A d \in Chunks(n) : Min(d) < Min(c) => d \subseteq w.known
  BY <1>9
<1> HIDE DEF c
<1>11. Max(c) \in c /\ \A t \in c : t <= Max(c)
  <2>1. c \subseteq 1..n /\ c # {}
    BY <1>5, <1>10
  <2>2. PICK m \in c : \A t \in c : t <= m
    <3>1. IsFiniteSet(1..n) /\ 1..n \subseteq Nat
      BY <1>0, FS_Interval
    <3>2. c \subseteq Nat /\ IsFiniteSet(c)
      BY <2>1, <3>1, FS_Subset
    <3> QED BY <2>1, <3>2, HasGreatest
  <2> QED BY <2>1, <2>2, <1>0 DEF Max
<1>12. ASSUME NEW t \in 1..n, t <= Max(c), t \notin c PROVE t \in w.known
  <2> DEFINE d == C(ChunkOf(t))
  <2>1. d \in Chunks(n) /\ t \in d /\ Min(d) \in d /\ Min(d) <= t
    BY <1>1, <1>5
  <2>2. PICK u \in 1..n : c = C(ChunkOf(u))
    BY <1>1, <1>10
  <2>3. ChunkOf(Max(c)) = ChunkOf(u) /\ ChunkOf(Min(c)) = ChunkOf(u) /\ Max(c) \in 1..n /\ Min(c) \in 1..n
    BY <1>5, <1>10, <1>11, <2>2
  <2>4. ChunkOf(t) <= ChunkOf(u) /\ ChunkOf(t) # ChunkOf(u)
    BY <1>3, <1>12, <2>2, <2>3
  <2>5. Min(d) \in 1..n /\ ChunkOf(Min(d)) = ChunkOf(t)
    BY <2>1
  <2>6. ~(Min(c) <= Min(d))
    BY <1>3, <1>2, <2>3, <2>4, <2>5
  <2>7. Min(d) < Min(c)
    BY <2>3, <2>5, <2>6, <1>0
  <2> QED BY <1>10, <2>1, <2>7
<1> QED BY <1>5, <1>10, <1>11, <1>12 DEF c

-----------------------------------------------------------------------------
(* Updates of a record. *)

(* A later update of a record that the scan has left behind as projected. *)
Updated(r, q) ==
  /\ ~r.reading /\ ~q.reading
  /\ q \in SearchRecord /\ Keeps(r, q)
  /\ RecordBacked(q) /\ PlanCovers(q)
  /\ q.status = "absent" => r.status = "absent"

(* A record that is created or projected: nobody works on it yet. *)
Started(r, q) ==
  /\ r = None \/ r.reading
  /\ q \in SearchRecord /\ ~q.reading
  /\ RecordBacked(q) /\ PlanCovers(q)

RecordChange(i) ==
  \/ rec'[i] = rec[i]
  \/ rec'[i] = None
  \/ rec[i] # None /\ Updated(rec[i], rec'[i])
  \/ (i \notin used \/ i = ConnectId) /\ run[i] = None /\ Started(rec[i], rec'[i])

RunChange(i) ==
  \/ run'[i] = run[i]
  \/ run'[i] = None
  \/ WorkerPlan(run'[i]) /\ (rec'[i] # None => WorkerBacked(run'[i], rec'[i]))

CellsKept ==
  \A i \in SearchIds : rec[i] # None /\ rec'[i] # None =>
    \A t \in Tracks, s \in Stores :
      rec[i].cell[t][s] # "none" => rec'[i].cell[t][s] # "none"

PresenceStep == PresenceInv' /\ CellsKept

(* A record's catalogue fits the track positions. *)
LEMMA SizeOfTracks ==
  ASSUME NEW r \in SearchRecord
  PROVE  1..r.size \subseteq Tracks /\ r.size \in 0..MaxTracks /\ MaxTracks \in Nat
<1>1. MaxTracks \in Nat /\ r.size \in 0..MaxTracks
  BY BoundsAssumption DEF BoundsAssumption, SearchRecord
<1> QED BY <1>1 DEF Tracks

(* What two updates each keep, both together keep. *)
LEMMA KeepsTransitive ==
  ASSUME NEW r, NEW q, NEW p, Keeps(r, q), Keeps(q, p)
  PROVE  Keeps(r, p)
BY DEF Keeps

(* An update that keeps the verdicts keeps what an attempt counts on. *)
LEMMA WorkerKept ==
  ASSUME NEW w \in Worker, NEW r \in SearchRecord, NEW q \in SearchRecord,
         WorkerPlan(w), WorkerBacked(w, r), Keeps(r, q)
  PROVE  WorkerBacked(w, q)
<1>1. Keeps(w.seen, q)
  BY KeepsTransitive DEF WorkerBacked
<1>2. \A s \in w.done, t \in 1..q.size : Backed(q, t, s)
  <2>1. 1..r.size \subseteq Tracks /\ w.done \subseteq Stores /\ q.size = r.size
    BY SizeOfTracks DEF Worker, Keeps
  <2> QED BY <2>1 DEF WorkerBacked, Keeps
<1>3. ASSUME w.pc = "scan" PROVE \A t \in w.known : Backed(q, t, Min(w.todo))
  <2>1. w.todo \in SUBSET Stores /\ w.todo # {} /\ w.known \subseteq Tracks
    BY <1>3 DEF Worker, WorkerPlan
  <2>2. Min(w.todo) \in Stores
    BY <2>1, LeastStore
  <2> QED BY <1>3, <2>1, <2>2 DEF WorkerBacked, Keeps
<1> QED BY <1>1, <1>2, <1>3 DEF WorkerBacked

(* What a step has to show, record by record. *)
LEMMA PresenceKept ==
  ASSUME PresenceInv,
         PresenceTypeOK', AttemptsLeft', UsedIds', Untouched',
         \A i \in SearchIds : RecordChange(i) /\ RunChange(i)
  PROVE  PresenceStep
<1>0. /\ rec \in [SearchIds -> SearchRecord \cup {None}]
      /\ rec' \in [SearchIds -> SearchRecord \cup {None}]
      /\ run \in [SearchIds -> Worker \cup {None}]
  BY DEF PresenceInv, PresenceTypeOK
<1>1. ASSUME NEW i \in SearchIds, rec'[i] # None
      PROVE  RecordBacked(rec'[i]) /\ PlanCovers(rec'[i])
  <2>1. RecordChange(i)
    OBVIOUS
  <2>2. rec[i] # None => RecordBacked(rec[i]) /\ PlanCovers(rec[i])
    BY DEF PresenceInv, VerdictsBacked
  <2> QED BY <1>1, <2>1, <2>2 DEF RecordChange, Updated, Started
<1>2. ASSUME NEW i \in SearchIds, run'[i] # None
      PROVE  WorkerPlan(run'[i]) /\ (rec'[i] # None => WorkerBacked(run'[i], rec'[i]))
  <2>1. CASE run'[i] = run[i]
    <3>1. /\ run[i] \in Worker /\ WorkerPlan(run[i]) /\ i \in used
          /\ rec[i] # None => WorkerBacked(run[i], rec[i])
      BY <1>0, <1>2, <2>1 DEF PresenceInv, WorkersBacked, UsedIds
    <3>2. ASSUME rec'[i] # None PROVE WorkerBacked(run[i], rec'[i])
      <4>1. rec'[i] = rec[i] \/ (rec[i] # None /\ Updated(rec[i], rec'[i]))
        BY <1>2, <2>1, <3>1, <3>2 DEF RecordChange
      <4>2. CASE rec'[i] = rec[i]
        BY <3>1, <3>2, <4>2
      <4>3. CASE rec[i] # None /\ Updated(rec[i], rec'[i])
        <5>1. rec[i] \in SearchRecord /\ rec'[i] \in SearchRecord /\ Keeps(rec[i], rec'[i])
          BY <1>0, <4>3 DEF Updated
        <5> QED BY <3>1, <4>3, <5>1, WorkerKept
      <4> QED BY <4>1, <4>2, <4>3
    <3> QED BY <2>1, <3>1, <3>2
  <2>2. CASE run'[i] # run[i]
    BY <1>2, <2>2 DEF RunChange
  <2> QED BY <2>1, <2>2
<1>3. CellsKept
  <2> SUFFICES ASSUME NEW i \in SearchIds, rec[i] # None, rec'[i] # None,
                      NEW t \in Tracks, NEW s \in Stores, rec[i].cell[t][s] # "none"
               PROVE  rec'[i].cell[t][s] # "none"
    BY DEF CellsKept
  <2>1. RecordChange(i) /\ i \in used
    BY DEF PresenceInv, UsedIds
  <2>2. CASE rec[i].reading
    <3>1. rec[i].cell = Blank
      BY <2>2 DEF PresenceInv, Untouched, ReadingRecord
    <3> QED BY <3>1 DEF Blank
  <2>3. CASE ~rec[i].reading
    BY <2>1, <2>3 DEF RecordChange, Updated, Started, Keeps
  <2> QED BY <2>2, <2>3
<1> QED BY <1>1, <1>2, <1>3 DEF PresenceStep, PresenceInv, VerdictsBacked, WorkersBacked

(* The shape of each update. *)
LEMMA ProgressWritten ==
  ASSUME NEW r \in SearchRecord, ~r.reading, RecordBacked(r),
         NEW st \in Statuses \ {"absent"}, NEW p \in SUBSET Stores, NEW d \in SUBSET Stores,
         NEW q, q = [r EXCEPT !.status = st, !.pending = p, !.done = d],
         p # {} => p \cup d = Stores,
         st = "done" /\ r.size > 0 => d = Stores,
         \A s \in d, t \in 1..r.size : Backed(r, t, s)
  PROVE  Updated(r, q)
<1>1. /\ q \in SearchRecord /\ q.reading = r.reading /\ q.size = r.size /\ q.prefix = r.prefix
      /\ q.cell = r.cell /\ q.status = st /\ q.pending = p /\ q.done = d
  BY DEF SearchRecord
<1>2. Keeps(r, q) /\ RecordBacked(q) /\ PlanCovers(q)
  BY <1>1 DEF Keeps, RecordBacked, PlanCovers, Backed
<1> QED BY <1>1, <1>2 DEF Updated

(* A check that starts over or is queued forgets every prefix. *)
LEMMA ProgressDropped ==
  ASSUME NEW r \in SearchRecord, ~r.reading,
         NEW st \in {"idle", "queued", "error"}, NEW p \in SUBSET Stores,
         NEW d \in SUBSET Stores,
         NEW q, q = [r EXCEPT !.status = st, !.pending = p, !.done = d, !.prefix = NoPrefix],
         p # {} => p \cup d = Stores,
         \A s \in d, t \in 1..r.size : Backed(r, t, s)
  PROVE  Updated(r, q)
<1>1. NoPrefix \in [Stores -> 0..MaxTracks]
  BY BoundsAssumption DEF BoundsAssumption, NoPrefix
<1>2. /\ q \in SearchRecord /\ q.reading = r.reading /\ q.size = r.size /\ q.prefix = NoPrefix
      /\ q.cell = r.cell /\ q.status = st /\ q.pending = p /\ q.done = d
  BY <1>1 DEF SearchRecord, Statuses
<1>3. \A t \in 1..r.size, s \in Stores : ~(t <= NoPrefix[s])
  BY SizeOfTracks DEF NoPrefix
<1>4. Keeps(r, q) /\ RecordBacked(q) /\ PlanCovers(q)
  BY <1>2, <1>3 DEF Keeps, RecordBacked, PlanCovers, Backed
<1> QED BY <1>2, <1>4 DEF Updated

(* The fast pass claims nothing as verified. *)
LEMMA FastRecordStarted ==
  ASSUME NEW n \in 0..MaxTracks, NEW q, q = FastRecord(n)
  PROVE  Started(None, q)
<1>1. NoPrefix \in [Stores -> 0..MaxTracks] /\ \A t \in 1..n, s \in Stores : ~(t <= NoPrefix[s])
  BY BoundsAssumption DEF BoundsAssumption, NoPrefix
<1> DEFINE c == [t \in Tracks |-> [s \in Stores |-> IF t <= n /\ s = 1 THEN "fast" ELSE "none"]]
<1>2. c \in [Tracks -> [Stores -> Cells]]
  BY DEF Cells
<1> HIDE DEF c
<1>3. /\ q.reading = FALSE /\ q.size = n /\ q.status = "absent" /\ q.pending = {} /\ q.done = {}
      /\ q.prefix = NoPrefix /\ q.cell = c /\ q \in SearchRecord
  BY <1>1, <1>2 DEF FastRecord, ReadingRecord, SearchRecord, Statuses, c
<1> QED BY <1>1, <1>3 DEF Started, RecordBacked, PlanCovers

(* The first finalizer's record. *)
LEMMA ProjectionStarted ==
  ASSUME NEW n \in 0..MaxTracks, NEW auto \in BOOLEAN, NEW r \in SearchRecord, r.reading,
         NEW q, q = Projected(r, n, auto)
  PROVE  Started(r, q) /\ q.status # "absent" /\ q.size = n
<1>1. NoPrefix \in [Stores -> 0..MaxTracks] /\ \A t \in 1..n, s \in Stores : ~(t <= NoPrefix[s])
  BY BoundsAssumption DEF BoundsAssumption, NoPrefix
<1>2. Blank \in [Tracks -> [Stores -> Cells]]
  BY DEF Blank, Cells
<1>3. PICK st \in Statuses : /\ st = IF n = 0 THEN "done" ELSE IF auto THEN "queued" ELSE "unchecked"
  BY DEF Statuses
<1>4. q = [ReadingRecord EXCEPT !.reading = FALSE, !.size = n, !.status = st]
  BY <1>3 DEF Projected, AlreadyProjected
<1>5. /\ q.reading = FALSE /\ q.size = n /\ q.status = st /\ q.pending = {} /\ q.done = {}
      /\ q.prefix = NoPrefix /\ q.cell = Blank /\ q \in SearchRecord
  BY <1>1, <1>2, <1>4 DEF ReadingRecord, SearchRecord
<1>6. st # "absent" /\ (st = "done" => n = 0)
  BY <1>3
<1> QED BY <1>1, <1>5, <1>6 DEF Started, RecordBacked, PlanCovers

(* A reviewer's decision counts as verified. *)
LEMMA ReviewWritten ==
  ASSUME NEW r \in SearchRecord, ~r.reading, RecordBacked(r), PlanCovers(r),
         NEW t \in Tracks, NEW s \in Stores, NEW q, q = Decided(r, t, s)
  PROVE  Updated(r, q)
<1> DEFINE c == [r.cell EXCEPT ![t][s] = "human"]
<1>0. r.cell \in [Tracks -> [Stores -> Cells]]
  BY DEF SearchRecord
<1>1. /\ c \in [Tracks -> [Stores -> Cells]]
      /\ \A u \in Tracks, v \in Stores : c[u][v] = "human" \/ c[u][v] = r.cell[u][v]
  BY <1>0 DEF Cells
<1>2. q = [r EXCEPT !.cell = c]
  BY DEF Decided, SearchRecord
<1> HIDE DEF c
<1>3. /\ q \in SearchRecord /\ q.reading = r.reading /\ q.size = r.size /\ q.prefix = r.prefix
      /\ q.cell = c /\ q.status = r.status /\ q.pending = r.pending /\ q.done = r.done
  BY <1>1, <1>2 DEF SearchRecord
<1>4. \A u \in Tracks, v \in Stores :
         /\ r.cell[u][v] # "none" => q.cell[u][v] # "none"
         /\ Backed(r, u, v) => Backed(q, u, v)
  BY <1>1, <1>3 DEF Backed
<1>5. RecordBacked(q)
  BY <1>3, <1>4, SizeOfTracks DEF RecordBacked
<1> QED BY <1>3, <1>4, <1>5 DEF Updated, Keeps, PlanCovers

(* A checkpointed chunk: the verdicts the attempt holds and the prefix they *)
(* end at.                                                                 *)
LEMMA ChunkWritten ==
  ASSUME NEW r \in SearchRecord, ~r.reading, RecordBacked(r), PlanCovers(r),
         NEW s \in Stores, NEW known \in SUBSET Tracks, NEW m \in 0..MaxTracks,
         \A t \in 1..r.size : t <= m => t \in known,
         NEW q, q = [MergePlatform(r, s, known) EXCEPT !.prefix[s] = m]
  PROVE  Updated(r, q) /\ \A t \in known : Backed(q, t, s)
<1> DEFINE c == [t \in Tracks |-> IF t \in known THEN [r.cell[t] EXCEPT ![s] = "deep"] ELSE r.cell[t]]
           x == [r.prefix EXCEPT ![s] = m]
<1>0. r.cell \in [Tracks -> [Stores -> Cells]] /\ r.prefix \in [Stores -> 0..MaxTracks]
  BY DEF SearchRecord
<1>1. /\ c \in [Tracks -> [Stores -> Cells]]
      /\ \A u \in Tracks, v \in Stores : c[u][v] = "deep" \/ c[u][v] = r.cell[u][v]
      /\ \A t \in known : c[t][s] = "deep"
  BY <1>0 DEF Cells
<1>2. x \in [Stores -> 0..MaxTracks] /\ x[s] = m /\ \A v \in Stores \ {s} : x[v] = r.prefix[v]
  BY <1>0
<1>3. MergePlatform(r, s, known) = [r EXCEPT !.cell = c]
  BY DEF MergePlatform, SearchRecord
<1> HIDE DEF c
<1>4. [r EXCEPT !.cell = c].prefix = r.prefix
  BY DEF SearchRecord
<1>5. q = [r EXCEPT !.cell = c, !.prefix = x]
  BY <1>3, <1>4 DEF SearchRecord
<1> HIDE DEF x
<1>6. /\ q \in SearchRecord /\ q.reading = r.reading /\ q.size = r.size /\ q.prefix = x
      /\ q.cell = c /\ q.status = r.status /\ q.pending = r.pending /\ q.done = r.done
  BY <1>1, <1>2, <1>5 DEF SearchRecord
<1>7. \A u \in Tracks, v \in Stores :
         /\ r.cell[u][v] # "none" => q.cell[u][v] # "none"
         /\ Backed(r, u, v) => Backed(q, u, v)
  BY <1>1, <1>6 DEF Backed
<1>8. \A t \in known : Backed(q, t, s)
  BY <1>1, <1>6 DEF Backed
<1>9. RecordBacked(q)
  <2>1. 1..q.size \subseteq Tracks /\ 1..r.size = 1..q.size
    BY <1>6, SizeOfTracks
  <2>2. ASSUME NEW v \in Stores, NEW t \in 1..q.size, t <= q.prefix[v] \/ v \in q.done
        PROVE  Backed(q, t, v)
    <3>1. CASE t <= r.prefix[v] \/ v \in r.done
      BY <1>7, <2>1, <3>1 DEF RecordBacked
    <3>2. CASE ~(t <= r.prefix[v] \/ v \in r.done)
      <4>1. v = s /\ t <= m
        BY <1>2, <1>6, <2>2, <3>2
      <4> QED BY <1>8, <2>1, <4>1
    <3> QED BY <3>1, <3>2
  <2>3. q.status = "done" /\ q.size > 0 => q.done = Stores
    BY <1>6 DEF RecordBacked
  <2> QED BY <2>2, <2>3 DEF RecordBacked
<1> QED BY <1>6, <1>7, <1>8, <1>9 DEF Updated, Keeps, PlanCovers

(* The checkpoint after a store. *)
LEMMA CheckpointWritten ==
  ASSUME NEW r \in SearchRecord, ~r.reading, RecordBacked(r),
         NEW w \in Worker, NEW s \in Stores, w.seen.size = r.size,
         Targets(w.seen) \subseteq Stores,
         Targets(w.seen) \cup w.done = Stores,
         \A v \in w.done, t \in 1..r.size : Backed(r, t, v),
         NEW q, q = PlatformCheckpoint(r, w, s)
  PROVE  Updated(r, q)
<1> DEFINE p == Targets(w.seen) \ w.done
           m == IF s \in w.done THEN w.seen.size ELSE r.prefix[s]
           x == [r.prefix EXCEPT ![s] = m]
<1>0. /\ r.prefix \in [Stores -> 0..MaxTracks] /\ r.size \in 0..MaxTracks
      /\ w.done \in SUBSET Stores
  BY DEF SearchRecord, Worker
<1>1. x \in [Stores -> 0..MaxTracks] /\ x[s] = m /\ \A v \in Stores \ {s} : x[v] = r.prefix[v]
  BY <1>0
<1>2. p \in SUBSET Stores /\ p \cup w.done = Stores
  BY <1>0
<1>3. q = [r EXCEPT !.status = "running", !.done = w.done, !.pending = p, !.prefix = x]
  BY DEF PlatformCheckpoint, SearchRecord
<1> HIDE DEF x, p
<1>4. /\ q \in SearchRecord /\ q.reading = r.reading /\ q.size = r.size /\ q.prefix = x
      /\ q.cell = r.cell /\ q.status = "running" /\ q.pending = p /\ q.done = w.done
  BY <1>0, <1>1, <1>2, <1>3 DEF SearchRecord, Statuses
<1>5. \A v \in Stores, t \in 1..q.size : t <= q.prefix[v] \/ v \in q.done => Backed(q, t, v)
  BY <1>1, <1>4 DEF RecordBacked, Backed
<1> QED BY <1>2, <1>4, <1>5 DEF Updated, Keeps, RecordBacked, PlanCovers, Backed

-----------------------------------------------------------------------------
(* What the worker holds. *)

(* The stores an attempt takes on and those that are done are all of them. *)
LEMMA TargetsShape ==
  ASSUME NEW r \in SearchRecord, PlanCovers(r)
  PROVE  /\ Targets(r) \subseteq Stores /\ Targets(r) \cup r.done = Stores
         /\ Targets(r) = {} => r.done = Stores
BY DEF Targets, Resumable, PlanCovers, SearchRecord

(* An attempt begins with what the record shows. *)
LEMMA WorkerBegins ==
  ASSUME NEW r \in SearchRecord, RecordBacked(r), PlanCovers(r),
         NEW w, w = Begin(r)
  PROVE  w \in Worker /\ WorkerPlan(w) /\ WorkerBacked(w, r)
<1>1. PICK pc \in {"empty", "budget", "begin"} :
        pc = IF Targets(r) = {} \/ r.size = 0 THEN "empty"
             ELSE IF r.size > TrackBudget THEN "budget" ELSE "begin"
  OBVIOUS
<1>2. r.done \in SUBSET Stores
  BY DEF SearchRecord
<1>3. /\ w \in Worker /\ w.pc = pc /\ w.seen = r /\ w.todo = Targets(r) /\ w.done = r.done
      /\ w.failed = {} /\ w.known = {}
  BY <1>1, <1>2, TargetsShape DEF Begin, Worker
<1>4. WorkerPlan(w)
  BY <1>1, <1>3, TargetsShape DEF WorkerPlan
<1>5. WorkerBacked(w, r)
  <2>1. \A s \in w.done, t \in 1..r.size : Backed(r, t, s)
    BY <1>2, <1>3 DEF RecordBacked
  <2> QED BY <1>1, <1>3, <2>1 DEF WorkerBacked, Keeps
<1> QED BY <1>3, <1>4, <1>5

(* The tracks that an attempt takes over are verified in what it read. *)
LEMMA VerifiedShape ==
  ASSUME NEW r \in SearchRecord, RecordBacked(r), NEW s \in Stores
  PROVE  Verified(r, s) \subseteq 1..r.size /\ \A t \in Verified(r, s) : Backed(r, t, s)
BY DEF Verified, RecordBacked

(* Only verdicts that the record showed when the attempt began are carried. *)
LEMMA StoreEntered ==
  ASSUME NEW w \in Worker, NEW r,
         RecordBacked(w.seen) /\ PlanCovers(w.seen), w.seen.done \subseteq w.done,
         w.done \cup w.failed \cup w.todo = Stores,
         NEW v, v = EnterStore(w)
  PROVE  /\ v \in Worker /\ WorkerPlan(v)
         /\ Keeps(w.seen, r) /\ (\A s \in w.done, t \in 1..r.size : Backed(r, t, s)) =>
              WorkerBacked(v, r)
<1>1. w.seen \in SearchRecord /\ w.todo \in SUBSET Stores
  BY DEF Worker
<1>2. CASE w.todo = {}
  <2>1. /\ v \in Worker /\ v.pc = "finish" /\ v.seen = w.seen /\ v.todo = w.todo
        /\ v.done = w.done /\ v.failed = w.failed
    BY <1>2 DEF EnterStore, Worker
  <2> QED BY <1>2, <2>1 DEF WorkerPlan, WorkerBacked
<1>3. CASE w.todo # {}
  <2>1. Min(w.todo) \in w.todo
    BY <1>1, <1>3, LeastStore
  <2> DEFINE k == Verified(w.seen, Min(w.todo))
  <2>2. k \subseteq 1..w.seen.size /\ \A t \in k : Backed(w.seen, t, Min(w.todo))
    BY <1>1, <2>1, VerifiedShape
  <2>3. v = [w EXCEPT !.pc = "scan", !.known = k]
    BY <1>3 DEF EnterStore
  <2> HIDE DEF k
  <2>4. k \in SUBSET Tracks
    BY <1>1, <2>2, SizeOfTracks
  <2>5. /\ v \in Worker /\ v.pc = "scan" /\ v.seen = w.seen /\ v.todo = w.todo
        /\ v.done = w.done /\ v.failed = w.failed /\ v.known = k
    BY <2>3, <2>4 DEF Worker
  <2>6. Keeps(w.seen, r) => \A t \in k : Backed(r, t, Min(w.todo))
    BY <1>1, <2>1, <2>2, <2>4 DEF Keeps
  <2> QED BY <1>3, <2>2, <2>5, <2>6 DEF WorkerPlan, WorkerBacked
<1> QED BY <1>2, <1>3

-----------------------------------------------------------------------------
(* What a caller, a worker and the finalizer may rely on. *)

(* A record that exists is sound. *)
LEMMA RecordKnown ==
  ASSUME PresenceInv, NEW i \in SearchIds, rec[i] # None
  PROVE  rec[i] \in SearchRecord /\ RecordBacked(rec[i]) /\ PlanCovers(rec[i]) /\ i \in used
BY DEF PresenceInv, PresenceTypeOK, VerdictsBacked, UsedIds

(* An attempt's record is projected and shows what the attempt counts on. *)
LEMMA WorkerKnown ==
  ASSUME PresenceInv, NEW i \in SearchIds, run[i] # None
  PROVE  /\ run[i] \in Worker /\ WorkerPlan(run[i]) /\ i \in used
         /\ rec[i] # None => ~rec[i].reading /\ WorkerBacked(run[i], rec[i])
BY DEF PresenceInv, PresenceTypeOK, WorkersBacked, Untouched, UsedIds

(* A request's record is projected. *)
LEMMA CallerKnown ==
  ASSUME PresenceInv, NEW q \in Requests, api[q].pc # "idle"
  PROVE  /\ api[q].id \in SearchIds /\ api[q].id \in used
         /\ rec[api[q].id] # None => ~rec[api[q].id].reading
BY DEF PresenceInv, PresenceTypeOK, Untouched, UsedIds

(* The connect handoff's record before the finalizer projected. *)
ConnectUntouched == rec[ConnectId] # None /\ rec[ConnectId].reading

NobodyAtConnect ==
  /\ run[ConnectId] = None /\ job[ConnectId].state = "none" /\ final = "idle"
  /\ \A q \in Requests : api[q].pc # "idle" => api[q].id # ConnectId

(* Before the finalizer projected, nobody works on the handoff's record. *)
LEMMA ConnectAlone ==
  ASSUME PresenceInv, ConnectUntouched
  PROVE  NobodyAtConnect /\ rec[ConnectId] = ReadingRecord
BY PresenceAssumption
   DEF PresenceAssumption, PresenceInv, Untouched, ConnectUntouched, NobodyAtConnect

(* No update makes a projected record look unread. *)
LEMMA UntouchedKept ==
  ASSUME PresenceInv,
         \A i \in SearchIds :
           \/ rec'[i] = rec[i] \/ rec'[i] = None
           \/ rec[i] # None /\ Updated(rec[i], rec'[i])
           \/ i # ConnectId /\ ~rec'[i].reading,
         ConnectUntouched => NobodyAtConnect'
  PROVE  Untouched'
<1> SUFFICES ASSUME NEW i \in SearchIds, rec'[i] # None
             PROVE  IF rec'[i].reading
                    THEN /\ i = ConnectId /\ rec'[i] = ReadingRecord /\ run'[i] = None
                         /\ job'[i].state = "none" /\ final' = "idle"
                         /\ \A q \in Requests : api'[q].pc # "idle" => api'[q].id # i
                    ELSE i = ConnectId => rec'[i].status # "absent"
  BY DEF Untouched
<1>1. rec[i] # None =>
        IF rec[i].reading THEN i = ConnectId /\ rec[i] = ReadingRecord
        ELSE i = ConnectId => rec[i].status # "absent"
  BY DEF PresenceInv, Untouched
<1>2. CASE rec'[i] = rec[i]
  BY <1>1, <1>2 DEF ConnectUntouched, NobodyAtConnect
<1>3. CASE rec[i] # None /\ Updated(rec[i], rec'[i])
  BY <1>1, <1>3 DEF Updated
<1>4. CASE i # ConnectId /\ ~rec'[i].reading
  BY <1>4
<1> QED BY <1>2, <1>3, <1>4

(* store.update changes one record, and only if it exists. *)
LEMMA PatchedRecord ==
  ASSUME PresenceInv, NEW i \in SearchIds, NEW x, Patch(i, x),
         rec[i] # None => Updated(rec[i], x)
  PROVE  /\ rec' \in [SearchIds -> SearchRecord \cup {None}]
         /\ \A j \in SearchIds : rec'[j] = rec[j] \/ (rec[j] # None /\ Updated(rec[j], rec'[j]))
         /\ \A j \in SearchIds : rec[j] = None => rec'[j] = None
<1>1. rec \in [SearchIds -> SearchRecord \cup {None}]
  BY DEF PresenceInv, PresenceTypeOK
<1>2. CASE rec[i] = None
  BY <1>1, <1>2 DEF Patch
<1>3. CASE rec[i] # None
  <2>1. rec' = [rec EXCEPT ![i] = x] /\ x \in SearchRecord
    BY <1>3 DEF Patch, Put, Updated
  <2> QED BY <1>1, <1>3, <2>1
<1> QED BY <1>2, <1>3

(* A job that changes, or none. *)
LEMMA JobWritten ==
  ASSUME PresenceTypeOK, AttemptsLeft, faults' \in 0..MaxFaults, faults <= faults',
         NEW i \in SearchIds, NEW j \in PresenceJob',
         j.state = "waiting" => j.made < MaxAttempts + faults',
         job' = [job EXCEPT ![i] = j] \/ job' = job
  PROVE  /\ (job \in [SearchIds -> PresenceJob])' /\ AttemptsLeft'
         /\ \A k \in SearchIds \ {i} : job'[k] = job[k]
<1>1. /\ MaxAttempts \in Nat /\ MaxFaults \in Nat /\ faults \in Nat /\ faults' \in Nat
      /\ job \in [SearchIds -> PresenceJob]
  BY FaultsAssumption, BoundsAssumption
     DEF FaultsAssumption, BoundsAssumption, PresenceTypeOK
<1>2. ASSUME NEW k \in SearchIds
      PROVE  /\ job[k] \in PresenceJob'
             /\ job[k].state = "waiting" => job[k].made < MaxAttempts + faults'
  <2>1. /\ job[k] \in PresenceJob /\ job[k].made \in 0..(MaxAttempts + faults)
        /\ job[k].state = "waiting" => job[k].made < MaxAttempts + faults
    BY <1>1 DEF PresenceJob, AttemptsLeft
  <2>2. job[k].made \in 0..(MaxAttempts + faults')
    BY <1>1, <2>1
  <2>3. job[k].state = "waiting" => job[k].made < MaxAttempts + faults'
    BY <1>1, <2>1
  <2> QED BY <2>1, <2>2, <2>3 DEF PresenceJob
<1>3. \A k \in SearchIds : job'[k] = job[k] \/ job'[k] = j
  BY <1>1
<1>4. (job \in [SearchIds -> PresenceJob])'
  BY <1>1, <1>2
<1>5. AttemptsLeft'
  BY <1>2, <1>3 DEF AttemptsLeft
<1> QED BY <1>1, <1>4, <1>5

FaultBudget == UNCHANGED faults \/ (faults < MaxFaults /\ faults' = faults + 1)

(* A fault stays within the bound. *)
LEMMA FaultCounted ==
  ASSUME PresenceInv, FaultBudget
  PROVE  faults' \in 0..MaxFaults /\ faults <= faults'
<1>1. faults \in 0..MaxFaults /\ MaxFaults \in Nat
  BY FaultsAssumption DEF FaultsAssumption, PresenceInv, PresenceTypeOK
<1> QED BY <1>1 DEF FaultBudget

(* Jobs that nobody touches stay as they are. *)
LEMMA JobsKept ==
  ASSUME PresenceInv, UNCHANGED job, FaultBudget
  PROVE  (job \in [SearchIds -> PresenceJob])' /\ AttemptsLeft'
<1> DEFINE j == [state |-> "none", made |-> 0]
<1>1. faults' \in 0..MaxFaults /\ faults <= faults'
  BY FaultCounted
<1>2. j \in PresenceJob' /\ j.state = "none"
  <2>1. MaxAttempts + faults' \in Nat
    <3>1. MaxAttempts \in Nat /\ MaxFaults \in Nat
      BY FaultsAssumption, BoundsAssumption DEF FaultsAssumption, BoundsAssumption
    <3>2. faults' \in Nat
      BY <1>1, <3>1
    <3>3. \A a, b \in Nat : a + b \in Nat
      OBVIOUS
    <3> QED BY <3>1, <3>2, <3>3
  <2> QED BY <2>1 DEF PresenceJob
<1> HIDE DEF j
<1>3. ConnectId \in SearchIds /\ PresenceTypeOK /\ AttemptsLeft
  BY PresenceAssumption DEF PresenceAssumption, PresenceInv
<1> QED BY <1>1, <1>2, <1>3, JobWritten

-----------------------------------------------------------------------------
(* The API requests. *)

(* What a step of a request may do. *)
RequestStep ==
  /\ api' \in [Requests -> ApiCall] /\ calls' \in Nat /\ FaultBudget
  /\ \A p \in Requests : api'[p].pc # "idle" =>
       \/ api[p].pc # "idle" /\ api'[p].id = api[p].id
       \/ api'[p].id \in used' /\ ~(ConnectUntouched /\ api'[p].id = ConnectId)
  /\ UNCHANGED workerVars
  /\ used \subseteq used' /\ used' \subseteq SearchIds
  /\ (job \in [SearchIds -> PresenceJob])' /\ AttemptsLeft'
  /\ ConnectUntouched => job'[ConnectId] = job[ConnectId]
  /\ rec' \in [SearchIds -> SearchRecord \cup {None}]
  /\ \A i \in SearchIds :
       \/ rec'[i] = rec[i] \/ rec'[i] = None
       \/ rec[i] # None /\ Updated(rec[i], rec'[i])
       \/ i \notin used /\ i \in used' /\ Started(None, rec'[i])

(* What a request does keeps the invariant. *)
LEMMA RequestKept ==
  ASSUME PresenceInv, RequestStep
  PROVE  PresenceStep
<1>1. PresenceTypeOK'
  <2>1. faults' \in 0..MaxFaults
    BY FaultCounted DEF RequestStep
  <2> QED BY <2>1 DEF RequestStep, PresenceInv, PresenceTypeOK, workerVars
<1>2. AttemptsLeft' /\ UNCHANGED run
  BY DEF RequestStep, workerVars
<1>3. UsedIds'
  <2>1. ASSUME NEW i \in SearchIds, rec'[i] # None \/ run'[i] # None PROVE i \in used'
    BY <1>2, <2>1 DEF RequestStep, PresenceInv, UsedIds
  <2>2. \A p \in Requests : api'[p].pc # "idle" => api'[p].id \in used'
    BY DEF RequestStep, PresenceInv, UsedIds
  <2> QED BY <2>1, <2>2 DEF RequestStep, PresenceInv, UsedIds
<1>4. Untouched'
  <2>1. \A i \in SearchIds :
          \/ rec'[i] = rec[i] \/ rec'[i] = None
          \/ rec[i] # None /\ Updated(rec[i], rec'[i])
          \/ i # ConnectId /\ ~rec'[i].reading
    BY DEF RequestStep, PresenceInv, UsedIds, Started
  <2>2. ConnectUntouched => NobodyAtConnect'
    BY ConnectAlone DEF NobodyAtConnect, RequestStep, workerVars
  <2> QED BY <2>1, <2>2, UntouchedKept
<1>5. ASSUME NEW i \in SearchIds PROVE RecordChange(i) /\ RunChange(i)
  <2>1. i \notin used => rec[i] = None /\ run[i] = None
    BY DEF PresenceInv, UsedIds
  <2> QED BY <1>2, <2>1 DEF RecordChange, RunChange, RequestStep
<1> QED BY <1>1, <1>2, <1>3, <1>4, <1>5, PresenceKept

(* A request that arrives. *)
LEMMA CallTaken ==
  ASSUME PresenceInv, NEW q \in Requests, NEW pc \in {"queue", "remove", "delete"},
         NEW i \in SearchIds, Call(q, pc, i)
  PROVE  /\ api' \in [Requests -> ApiCall] /\ calls' \in Nat
         /\ \A p \in Requests : api'[p].pc # "idle" =>
              (api[p].pc # "idle" /\ api'[p].id = api[p].id) \/ api'[p].id = i
<1>1. api \in [Requests -> ApiCall] /\ calls \in Nat /\ calls' = calls + 1
      /\ api' = [api EXCEPT ![q] = [pc |-> pc, id |-> i]]
  BY DEF PresenceInv, PresenceTypeOK, Call
<1>2. [pc |-> pc, id |-> i] \in ApiCall
  BY DEF ApiCall
<1> QED BY <1>1, <1>2

(* A request that moves on. *)
LEMMA CallMoved ==
  ASSUME PresenceInv, NEW q \in Requests, NEW from,
         NEW to \in {"idle", "queue", "reset", "dispatch", "rollback"}, Step(q, from, to)
  PROVE  /\ api' \in [Requests -> ApiCall] /\ api[q].pc = from
         /\ from # "idle" => \A p \in Requests : api'[p].pc # "idle" =>
              api[p].pc # "idle" /\ api'[p].id = api[p].id
<1>1. /\ api \in [Requests -> ApiCall] /\ api[q].pc = from
      /\ api' = [api EXCEPT ![q] = IF to = "idle" THEN Fresh ELSE [api[q] EXCEPT !.pc = to]]
  BY DEF PresenceInv, PresenceTypeOK, Step
<1>2. Fresh \in ApiCall /\ Fresh.pc = "idle"
  BY DEF Fresh, ApiCall
<1>3. [api[q] EXCEPT !.pc = to] \in ApiCall /\ [api[q] EXCEPT !.pc = to].id = api[q].id
  BY <1>1 DEF ApiCall
<1> QED BY <1>1, <1>2, <1>3

(* POST /api/searches and the rescan. *)
LEMMA NewRecords ==
  ASSUME PresenceInv, NEW q \in Requests, CreateSearch(q) \/ Rescan(q)
  PROVE  PresenceStep
<1>1. PICK i \in SearchIds \ used, n \in 0..MaxTracks :
        /\ Call(q, "queue", i) /\ Put(i, FastRecord(n)) /\ used' = used \cup {i}
        /\ UNCHANGED <<job, workerVars, faults>>
  <2>1. CASE CreateSearch(q)
    BY <2>1, PresenceAssumption DEF CreateSearch, PresenceAssumption
  <2>2. CASE Rescan(q)
    <3>1. PICK src \in SearchIds, i \in SearchIds \ used :
            /\ rec[src] # None
            /\ Call(q, "queue", i) /\ Put(i, FastRecord(rec[src].size)) /\ used' = used \cup {i}
            /\ UNCHANGED <<job, workerVars, faults>>
      BY <2>2 DEF Rescan
    <3>2. rec[src].size \in 0..MaxTracks
      BY <3>1, RecordKnown DEF SearchRecord
    <3> QED BY <3>1, <3>2
  <2> QED BY <2>1, <2>2
<1>2. Started(None, FastRecord(n)) /\ FastRecord(n) \in SearchRecord
  BY FastRecordStarted DEF Started
<1>3. rec' = [rec EXCEPT ![i] = FastRecord(n)] /\ rec \in [SearchIds -> SearchRecord \cup {None}]
  BY <1>1 DEF Put, PresenceInv, PresenceTypeOK
<1>4. i # ConnectId /\ used \subseteq SearchIds
  BY <1>1 DEF PresenceInv, UsedIds, PresenceTypeOK
<1>5. (job \in [SearchIds -> PresenceJob])' /\ AttemptsLeft'
  BY <1>1, JobsKept DEF FaultBudget
<1>6. /\ api' \in [Requests -> ApiCall] /\ calls' \in Nat
      /\ \A p \in Requests : api'[p].pc # "idle" =>
           (api[p].pc # "idle" /\ api'[p].id = api[p].id) \/ api'[p].id = i
  BY <1>1, CallTaken
<1>7. RequestStep
  BY <1>1, <1>2, <1>3, <1>4, <1>5, <1>6 DEF RequestStep, FaultBudget
<1> QED BY <1>7, RequestKept

(* Requests that leave the records alone. *)
LEMMA CallsTaken ==
  ASSUME PresenceInv, NEW q \in Requests, StoreCheck(q) \/ DeleteSearch(q)
  PROVE  PresenceStep
<1>1. PICK i \in SearchIds, pc \in {"remove", "delete"} :
        /\ rec[i] # None /\ ~Active(rec[i]) /\ Call(q, pc, i)
        /\ UNCHANGED <<rec, used, job, workerVars, faults>>
  BY DEF StoreCheck, DeleteSearch
<1>2. i \in used /\ ~rec[i].reading
  BY <1>1, RecordKnown DEF Active
<1>3. /\ rec' \in [SearchIds -> SearchRecord \cup {None}] /\ used \subseteq SearchIds
  BY <1>1 DEF PresenceInv, PresenceTypeOK
<1>4. (job \in [SearchIds -> PresenceJob])' /\ AttemptsLeft'
  BY <1>1, JobsKept DEF FaultBudget
<1>5. /\ api' \in [Requests -> ApiCall] /\ calls' \in Nat
      /\ \A p \in Requests : api'[p].pc # "idle" =>
           (api[p].pc # "idle" /\ api'[p].id = api[p].id) \/ api'[p].id = i
  BY <1>1, CallTaken
<1>6. RequestStep
  BY <1>1, <1>2, <1>3, <1>4, <1>5 DEF RequestStep, FaultBudget, ConnectUntouched
<1> QED BY <1>6, RequestKept

(* A job that is added or removed. *)
LEMMA JobSet ==
  ASSUME PresenceInv, NEW i \in SearchIds, NEW st \in {"none", "waiting"},
         UNCHANGED faults,
         job' = [job EXCEPT ![i] = [state |-> st, made |-> 0]] \/ job' = job
  PROVE  /\ (job \in [SearchIds -> PresenceJob])' /\ AttemptsLeft'
         /\ \A k \in SearchIds \ {i} : job'[k] = job[k]
<1> DEFINE j == [state |-> st, made |-> 0]
<1>1. faults' \in 0..MaxFaults /\ faults <= faults' /\ PresenceTypeOK /\ AttemptsLeft
  BY FaultCounted DEF FaultBudget, PresenceInv
<1>2. MaxAttempts \in Nat \ {0} /\ faults' \in Nat
  BY <1>1, FaultsAssumption, BoundsAssumption DEF FaultsAssumption, BoundsAssumption
<1>3. \A a, b \in Nat : a + b \in Nat /\ (a # 0 => 0 < a + b)
  OBVIOUS
<1>4. MaxAttempts + faults' \in Nat /\ 0 < MaxAttempts + faults'
  BY <1>2, <1>3
<1>5. j \in PresenceJob' /\ j.made = 0 /\ j.made < MaxAttempts + faults'
  BY <1>4 DEF PresenceJob
<1> HIDE DEF j
<1>6. job' = [job EXCEPT ![i] = j] \/ job' = job
  BY DEF j
<1> QED BY <1>1, <1>5, <1>6, JobWritten

(* A request removes or adds the job. *)
LEMMA JobRequests ==
  ASSUME PresenceInv, NEW q \in Requests, RemoveJob(q) \/ Dispatch(q)
  PROVE  PresenceStep
<1>1. PICK from \in {"remove", "dispatch"}, to \in {"reset", "idle"} : Step(q, from, to)
  BY DEF RemoveJob, Dispatch
<1>2. UNCHANGED <<rec, used, workerVars, calls, faults>>
  BY DEF RemoveJob, Dispatch
<1>3. /\ api' \in [Requests -> ApiCall] /\ api[q].pc # "idle"
      /\ \A p \in Requests : api'[p].pc # "idle" => api[p].pc # "idle" /\ api'[p].id = api[p].id
  BY <1>1, CallMoved
<1> DEFINE i == api[q].id
<1>4. i \in SearchIds /\ (ConnectUntouched => i # ConnectId)
  BY <1>3, CallerKnown DEF ConnectUntouched
<1>5. PICK st \in {"none", "waiting"} :
        job' = [job EXCEPT ![i] = [state |-> st, made |-> 0]] \/ job' = job
  BY DEF RemoveJob, Dispatch, Added
<1> HIDE DEF i
<1>6. /\ (job \in [SearchIds -> PresenceJob])' /\ AttemptsLeft'
      /\ \A k \in SearchIds \ {i} : job'[k] = job[k]
  BY <1>2, <1>4, <1>5, JobSet
<1>7. /\ rec' \in [SearchIds -> SearchRecord \cup {None}] /\ used \subseteq SearchIds
      /\ calls' \in Nat /\ ConnectId \in SearchIds
  BY <1>2, PresenceAssumption DEF PresenceInv, PresenceTypeOK, PresenceAssumption
<1>8. RequestStep
  BY <1>2, <1>3, <1>4, <1>6, <1>7 DEF RequestStep, FaultBudget
<1> QED BY <1>8, RequestKept

(* The dispatch fails, or the API process dies. *)
LEMMA RequestFaults ==
  ASSUME PresenceInv, NEW q \in Requests, DispatchFails(q) \/ ApiCrash(q)
  PROVE  PresenceStep
<1>1. /\ api' \in [Requests -> ApiCall]
      /\ \A p \in Requests : api'[p].pc # "idle" => api[p].pc # "idle" /\ api'[p].id = api[p].id
  <2>1. CASE DispatchFails(q)
    <3>1. Step(q, "dispatch", "rollback")
      BY <2>1 DEF DispatchFails
    <3> QED BY <3>1, CallMoved
  <2>2. CASE ApiCrash(q)
    BY <2>2 DEF ApiCrash, Fresh, ApiCall, PresenceInv, PresenceTypeOK
  <2> QED BY <2>1, <2>2
<1>2. UNCHANGED <<rec, used, job, workerVars, calls>> /\ FaultBudget
  BY DEF DispatchFails, ApiCrash, FaultBudget
<1>3. (job \in [SearchIds -> PresenceJob])' /\ AttemptsLeft'
  BY <1>2, JobsKept
<1>4. /\ rec' \in [SearchIds -> SearchRecord \cup {None}] /\ used \subseteq SearchIds
      /\ calls' \in Nat
  BY <1>2 DEF PresenceInv, PresenceTypeOK
<1>5. RequestStep
  BY <1>1, <1>2, <1>3, <1>4 DEF RequestStep
<1> QED BY <1>5, RequestKept

(* Requests that write or delete their record. *)
LEMMA RecordRequests ==
  ASSUME PresenceInv, NEW q \in Requests,
         ResetProgress(q) \/ MarkQueued(q) \/ Rollback(q) \/ Delete(q)
  PROVE  PresenceStep
<1>1. PICK from \in {"reset", "queue", "rollback", "delete"},
           to \in {"queue", "dispatch", "idle"} : Step(q, from, to)
  BY DEF ResetProgress, MarkQueued, Rollback, Delete
<1>2. UNCHANGED <<used, job, workerVars, calls, faults>>
  BY DEF ResetProgress, MarkQueued, Rollback, Delete
<1>3. /\ api' \in [Requests -> ApiCall] /\ api[q].pc # "idle"
      /\ \A p \in Requests : api'[p].pc # "idle" => api[p].pc # "idle" /\ api'[p].id = api[p].id
  BY <1>1, CallMoved
<1> DEFINE i == api[q].id
           r == rec[i]
<1>4. i \in SearchIds /\ (r # None => ~r.reading)
  BY <1>3, CallerKnown
<1>5. r # None => r \in SearchRecord /\ RecordBacked(r) /\ PlanCovers(r)
  BY <1>4, RecordKnown
<1>6. r # None => /\ {} \in SUBSET Stores
                  /\ r.pending \in SUBSET Stores /\ r.done \in SUBSET Stores
                  /\ \A s \in r.done, t \in 1..r.size : Backed(r, t, s)
  BY <1>5 DEF SearchRecord, RecordBacked
<1>7. (job \in [SearchIds -> PresenceJob])' /\ AttemptsLeft'
  BY <1>2, JobsKept DEF FaultBudget
<1>8. /\ rec' \in [SearchIds -> SearchRecord \cup {None}]
      /\ \A j \in SearchIds :
           \/ rec'[j] = rec[j] \/ rec'[j] = None \/ (rec[j] # None /\ Updated(rec[j], rec'[j]))
  <2>1. CASE ResetProgress(q)
    <3> DEFINE x == [r EXCEPT !.status = "idle", !.pending = {}, !.done = {}, !.prefix = NoPrefix]
    <3>1. Patch(i, x)
      BY <2>1 DEF ResetProgress
    <3>2. r # None => Updated(r, x)
      BY <1>4, <1>5, <1>6, ProgressDropped
    <3> HIDE DEF x, i
    <3> QED BY <1>4, <3>1, <3>2, PatchedRecord
  <2>2. CASE MarkQueued(q) \/ Rollback(q)
    <3>1. PICK st \in {"queued", "error"} : Patch(i, [r EXCEPT !.status = st, !.prefix = NoPrefix])
      BY <2>2 DEF MarkQueued, Rollback
    <3> DEFINE x == [r EXCEPT !.status = st, !.prefix = NoPrefix]
    <3>2. ASSUME r # None PROVE Updated(r, x)
      <4>1. x = [r EXCEPT !.status = st, !.pending = r.pending, !.done = r.done,
                          !.prefix = NoPrefix]
        BY <1>5, <3>2 DEF SearchRecord
      <4> HIDE DEF x, r
      <4> QED BY <1>4, <1>5, <1>6, <3>2, <4>1, ProgressDropped DEF PlanCovers
    <3>3. Patch(i, x)
      BY <3>1
    <3> HIDE DEF x, i
    <3> QED BY <1>4, <3>2, <3>3, PatchedRecord
  <2>3. CASE Delete(q)
    BY <2>3 DEF Delete, Put, PresenceInv, PresenceTypeOK
  <2> QED BY <2>1, <2>2, <2>3
<1>9. used \subseteq SearchIds /\ calls' \in Nat
  BY <1>2 DEF PresenceInv, PresenceTypeOK
<1>10. RequestStep
  BY <1>2, <1>3, <1>7, <1>8, <1>9 DEF RequestStep, FaultBudget
<1> QED BY <1>10, RequestKept

(* A manual review. *)
LEMMA Reviews ==
  ASSUME PresenceInv, NEW i \in SearchIds, NEW t \in Tracks, NEW s \in Stores,
         ReviewCell(i, t, s)
  PROVE  PresenceStep
<1>1. /\ rec[i] # None /\ rec[i].cell[t][s] # "none" /\ Put(i, Decided(rec[i], t, s))
      /\ calls' = calls + 1
      /\ UNCHANGED <<used, job, api, workerVars, faults>>
  BY DEF ReviewCell
<1>2. ~rec[i].reading
  <2>1. rec[i].reading => rec[i].cell = Blank
    BY <1>1 DEF PresenceInv, Untouched, ReadingRecord
  <2> QED BY <1>1, <2>1 DEF Blank
<1>3. Updated(rec[i], Decided(rec[i], t, s))
  BY <1>1, <1>2, RecordKnown, ReviewWritten
<1>4. Patch(i, Decided(rec[i], t, s))
  BY <1>1 DEF Patch
<1>5. /\ rec' \in [SearchIds -> SearchRecord \cup {None}]
      /\ \A j \in SearchIds : rec'[j] = rec[j] \/ (rec[j] # None /\ Updated(rec[j], rec'[j]))
  BY <1>3, <1>4, PatchedRecord
<1>6. (job \in [SearchIds -> PresenceJob])' /\ AttemptsLeft'
  BY <1>1, JobsKept DEF FaultBudget
<1>7. used \subseteq SearchIds /\ calls \in Nat /\ api \in [Requests -> ApiCall]
  BY DEF PresenceInv, PresenceTypeOK
<1>8. RequestStep
  BY <1>1, <1>5, <1>6, <1>7 DEF RequestStep, FaultBudget
<1> QED BY <1>8, RequestKept

-----------------------------------------------------------------------------
(* The finalizer. *)

(* The finalizer projects the snapshot, once. *)
LEMMA Projects ==
  ASSUME PresenceInv, Finalize
  PROVE  PresenceStep
<1> DEFINE r == rec[ConnectId]
<1>1. PICK n \in 0..MaxTracks, auto \in BOOLEAN :
        /\ finals < MaxFinals /\ r # None
        /\ rec' = [rec EXCEPT ![ConnectId] = Projected(r, n, auto)]
        /\ final' \in {"idle", "enqueue"} /\ finals' = finals + 1
        /\ UNCHANGED <<used, job, api, run, calls, faults>>
  BY PresenceAssumption DEF Finalize, Put, PresenceAssumption
<1>2. ConnectId \in SearchIds /\ ConnectId \in used
  BY PresenceAssumption DEF PresenceAssumption, PresenceInv, UsedIds
<1>3. r \in SearchRecord
  BY <1>1, <1>2, RecordKnown
<1>4. rec'[ConnectId] = Projected(r, n, auto) /\ \A i \in SearchIds \ {ConnectId} : rec'[i] = rec[i]
  BY <1>1, <1>2 DEF PresenceInv, PresenceTypeOK
<1>5. finals' \in 0..MaxFinals
  <2>1. MaxFinals \in Nat /\ finals \in 0..MaxFinals
    BY BoundsAssumption DEF BoundsAssumption, PresenceInv, PresenceTypeOK
  <2> QED BY <1>1, <2>1
<1>6. (job \in [SearchIds -> PresenceJob])' /\ AttemptsLeft'
  BY <1>1, JobsKept DEF FaultBudget
<1>7. CASE ~r.reading
  <2>1. Projected(r, n, auto) = r
    BY <1>1, <1>2, <1>7 DEF Projected, AlreadyProjected, PresenceInv, Untouched
  <2>2. rec' = rec
    BY <1>1, <1>2, <2>1 DEF PresenceInv, PresenceTypeOK
  <2>3. PresenceTypeOK' /\ UsedIds'
    BY <1>1, <1>5, <1>6, <2>2 DEF PresenceInv, PresenceTypeOK, UsedIds
  <2>4. Untouched'
    BY <1>7, <2>2, UntouchedKept DEF ConnectUntouched
  <2> QED BY <1>1, <1>6, <2>2, <2>3, <2>4, PresenceKept DEF RecordChange, RunChange
<1>8. CASE r.reading
  <2>1. /\ Started(r, Projected(r, n, auto)) /\ Projected(r, n, auto).status # "absent"
    BY <1>3, <1>8, ProjectionStarted
  <2> HIDE DEF r
  <2>2. rec' \in [SearchIds -> SearchRecord \cup {None}]
    BY <1>1, <2>1 DEF PresenceInv, PresenceTypeOK, Started
  <2>3. PresenceTypeOK'
    BY <1>1, <1>5, <1>6, <2>2 DEF PresenceInv, PresenceTypeOK
  <2>4. UsedIds'
    BY <1>1, <1>2, <1>4 DEF PresenceInv, UsedIds
  <2>5. Untouched'
    BY <1>4, <2>1 DEF PresenceInv, Untouched, Started
  <2>6. run[ConnectId] = None
    BY <1>1, <1>8, ConnectAlone DEF ConnectUntouched, NobodyAtConnect, r
  <2>7. \A i \in SearchIds : RecordChange(i) /\ RunChange(i)
    BY <1>1, <1>4, <2>1, <2>6 DEF RecordChange, RunChange, r
  <2> QED BY <1>6, <2>3, <2>4, <2>5, <2>7, PresenceKept
<1> QED BY <1>7, <1>8

(* The finalizer queues the scan, or dies before it did. *)
LEMMA FinalizerEnds ==
  ASSUME PresenceInv, FinalizeEnqueue \/ FinalizerCrash
  PROVE  PresenceStep
<1>1. /\ final = "enqueue" /\ final' = "idle" /\ FaultBudget
      /\ UNCHANGED <<rec, used, api, run, calls, finals>>
  BY DEF FinalizeEnqueue, FinalizerCrash, FaultBudget
<1>2. ~ConnectUntouched
  BY <1>1, ConnectAlone DEF NobodyAtConnect
<1>3. (job \in [SearchIds -> PresenceJob])' /\ AttemptsLeft'
  <2>1. CASE FinalizeEnqueue
    <3>1. UNCHANGED faults /\ ConnectId \in SearchIds
          /\ (job' = [job EXCEPT ![ConnectId] = [state |-> "waiting", made |-> 0]] \/ job' = job)
      BY <2>1, PresenceAssumption DEF FinalizeEnqueue, Added, PresenceAssumption
    <3> QED BY <3>1, JobSet
  <2>2. CASE FinalizerCrash
    BY <1>1, <2>2, JobsKept DEF FinalizerCrash
  <2> QED BY <2>1, <2>2
<1>4. PresenceTypeOK' /\ UsedIds'
  <2>1. faults' \in 0..MaxFaults
    BY <1>1, FaultCounted
  <2> QED BY <1>1, <1>3, <2>1 DEF PresenceInv, PresenceTypeOK, UsedIds
<1>5. Untouched'
  BY <1>1, <1>2, UntouchedKept
<1> QED BY <1>1, <1>3, <1>4, <1>5, PresenceKept DEF RecordChange, RunChange

-----------------------------------------------------------------------------
(* The worker. *)

(* What a step of the worker at one record may do. *)
AttemptStep(i) ==
  /\ UNCHANGED <<used, api, final, calls, finals>> /\ FaultBudget
  /\ (job \in [SearchIds -> PresenceJob])' /\ AttemptsLeft'
  /\ \A k \in SearchIds \ {i} : job'[k] = job[k] /\ run'[k] = run[k]
  /\ run' \in [SearchIds -> Worker \cup {None}]
  /\ run'[i] = None \/ (i \in used /\ RunChange(i))
  /\ rec' \in [SearchIds -> SearchRecord \cup {None}]
  /\ \A j \in SearchIds : rec'[j] = rec[j] \/ (rec[j] # None /\ Updated(rec[j], rec'[j]))
  /\ \A j \in SearchIds : rec[j] = None => rec'[j] = None
  /\ ConnectUntouched => i # ConnectId

(* What an attempt does at its record keeps the invariant. *)
LEMMA AttemptKept ==
  ASSUME PresenceInv, NEW i \in SearchIds, AttemptStep(i)
  PROVE  PresenceStep
<1>1. PresenceTypeOK' /\ AttemptsLeft'
  <2>1. faults' \in 0..MaxFaults
    BY FaultCounted DEF AttemptStep
  <2> QED BY <2>1 DEF AttemptStep, PresenceInv, PresenceTypeOK
<1>2. UsedIds'
  BY DEF AttemptStep, PresenceInv, UsedIds
<1>3. ConnectId \in SearchIds
  BY PresenceAssumption DEF PresenceAssumption
<1>4. Untouched'
  BY <1>3, ConnectAlone, UntouchedKept DEF AttemptStep, NobodyAtConnect
<1>5. \A k \in SearchIds : RecordChange(k) /\ RunChange(k)
  BY DEF AttemptStep, RecordChange, RunChange
<1> QED BY <1>1, <1>2, <1>4, <1>5, PresenceKept

(* A step of an attempt: it patches the record with x and goes on with v. *)
LEMMA AttemptMoves ==
  ASSUME PresenceInv, NEW i \in SearchIds, run[i] # None, NEW x, NEW v,
         Patch(i, x), run' = [run EXCEPT ![i] = v],
         rec[i] # None => Updated(rec[i], x),
         v = None \/ (v \in Worker /\ WorkerPlan(v) /\ (rec[i] # None => WorkerBacked(v, x))),
         (job \in [SearchIds -> PresenceJob])' /\ AttemptsLeft',
         \A k \in SearchIds \ {i} : job'[k] = job[k],
         UNCHANGED <<used, api, final, calls, finals>>, FaultBudget
  PROVE  PresenceStep
<1>1. run \in [SearchIds -> Worker \cup {None}]
  BY DEF PresenceInv, PresenceTypeOK
<1>2. run'[i] = v /\ \A k \in SearchIds \ {i} : run'[k] = run[k]
  BY <1>1
<1>3. rec'[i] # None => rec[i] # None /\ rec'[i] = x
  BY DEF Patch, Put, PresenceInv, PresenceTypeOK
<1>4. /\ rec' \in [SearchIds -> SearchRecord \cup {None}]
      /\ \A j \in SearchIds : rec'[j] = rec[j] \/ (rec[j] # None /\ Updated(rec[j], rec'[j]))
      /\ \A j \in SearchIds : rec[j] = None => rec'[j] = None
  BY PatchedRecord
<1>5. ConnectUntouched => i # ConnectId
  BY ConnectAlone DEF NobodyAtConnect
<1>6. i \in used
  BY WorkerKnown
<1>7. run'[i] = None \/ RunChange(i)
  BY <1>2, <1>3 DEF RunChange
<1>8. run' \in [SearchIds -> Worker \cup {None}]
  BY <1>1
<1>9. AttemptStep(i)
  BY <1>2, <1>4, <1>5, <1>6, <1>7, <1>8 DEF AttemptStep
<1> QED BY <1>9, AttemptKept

(* A record that is not written. *)
LEMMA AttemptGoesOn ==
  ASSUME PresenceInv, NEW i \in SearchIds, run[i] # None, NEW v,
         UNCHANGED rec, run' = [run EXCEPT ![i] = v],
         v = None \/ (v \in Worker /\ WorkerPlan(v) /\ (rec[i] # None => WorkerBacked(v, rec[i]))),
         (job \in [SearchIds -> PresenceJob])' /\ AttemptsLeft',
         \A k \in SearchIds \ {i} : job'[k] = job[k],
         UNCHANGED <<used, api, final, calls, finals>>, FaultBudget
  PROVE  PresenceStep
<1>1. Patch(i, rec[i])
  BY DEF Patch, Put, PresenceInv, PresenceTypeOK
<1>2. rec[i] # None => Updated(rec[i], rec[i])
  BY RecordKnown, WorkerKnown DEF Updated, Keeps
<1> QED BY <1>1, <1>2, AttemptMoves

(* The job of an attempt that ends. *)
LEMMA JobEnds ==
  ASSUME PresenceInv, NEW i \in SearchIds, FaultBudget,
         NEW st \in {"waiting", "completed", "failed"}, Ends(i, st),
         st = "waiting" => job[i].made < MaxAttempts \/ faults' = faults + 1
  PROVE  /\ (job \in [SearchIds -> PresenceJob])' /\ AttemptsLeft'
         /\ \A k \in SearchIds \ {i} : job'[k] = job[k]
<1> DEFINE j == [job[i] EXCEPT !.state = st]
<1>1. /\ faults' \in 0..MaxFaults /\ faults <= faults' /\ faults \in 0..MaxFaults
      /\ PresenceTypeOK /\ AttemptsLeft
  BY FaultCounted DEF PresenceInv, PresenceTypeOK
<1>2. MaxAttempts \in Nat /\ MaxFaults \in Nat
  BY FaultsAssumption, BoundsAssumption DEF FaultsAssumption, BoundsAssumption
<1>3. faults \in Nat /\ faults' \in Nat
  BY <1>1, <1>2
<1>4. /\ job[i] \in PresenceJob /\ job[i].made \in 0..(MaxAttempts + faults)
      /\ job' = [job EXCEPT ![i] = j]
  BY <1>1 DEF PresenceTypeOK, PresenceJob, Ends
<1>5. \A m, a, f, g \in Nat : m <= a + f /\ f <= g =>
         /\ m \in 0..(a + g)
         /\ (m < a \/ g = f + 1) => m < a + g
  OBVIOUS
<1>6. job[i].made \in Nat /\ job[i].made <= MaxAttempts + faults
  BY <1>2, <1>3, <1>4
<1>7. /\ job[i].made \in 0..(MaxAttempts + faults')
      /\ st = "waiting" => job[i].made < MaxAttempts + faults'
  BY <1>1, <1>2, <1>3, <1>5, <1>6
<1>8. j \in PresenceJob' /\ j.state = st /\ j.made = job[i].made
  BY <1>4, <1>7 DEF PresenceJob
<1> HIDE DEF j
<1> QED BY <1>1, <1>4, <1>7, <1>8, JobWritten

(* The job of an attempt that throws. *)
LEMMA Thrown ==
  ASSUME PresenceInv, NEW i \in SearchIds, FaultBudget, Throw(i)
  PROVE  /\ (job \in [SearchIds -> PresenceJob])' /\ AttemptsLeft'
         /\ \A k \in SearchIds \ {i} : job'[k] = job[k]
         /\ run' = [run EXCEPT ![i] = None]
<1>1. PICK st \in {"waiting", "failed"} :
        /\ st = IF job[i].made < MaxAttempts THEN "waiting" ELSE "failed"
        /\ Ends(i, st) /\ run' = [run EXCEPT ![i] = None]
  BY DEF Throw
<1> QED BY <1>1, JobEnds

(* An attempt starts, or finds no record. *)
LEMMA ScanStarts ==
  ASSUME PresenceInv, NEW i \in SearchIds, StartScan(i)
  PROVE  PresenceStep
<1>1. PICK st \in {"active", "completed"} :
        /\ job[i].state = "waiting"
        /\ job' = [job EXCEPT ![i] = [state |-> st, made |-> job[i].made + 1]]
        /\ rec[i] = None => run' = run
        /\ rec[i] # None => run' = [run EXCEPT ![i] = Begin(rec[i])]
        /\ UNCHANGED <<rec, used, api, final, calls, finals, faults>>
  BY DEF StartScan, PresenceInv, PresenceTypeOK
<1> DEFINE j == [state |-> st, made |-> job[i].made + 1]
<1>2. (job \in [SearchIds -> PresenceJob])' /\ AttemptsLeft' /\ \A k \in SearchIds \ {i} : job'[k] = job[k]
  <2>1. /\ faults' \in 0..MaxFaults /\ faults <= faults' /\ faults' = faults
        /\ PresenceTypeOK /\ AttemptsLeft
    BY <1>1, FaultCounted DEF FaultBudget, PresenceInv
  <2>2. MaxAttempts \in Nat /\ MaxFaults \in Nat
    BY FaultsAssumption, BoundsAssumption DEF FaultsAssumption, BoundsAssumption
  <2>3. faults \in Nat /\ job[i].made < MaxAttempts + faults
    BY <1>1, <2>1, <2>2 DEF AttemptsLeft
  <2>4. job[i].made \in Nat
    <3>1. job[i].made \in 0..(MaxAttempts + faults)
      BY <2>1 DEF PresenceTypeOK, PresenceJob
    <3>2. \A m \in Nat : \A n \in 0..m : n \in Nat
      OBVIOUS
    <3>3. MaxAttempts + faults \in Nat
      BY <2>2, <2>3
    <3> QED BY <3>1, <3>2, <3>3
  <2>5. \A m, a, f \in Nat : m < a + f => m + 1 \in 0..(a + f)
    OBVIOUS
  <2>6. job[i].made + 1 \in 0..(MaxAttempts + faults)
    BY <2>2, <2>3, <2>4, <2>5
  <2>7. j \in PresenceJob' /\ j.state = st
    BY <2>1, <2>6 DEF PresenceJob
  <2>8. job' = [job EXCEPT ![i] = j]
    BY <1>1
  <2> HIDE DEF j
  <2> QED BY <2>1, <2>7, <2>8, JobWritten
<1>3. run \in [SearchIds -> Worker \cup {None}] /\ rec \in [SearchIds -> SearchRecord \cup {None}]
  BY DEF PresenceInv, PresenceTypeOK
<1>4. ConnectUntouched => i # ConnectId
  BY <1>1, ConnectAlone DEF NobodyAtConnect
<1>5. CASE rec[i] = None
  <2>1. i \in used \/ run'[i] = None
    BY <1>1, <1>5 DEF PresenceInv, UsedIds
  <2>2. RunChange(i)
    BY <1>1, <1>5 DEF RunChange
  <2>3. AttemptStep(i)
    BY <1>1, <1>2, <1>3, <1>4, <1>5, <2>1, <2>2 DEF AttemptStep, FaultBudget
  <2> QED BY <2>3, AttemptKept
<1>6. CASE rec[i] # None
  <2> DEFINE w == Begin(rec[i])
  <2>1. i \in used /\ w \in Worker /\ WorkerPlan(w) /\ WorkerBacked(w, rec[i])
    BY <1>6, RecordKnown, WorkerBegins
  <2>2. run' = [run EXCEPT ![i] = w]
    BY <1>1, <1>6
  <2> HIDE DEF w
  <2>3. /\ run' \in [SearchIds -> Worker \cup {None}] /\ run'[i] = w
        /\ \A k \in SearchIds \ {i} : run'[k] = run[k]
    BY <1>3, <2>1, <2>2
  <2>4. RunChange(i)
    BY <1>1, <2>1, <2>3 DEF RunChange
  <2>5. AttemptStep(i)
    BY <1>1, <1>2, <1>3, <1>4, <2>1, <2>3, <2>4 DEF AttemptStep, FaultBudget
  <2> QED BY <2>5, AttemptKept
<1> QED BY <1>5, <1>6

(* What an attempt may rely on at the record it patches. *)
LEMMA AttemptKnows ==
  ASSUME PresenceInv, NEW i \in SearchIds, run[i] # None,
         NEW w, w = run[i], NEW r, r = rec[i]
  PROVE  /\ w \in Worker /\ WorkerPlan(w)
         /\ w.todo \in SUBSET Stores /\ w.done \in SUBSET Stores /\ w.failed \in SUBSET Stores
         /\ Targets(w.seen) \subseteq Stores /\ Targets(w.seen) \cup w.done = Stores
         /\ Targets(w.seen) = {} => w.seen.done = Stores
         /\ w.seen \in SearchRecord
         /\ r # None => /\ r \in SearchRecord /\ ~r.reading /\ r.size = w.seen.size
                        /\ RecordBacked(r) /\ PlanCovers(r) /\ WorkerBacked(w, r)
                        /\ \A s \in w.done, t \in 1..r.size : Backed(r, t, s)
<1>1. w \in Worker /\ WorkerPlan(w) /\ (r # None => ~r.reading /\ WorkerBacked(w, r))
  BY WorkerKnown
<1>2. r # None => r \in SearchRecord /\ RecordBacked(r) /\ PlanCovers(r)
  BY RecordKnown
<1>3. /\ w.todo \in SUBSET Stores /\ w.done \in SUBSET Stores /\ w.failed \in SUBSET Stores
      /\ w.seen \in SearchRecord /\ PlanCovers(w.seen) /\ w.seen.done \subseteq w.done
  BY <1>1 DEF Worker, WorkerPlan
<1>4. /\ Targets(w.seen) \subseteq Stores /\ Targets(w.seen) \cup w.seen.done = Stores
      /\ Targets(w.seen) = {} => w.seen.done = Stores
  BY <1>3, TargetsShape
<1>5. Targets(w.seen) \cup w.done = Stores
  BY <1>3, <1>4
<1>6. r # None => r.size = w.seen.size /\ \A s \in w.done, t \in 1..r.size : Backed(r, t, s)
  BY <1>1 DEF WorkerBacked, Keeps
<1> QED BY <1>1, <1>2, <1>3, <1>4, <1>5, <1>6

(* An attempt ends with nothing to scan or all stores left behind. *)
LEMMA ScanEnds ==
  ASSUME PresenceInv, NEW i \in SearchIds, NothingToScan(i) \/ FinishScan(i)
  PROVE  PresenceStep
<1> DEFINE w == run[i]
           r == rec[i]
<1>0. run[i] # None
  BY DEF NothingToScan, FinishScan, Working
<1>1. /\ w \in Worker /\ WorkerPlan(w)
      /\ w.todo \in SUBSET Stores /\ w.done \in SUBSET Stores /\ w.failed \in SUBSET Stores
      /\ Targets(w.seen) = {} => w.seen.done = Stores
      /\ r # None => /\ r \in SearchRecord /\ ~r.reading /\ r.size = w.seen.size
                     /\ RecordBacked(r)
                     /\ \A s \in w.done, t \in 1..r.size : Backed(r, t, s)
  BY <1>0, AttemptKnows
<1>2. PICK st \in {"done", "error"}, p \in SUBSET Stores :
        /\ Patch(i, [r EXCEPT !.status = st, !.pending = p, !.done = w.done])
        /\ p # {} => p \cup w.done = Stores
        /\ st = "done" /\ w.seen.size > 0 => w.done = Stores
  <2>1. CASE NothingToScan(i)
    <3>1. /\ w.pc = "empty"
          /\ Patch(i, [r EXCEPT !.status = "done", !.pending = {}, !.done = w.done])
      BY <2>1 DEF NothingToScan, Working
    <3>2. w.done = w.seen.done /\ (Targets(w.seen) = {} \/ w.seen.size = 0)
      BY <1>1, <3>1 DEF WorkerPlan
    <3>3. w.seen.size > 0 => w.seen.size # 0
      <4>1. w.seen.size \in Nat
        BY <1>1, SizeOfTracks DEF Worker
      <4> QED BY <4>1
    <3>4. w.seen.size > 0 => w.done = Stores
      BY <1>1, <3>2, <3>3
    <3> HIDE DEF w, r
    <3> WITNESS "done" \in {"done", "error"}, {} \in SUBSET Stores
    <3> QED BY <3>1, <3>4
  <2>2. CASE FinishScan(i)
    <3>1. w.done \cup w.failed = Stores
      BY <1>1, <2>2 DEF FinishScan, Working, WorkerPlan
    <3>2. CASE w.failed # {}
      <4>1. Patch(i, [r EXCEPT !.status = "error", !.done = w.done, !.pending = w.failed])
        BY <2>2, <3>2 DEF FinishScan
      <4>2. [r EXCEPT !.status = "error", !.done = w.done, !.pending = w.failed]
              = [r EXCEPT !.status = "error", !.pending = w.failed, !.done = w.done]
        OBVIOUS
      <4>3. Patch(i, [r EXCEPT !.status = "error", !.pending = w.failed, !.done = w.done])
        BY <4>1, <4>2
      <4> QED BY <1>1, <3>1, <4>3
    <3>3. CASE w.failed = {}
      <4>1. Patch(i, [r EXCEPT !.status = "done", !.done = w.done, !.pending = {}])
        BY <2>2, <3>3 DEF FinishScan
      <4>2. [r EXCEPT !.status = "done", !.done = w.done, !.pending = {}]
              = [r EXCEPT !.status = "done", !.pending = {}, !.done = w.done]
        OBVIOUS
      <4>3. Patch(i, [r EXCEPT !.status = "done", !.pending = {}, !.done = w.done])
        BY <4>1, <4>2
      <4> QED BY <1>1, <3>1, <3>3, <4>3
    <3> QED BY <3>2, <3>3
  <2> QED BY <2>1, <2>2
<1> DEFINE x == [r EXCEPT !.status = st, !.pending = p, !.done = w.done]
<1>3. r # None => Updated(r, x)
  BY <1>1, <1>2, ProgressWritten DEF Statuses
<1>4. FaultBudget /\ UNCHANGED <<used, api, final, calls, finals>>
  BY DEF NothingToScan, FinishScan, FaultBudget
<1>5. /\ (job \in [SearchIds -> PresenceJob])' /\ AttemptsLeft'
      /\ \A k \in SearchIds \ {i} : job'[k] = job[k]
      /\ run' = [run EXCEPT ![i] = None]
  <2>1. Throw(i) \/ (Ends(i, "completed") /\ run' = [run EXCEPT ![i] = None])
    BY DEF NothingToScan, FinishScan, Local
  <2> QED BY <1>4, <2>1, Thrown, JobEnds
<1>6. Patch(i, x)
  BY <1>2
<1> HIDE DEF x
<1> QED BY <1>0, <1>3, <1>4, <1>5, <1>6, AttemptMoves

(* A catalogue above the budget. *)
LEMMA ScanRefused ==
  ASSUME PresenceInv, NEW i \in SearchIds, OverBudget(i)
  PROVE  PresenceStep
<1> DEFINE w == run[i]
           r == rec[i]
           x == [r EXCEPT !.status = "error", !.pending = w.todo, !.done = w.done]
<1>0. /\ run[i] # None /\ w.pc = "budget" /\ Patch(i, x) /\ Throw(i)
      /\ FaultBudget /\ UNCHANGED <<used, api, final, calls, finals>>
  BY DEF OverBudget, Working, FaultBudget
<1>1. /\ WorkerPlan(w) /\ w.todo \in SUBSET Stores /\ w.done \in SUBSET Stores
      /\ Targets(w.seen) \cup w.done = Stores
      /\ r # None => /\ r \in SearchRecord /\ ~r.reading /\ RecordBacked(r)
                     /\ \A s \in w.done, t \in 1..r.size : Backed(r, t, s)
  BY <1>0, AttemptKnows
<1>2. w.todo \cup w.done = Stores
  BY <1>0, <1>1 DEF WorkerPlan
<1>3. ASSUME r # None PROVE Updated(r, x)
  <2>1. "error" \in Statuses \ {"absent"} /\ "error" # "done"
    BY DEF Statuses
  <2>2. x = [r EXCEPT !.status = "error", !.pending = w.todo, !.done = w.done]
    OBVIOUS
  <2> HIDE DEF x, w, r
  <2> QED BY <1>1, <1>2, <1>3, <2>1, <2>2, ProgressWritten
<1> HIDE DEF x
<1> QED BY <1>0, <1>3, Thrown, AttemptMoves

(* The record is marked running. *)
LEMMA ScanMarked ==
  ASSUME PresenceInv, NEW i \in SearchIds, MarkRunning(i)
  PROVE  PresenceStep
<1> DEFINE w == run[i]
           r == rec[i]
           x == [r EXCEPT !.status = "running", !.pending = w.todo, !.done = w.done]
           v == EnterStore(w)
<1>0. /\ run[i] # None /\ w.pc = "begin" /\ Patch(i, x) /\ run' = [run EXCEPT ![i] = v]
      /\ FaultBudget /\ UNCHANGED <<used, job, api, final, calls, finals>>
  BY DEF MarkRunning, Working, FaultBudget, Local
<1>1. /\ w \in Worker /\ WorkerPlan(w) /\ w.todo \in SUBSET Stores /\ w.done \in SUBSET Stores
      /\ Targets(w.seen) \cup w.done = Stores
      /\ r # None => /\ r \in SearchRecord /\ ~r.reading /\ RecordBacked(r) /\ WorkerBacked(w, r)
                     /\ \A s \in w.done, t \in 1..r.size : Backed(r, t, s)
  BY <1>0, AttemptKnows
<1>2. w.todo \cup w.done = Stores
  BY <1>0, <1>1 DEF WorkerPlan
<1>3. ASSUME r # None PROVE Updated(r, x)
  <2>1. "running" \in Statuses \ {"absent"} /\ "running" # "done"
    BY DEF Statuses
  <2>2. x = [r EXCEPT !.status = "running", !.pending = w.todo, !.done = w.done]
    OBVIOUS
  <2> HIDE DEF x, w, r
  <2> QED BY <1>1, <1>2, <1>3, <2>1, <2>2, ProgressWritten
<1> HIDE DEF x
<1>4. r # None => WorkerBacked(w, x)
  BY <1>1, <1>3, WorkerKept DEF Updated
<1>5. v \in Worker /\ WorkerPlan(v) /\ (WorkerBacked(w, x) => WorkerBacked(v, x))
  BY <1>1, StoreEntered DEF WorkerPlan, WorkerBacked
<1> HIDE DEF v
<1>6. (job \in [SearchIds -> PresenceJob])' /\ AttemptsLeft' /\ \A k \in SearchIds \ {i} : job'[k] = job[k]
  BY <1>0, JobsKept
<1> QED BY <1>0, <1>3, <1>4, <1>5, <1>6, AttemptMoves

(* A chunk is read and checkpointed. *)
LEMMA ChunkScanned ==
  ASSUME PresenceInv, NEW i \in SearchIds, ScanChunk(i)
  PROVE  PresenceStep
<1> DEFINE w == run[i]
           r == rec[i]
           s == Min(w.todo)
           n == w.seen.size
           known == w.known \cup NextChunk(w)
           m == Max(NextChunk(w))
           x == [MergePlatform(r, s, known) EXCEPT !.prefix[s] = m]
           v == [w EXCEPT !.known = known]
<1>0. /\ run[i] # None /\ w.pc = "scan" /\ ~(1..n \subseteq w.known) /\ Patch(i, x)
      /\ run' = [run EXCEPT ![i] = v]
      /\ FaultBudget /\ UNCHANGED <<used, job, api, final, calls, finals>>
  BY DEF ScanChunk, Working, FaultBudget, Local, Store
<1>1. /\ w \in Worker /\ WorkerPlan(w) /\ w.todo \in SUBSET Stores /\ w.seen \in SearchRecord
      /\ r # None => /\ r \in SearchRecord /\ ~r.reading /\ r.size = n
                     /\ RecordBacked(r) /\ PlanCovers(r) /\ WorkerBacked(w, r)
  BY <1>0, AttemptKnows
<1>2. /\ w.todo # {} /\ w.known \subseteq 1..n
  BY <1>0, <1>1 DEF WorkerPlan
<1>3. s \in Stores /\ n \in 0..MaxTracks /\ 1..n \subseteq Tracks /\ MaxTracks \in Nat
  BY <1>1, <1>2, LeastStore, SizeOfTracks
<1>4. /\ NextChunk(w) \subseteq 1..n /\ m \in 1..n
      /\ \A t \in 1..n : t <= m => t \in known
  BY <1>0, <1>2, <1>3, NextChunkShape
<1>5. known \in SUBSET Tracks /\ known \subseteq 1..n /\ m \in 0..MaxTracks
  BY <1>2, <1>3, <1>4
<1> HIDE DEF m, known
<1>6. ASSUME r # None PROVE Updated(r, x) /\ \A t \in known : Backed(x, t, s)
  <2>1. x = [MergePlatform(r, s, known) EXCEPT !.prefix[s] = m]
    OBVIOUS
  <2> HIDE DEF x, w, r, s, n
  <2> QED BY <1>1, <1>3, <1>4, <1>5, <1>6, <2>1, ChunkWritten
<1>7. /\ v \in Worker /\ v.pc = "scan" /\ v.seen = w.seen /\ v.todo = w.todo
      /\ v.done = w.done /\ v.failed = w.failed /\ v.known = known
  BY <1>0, <1>1, <1>5 DEF Worker
<1>8. WorkerPlan(v)
  BY <1>1, <1>2, <1>5, <1>7 DEF WorkerPlan
<1> HIDE DEF v
<1>9. ASSUME r # None PROVE WorkerBacked(v, x)
  <2>1. WorkerBacked(w, x)
    BY <1>1, <1>6, <1>9, WorkerKept DEF Updated
  <2> QED BY <1>6, <1>7, <1>9, <2>1 DEF WorkerBacked
<1>10. (job \in [SearchIds -> PresenceJob])' /\ AttemptsLeft' /\ \A k \in SearchIds \ {i} : job'[k] = job[k]
  BY <1>0, JobsKept
<1> HIDE DEF x
<1> QED BY <1>0, <1>6, <1>7, <1>8, <1>9, <1>10, AttemptMoves

(* A store that is read to the end, or given up. *)
LEMMA StoreLeft ==
  ASSUME PresenceInv, NEW i \in SearchIds, StoreDone(i) \/ StoreFails(i)
  PROVE  PresenceStep
<1> DEFINE w == run[i]
           r == rec[i]
           s == Min(w.todo)
<1>0. /\ run[i] # None /\ w.pc = "scan"
      /\ FaultBudget /\ UNCHANGED <<rec, used, job, api, final, calls, finals>>
  BY DEF StoreDone, StoreFails, Working, FaultBudget
<1>1. /\ w \in Worker /\ WorkerPlan(w) /\ w.todo \in SUBSET Stores
      /\ w.done \in SUBSET Stores /\ w.failed \in SUBSET Stores
      /\ r # None => /\ r.size = w.seen.size /\ WorkerBacked(w, r)
  BY <1>0, AttemptKnows
<1>2. s \in w.todo /\ s \in Stores
  BY <1>0, <1>1, LeastStore DEF WorkerPlan
<1>3. (job \in [SearchIds -> PresenceJob])' /\ AttemptsLeft' /\ \A k \in SearchIds \ {i} : job'[k] = job[k]
  BY <1>0, JobsKept
<1>4. PICK d \in SUBSET Stores, f \in SUBSET Stores :
        /\ run' = [run EXCEPT ![i] = [w EXCEPT !.pc = "platform", !.done = d, !.failed = f]]
        /\ s \in d \cup f /\ w.done \subseteq d /\ w.failed \subseteq f
        /\ d = w.done \/ (d = w.done \cup {s} /\ 1..w.seen.size \subseteq w.known)
  <2>1. CASE StoreDone(i)
    <3>1. /\ run' = [run EXCEPT ![i] = [w EXCEPT !.pc = "platform", !.done = w.done \cup {s}]]
          /\ 1..w.seen.size \subseteq w.known
      BY <2>1 DEF StoreDone, Local, Store
    <3>2. [w EXCEPT !.pc = "platform", !.done = w.done \cup {s}]
            = [w EXCEPT !.pc = "platform", !.done = w.done \cup {s}, !.failed = w.failed]
      BY <1>1 DEF Worker
    <3>3. w.done \cup {s} \in SUBSET Stores
      BY <1>1, <1>2
    <3> HIDE DEF w, s
    <3> QED BY <1>1, <1>2, <3>1, <3>2, <3>3
  <2>2. CASE StoreFails(i)
    <3>1. run' = [run EXCEPT ![i] = [w EXCEPT !.pc = "platform", !.failed = w.failed \cup {s}]]
      BY <2>2 DEF StoreFails, Local, Store
    <3>2. [w EXCEPT !.pc = "platform", !.failed = w.failed \cup {s}]
            = [w EXCEPT !.pc = "platform", !.done = w.done, !.failed = w.failed \cup {s}]
      BY <1>1 DEF Worker
    <3>3. w.failed \cup {s} \in SUBSET Stores
      BY <1>1, <1>2
    <3> HIDE DEF w, s
    <3> QED BY <1>1, <1>2, <3>1, <3>2, <3>3
  <2> QED BY <2>1, <2>2
<1> DEFINE v == [w EXCEPT !.pc = "platform", !.done = d, !.failed = f]
<1>5. /\ v \in Worker /\ v.pc = "platform" /\ v.seen = w.seen /\ v.todo = w.todo
      /\ v.done = d /\ v.failed = f
  BY <1>1 DEF Worker
<1>6. run' = [run EXCEPT ![i] = v]
  BY <1>4
<1> HIDE DEF v
<1>7. WorkerPlan(v)
  BY <1>0, <1>1, <1>2, <1>4, <1>5 DEF WorkerPlan
<1>8. ASSUME r # None PROVE WorkerBacked(v, r)
  <2>1. \A u \in d, t \in 1..r.size : Backed(r, t, u)
    BY <1>0, <1>1, <1>4, <1>8 DEF WorkerBacked
  <2> QED BY <1>1, <1>5, <1>8, <2>1 DEF WorkerBacked
<1> QED BY <1>0, <1>3, <1>5, <1>6, <1>7, <1>8, AttemptGoesOn

(* The checkpoint after a store. *)
LEMMA StoreCheckpointed ==
  ASSUME PresenceInv, NEW i \in SearchIds, PlatformEnd(i)
  PROVE  PresenceStep
<1> DEFINE w == run[i]
           r == rec[i]
           s == Min(w.todo)
           x == PlatformCheckpoint(r, w, s)
           u == [w EXCEPT !.todo = w.todo \ {s}]
           v == EnterStore(u)
<1>0. /\ run[i] # None /\ w.pc = "platform" /\ Patch(i, x) /\ run' = [run EXCEPT ![i] = v]
      /\ FaultBudget /\ UNCHANGED <<used, job, api, final, calls, finals>>
  BY DEF PlatformEnd, Working, FaultBudget, Local, Store
<1>1. /\ w \in Worker /\ WorkerPlan(w) /\ w.todo \in SUBSET Stores
      /\ w.done \in SUBSET Stores /\ w.failed \in SUBSET Stores
      /\ Targets(w.seen) \subseteq Stores /\ Targets(w.seen) \cup w.done = Stores
      /\ r # None => /\ r \in SearchRecord /\ ~r.reading /\ r.size = w.seen.size
                     /\ RecordBacked(r) /\ WorkerBacked(w, r)
                     /\ \A p \in w.done, t \in 1..r.size : Backed(r, t, p)
  BY <1>0, AttemptKnows
<1>2. /\ s \in w.todo /\ s \in Stores /\ s \in w.done \cup w.failed
      /\ w.done \cup w.failed \cup w.todo = Stores
  BY <1>0, <1>1, LeastStore DEF WorkerPlan
<1>3. ASSUME r # None PROVE Updated(r, x)
  <2>1. x = PlatformCheckpoint(r, w, s)
    OBVIOUS
  <2> HIDE DEF x, w, r, s
  <2> QED BY <1>1, <1>2, <1>3, <2>1, CheckpointWritten
<1> HIDE DEF x
<1>4. r # None => WorkerBacked(w, x)
  BY <1>1, <1>3, WorkerKept DEF Updated
<1>5. /\ u \in Worker /\ u.pc = w.pc /\ u.seen = w.seen /\ u.todo = w.todo \ {s}
      /\ u.done = w.done /\ u.failed = w.failed
  BY <1>1 DEF Worker
<1>6. u.done \cup u.failed \cup u.todo = Stores
  BY <1>1, <1>2, <1>5
<1>7. /\ RecordBacked(u.seen) /\ PlanCovers(u.seen) /\ u.seen.done \subseteq u.done
  BY <1>1, <1>5 DEF WorkerPlan
<1> HIDE DEF u
<1>8. /\ v \in Worker /\ WorkerPlan(v)
      /\ Keeps(u.seen, x) /\ (\A p \in u.done, t \in 1..x.size : Backed(x, t, p)) =>
           WorkerBacked(v, x)
  BY <1>5, <1>6, <1>7, StoreEntered
<1>9. r # None => WorkerBacked(v, x)
  BY <1>4, <1>5, <1>8 DEF WorkerBacked
<1> HIDE DEF v
<1>10. (job \in [SearchIds -> PresenceJob])' /\ AttemptsLeft' /\ \A k \in SearchIds \ {i} : job'[k] = job[k]
  BY <1>0, JobsKept
<1> QED BY <1>0, <1>3, <1>8, <1>9, <1>10, AttemptMoves

(* An update fails, or the worker dies. *)
LEMMA AttemptFaults ==
  ASSUME PresenceInv, NEW i \in SearchIds, UpdateFails(i) \/ WorkerCrash(i)
  PROVE  PresenceStep
<1>1. /\ run[i] # None /\ FaultBudget /\ UNCHANGED <<rec, used, api, final, calls, finals>>
  BY DEF UpdateFails, WorkerCrash, FaultBudget
<1>2. /\ (job \in [SearchIds -> PresenceJob])' /\ AttemptsLeft'
      /\ \A k \in SearchIds \ {i} : job'[k] = job[k]
      /\ run' = [run EXCEPT ![i] = None]
  <2>1. CASE UpdateFails(i)
    BY <1>1, <2>1, Thrown DEF UpdateFails
  <2>2. CASE WorkerCrash(i)
    <3>1. Ends(i, "waiting") /\ faults' = faults + 1 /\ run' = [run EXCEPT ![i] = None]
      BY <2>2 DEF WorkerCrash, Ends
    <3> QED BY <1>1, <3>1, JobEnds
  <2> QED BY <2>1, <2>2
<1> QED BY <1>1, <1>2, AttemptGoesOn

-----------------------------------------------------------------------------
(* The initial records are sound. *)
LEMMA PresenceStarts ==
  ASSUME PresenceInit
  PROVE  PresenceInv
<1>1. /\ MaxFaults \in Nat /\ MaxFinals \in Nat /\ MaxTracks \in Nat /\ MaxAttempts \in Nat \ {0}
      /\ ConnectId \in SearchIds
  BY FaultsAssumption, BoundsAssumption, PresenceAssumption
     DEF FaultsAssumption, BoundsAssumption, PresenceAssumption
<1>2. /\ NoPrefix \in [Stores -> 0..MaxTracks] /\ Blank \in [Tracks -> [Stores -> Cells]]
      /\ 0 \in 0..MaxTracks
  BY <1>1 DEF NoPrefix, Blank, Cells
<1>3. ReadingRecord \in SearchRecord
  BY <1>2 DEF ReadingRecord, SearchRecord, Statuses
<1>4. /\ ReadingRecord.reading = TRUE /\ ReadingRecord.size = 0 /\ ReadingRecord.status = "absent"
      /\ ReadingRecord.pending = {} /\ ReadingRecord.done = {}
  BY DEF ReadingRecord
<1>5. RecordBacked(ReadingRecord) /\ PlanCovers(ReadingRecord)
  BY <1>4 DEF RecordBacked, PlanCovers
<1>6. [state |-> "none", made |-> 0] \in PresenceJob /\ Fresh \in ApiCall
  <2>1. faults = 0 /\ MaxAttempts + 0 \in Nat
    BY <1>1 DEF PresenceInit, BoundsInit
  <2> QED BY <2>1 DEF PresenceJob, Fresh, ApiCall
<1>7. PresenceTypeOK
  BY <1>1, <1>3, <1>6 DEF PresenceInit, BoundsInit, PresenceTypeOK
<1>8. \A i \in SearchIds : run[i] = None /\ job[i].state = "none" /\ (rec[i] # None => i = ConnectId /\ rec[i] = ReadingRecord)
  BY DEF PresenceInit
<1>9. \A q \in Requests : api[q].pc = "idle"
  BY DEF PresenceInit, Fresh
<1>10. Untouched /\ UsedIds /\ AttemptsLeft /\ WorkersBacked
  BY <1>4, <1>8, <1>9 DEF PresenceInit, Untouched, UsedIds, AttemptsLeft, WorkersBacked
<1>11. VerdictsBacked /\ \A i \in SearchIds : rec[i] # None => PlanCovers(rec[i])
  BY <1>5, <1>8 DEF VerdictsBacked
<1> QED BY <1>7, <1>10, <1>11 DEF PresenceInv

(* Every step keeps the invariant and blanks no cell. *)
LEMMA PresenceMoves ==
  ASSUME PresenceInv, [PresenceNext]_presenceVars
  PROVE  PresenceStep
<1>1. CASE UNCHANGED presenceVars
  BY <1>1 DEF presenceVars, presenceState, boundVars, PresenceStep, CellsKept, PresenceInv,
     PresenceTypeOK, PresenceJob, AttemptsLeft, VerdictsBacked, Untouched, UsedIds, WorkersBacked
<1>2. CASE PresenceNext
  <2>1. ASSUME NEW q \in Requests,
               \/ CreateSearch(q) \/ Rescan(q) \/ StoreCheck(q) \/ DeleteSearch(q)
               \/ ApiStep(q) \/ DispatchFails(q) \/ ApiCrash(q)
        PROVE  PresenceStep
    BY <2>1, NewRecords, CallsTaken, JobRequests, RecordRequests, RequestFaults DEF ApiStep
  <2>2. CASE Finalize \/ FinalizeEnqueue \/ FinalizerCrash
    BY <2>2, Projects, FinalizerEnds
  <2>3. ASSUME NEW i \in SearchIds, WorkerStep(i)
        PROVE  PresenceStep
    BY <2>3, ScanStarts, ScanEnds, ScanRefused, ScanMarked, ChunkScanned, StoreLeft,
       StoreCheckpointed DEF WorkerStep
  <2>4. ASSUME NEW i \in SearchIds,
               \/ StoreFails(i) \/ UpdateFails(i) \/ WorkerCrash(i)
               \/ \E t \in Tracks, s \in Stores : ReviewCell(i, t, s)
        PROVE  PresenceStep
    BY <2>4, StoreLeft, AttemptFaults, Reviews
  <2> QED BY <1>2, <2>1, <2>2, <2>3, <2>4 DEF PresenceNext
<1> QED BY <1>1, <1>2

(* What a search record says was verified was verified by the deep scan or *)
(* by a reviewer (runStorePresenceDeepScan, mergePlatform, store-check,    *)
(* the replayed finalizer), whatever is retried, reset, rescanned, deleted *)
(* or crashes in between, for any number of records, requests, stores,     *)
(* tracks, chunk sizes, attempts and faults.                               *)
THEOREM BackedVerdicts == PresenceSpec => [](PresenceTypeOK /\ VerdictsBacked)
<1>1. PresenceInit => PresenceInv
  BY PresenceStarts
<1>2. PresenceInv /\ [PresenceNext]_presenceVars => PresenceInv'
  BY PresenceMoves DEF PresenceStep
<1>3. PresenceInv => PresenceTypeOK /\ VerdictsBacked
  BY DEF PresenceInv
<1> QED BY <1>1, <1>2, <1>3, PTL DEF PresenceSpec

(* A cell that has a verdict keeps one while its record exists             *)
(* (projectFinalizedSnapshot, mergePlatform), under the same conditions.   *)
THEOREM CellsNeverBlank == PresenceSpec => VerdictsNeverBlank
<1>1. PresenceInit => PresenceInv
  BY PresenceStarts
<1>2. PresenceInv /\ [PresenceNext]_presenceVars => PresenceInv' /\ [CellsKept]_presenceVars
  BY PresenceMoves DEF PresenceStep
<1>3. VerdictsNeverBlank <=> [][CellsKept]_presenceVars
  BY PTL DEF VerdictsNeverBlank, CellsKept
<1> QED BY <1>1, <1>2, <1>3, PTL DEF PresenceSpec

-----------------------------------------------------------------------------
(* The components together: the one a behaviour follows keeps its invariant, *)
(* and what the others promise stays true of a state that does not change.   *)
ScansState == <<part, recordState, historyVars, presenceState, outcomeState, boundVars>>

NoRecordYet == db = None /\ hot = None

ScansInv ==
  /\ IF part = "records" THEN RecordsInv ELSE NoRecordYet
  /\ IF part = "history" THEN HistoryInv ELSE WalkComplete
  /\ IF part = "presence" THEN PresenceInv ELSE VerdictsBacked
  /\ IF part = "outcomes" THEN OutcomesInv ELSE OutcomesSound

LEMMA WalkStays == ASSUME UNCHANGED historyVars, WalkComplete PROVE WalkComplete'
BY DEF historyVars, WalkComplete

LEMMA VerdictsStay == ASSUME UNCHANGED presenceState, VerdictsBacked PROVE VerdictsBacked'
<1>1. UNCHANGED rec
  BY DEF presenceState
<1> QED BY <1>1 DEF VerdictsBacked

LEMMA OutcomesStay == ASSUME UNCHANGED outcomeState, OutcomesSound PROVE OutcomesSound'
<1>1. UNCHANGED <<kind, row, read, marked, stored>>
  BY DEF outcomeState
<1>2. RowsMatchReading'
  BY <1>1 DEF OutcomesSound, RowsMatchReading, RowsOf
<1>3. ColumnsIndependent'
  BY <1>1 DEF OutcomesSound, ColumnsIndependent
<1> QED BY <1>2, <1>3 DEF OutcomesSound

LEMMA ScansInitInv == ASSUME ScansInit PROVE ScansInv
<1>1. RecordsInv /\ HistoryInv /\ PresenceInv /\ OutcomesInv
  BY InitSound, HistoryInitInv, PresenceStarts, OutcomesStart DEF ScansInit
<1>2. NoRecordYet
  BY DEF ScansInit, RecordsInit, NoRecordYet
<1>3. WalkComplete /\ VerdictsBacked /\ OutcomesSound
  BY <1>1 DEF HistoryInv, WalkComplete, PresenceInv, OutcomesInv
<1> QED BY <1>1, <1>2, <1>3 DEF ScansInv

LEMMA ScansNextInv ==
  ASSUME ScansInv, [ScansNext]_ScansState
  PROVE  ScansInv' /\ CellsKept
<1>1. part' = part
  BY DEF ScansNext, ScansState
<1>2. IF part = "records" THEN RecordsInv' ELSE NoRecordYet'
  <2>1. IF part = "records" THEN [RecordsNext]_recordVars ELSE UNCHANGED recordState
    BY DEF ScansNext, ScansState, recordVars
  <2>2. UNCHANGED recordState /\ NoRecordYet => NoRecordYet'
    BY DEF recordState, NoRecordYet
  <2> QED BY <2>1, <2>2, StepSound DEF ScansInv
<1>3. IF part = "history" THEN HistoryInv' ELSE WalkComplete'
  <2>1. IF part = "history" THEN [HistoryNext]_historyVars ELSE UNCHANGED historyVars
    BY DEF ScansNext, ScansState
  <2> QED BY <2>1, HistoryNextInv, WalkStays DEF ScansInv
<1>4. (IF part = "presence" THEN PresenceInv' ELSE VerdictsBacked') /\ CellsKept
  <2>1. IF part = "presence" THEN [PresenceNext]_presenceVars ELSE UNCHANGED presenceState
    BY DEF ScansNext, ScansState, presenceVars
  <2>2. UNCHANGED presenceState => CellsKept
    BY DEF presenceState, CellsKept
  <2> QED BY <2>1, <2>2, PresenceMoves, VerdictsStay DEF ScansInv, PresenceStep
<1>5. IF part = "outcomes" THEN OutcomesInv' ELSE OutcomesSound'
  <2>1. IF part = "outcomes" THEN [OutcomesNext]_outcomeVars ELSE UNCHANGED outcomeState
    BY DEF ScansNext, ScansState, outcomeVars
  <2> QED BY <2>1, OutcomesStep, OutcomesStay DEF ScansInv
<1> QED BY <1>1, <1>2, <1>3, <1>4, <1>5 DEF ScansInv

LEMMA ScansInvSound ==
  ASSUME ScansInv
  PROVE  /\ TypesOK /\ WalkComplete /\ VerdictsBacked /\ OutcomesSound
         /\ AckedUpdatesKept /\ (FewClients => RecordsSound)
<1>1. AckedUpdatesKept /\ (FewClients => RecordsSound) /\ (part = "records" => RecordsTypeOK)
  <2>1. CASE part = "records"
    BY <2>1, InvImplies DEF ScansInv, RecordsInv, RecordsSound
  <2>2. CASE part # "records"
    BY <2>2 DEF ScansInv, NoRecordYet, RecordsSound, AckedUpdatesKept, CacheFollowsRow
  <2> QED BY <2>1, <2>2
<1>2. WalkComplete /\ (part = "history" => HistoryTypeOK)
  BY DEF ScansInv, HistoryInv, HistoryTypeOK, WalkComplete
<1>3. VerdictsBacked /\ (part = "presence" => PresenceTypeOK)
  BY DEF ScansInv, PresenceInv
<1>4. OutcomesSound /\ (part = "outcomes" => OutcomesTypeOK)
  BY DEF ScansInv, OutcomesInv
<1> QED BY <1>1, <1>2, <1>3, <1>4 DEF TypesOK

(* Whichever component a behaviour follows, it keeps its types, walks stay   *)
(* complete, verdicts backed and never blank, rows true to their reading,    *)
(* and no acknowledged update is lost; with few callers the cache follows    *)
(* the row.                                                                  *)
THEOREM ScansPromise ==
  ScansSpec =>
    /\ [](/\ TypesOK /\ WalkComplete /\ VerdictsBacked /\ OutcomesSound
          /\ AckedUpdatesKept /\ (FewClients => RecordsSound))
    /\ VerdictsNeverBlank
<1>1. ScansInit => ScansInv
  BY ScansInitInv
<1>2. ScansInv /\ [ScansNext]_ScansState => ScansInv' /\ [CellsKept]_presenceVars
  BY ScansNextInv
<1>3. ScansInv => /\ TypesOK /\ WalkComplete /\ VerdictsBacked /\ OutcomesSound
                  /\ AckedUpdatesKept /\ (FewClients => RecordsSound)
  BY ScansInvSound
<1>4. VerdictsNeverBlank <=> [][CellsKept]_presenceVars
  BY PTL DEF VerdictsNeverBlank, CellsKept
<1>5. ScansSpec => ScansInit /\ [][ScansNext]_ScansState
  BY DEF ScansSpec, ScansState
<1> QED BY <1>1, <1>2, <1>3, <1>4, <1>5, PTL
=============================================================================
