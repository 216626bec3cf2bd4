-------------------------- MODULE CatalogueOutcomes --------------------------
(***************************************************************************)
(* The durable catalogue of one user: DistroKidOutcomeRepository           *)
(* (packages/persistence/src/outcome-repository.ts) and everything that    *)
(* writes its track rows: the finalizer (replayed at will), the lyric scan *)
(* on the warm session (distrokid-lyric-scan.ts), the store-lyrics check   *)
(* (lyrics-verification.ts) with its API route, and manual track marks.    *)
(* The writers own different columns of the same rows.                     *)
(***************************************************************************)
EXTENDS ModelBounds

CONSTANTS
  Snapshots,   \* scans, numbered in the order they started
  Releases,    \* distributor release ids, stable across scans
  AlbumTracks, \* a release has 0..AlbumTracks tracks
  MaxPersists  \* bound on finalizer runs

ASSUME OutcomesAssumption ==
  Snapshots \subseteq Nat /\ IsFiniteSet(Snapshots) /\ AlbumTracks \in Nat

VARIABLES
  kind,     \* per snapshot and release: "none", "COMPLETED" or "FAILED"
  row,      \* per snapshot, release and index: the track row, or None
  read,     \* the track count of the last finalized reading of a release
  finalizer,\* the finalizer of a snapshot: "idle", "carry" or "queue"
  scanJob,  \* the lyric-scan job of a snapshot
  scan,     \* releases the lyric scan still has to visit
  progress, \* storeLyricsStatus of a snapshot
  check,    \* the store-lyrics job, its attempts and the tracks left
  asking,   \* the lyrics-check request in flight: None or [snap, pc]
  marked,   \* the marks the user set, per row
  stored    \* the store verdicts written, per row

outcomeState == <<kind, row, read, finalizer, scanJob, scan, progress, check, asking,
                  marked, stored>>
outcomeVars == <<outcomeState, boundVars>>

Indexes == 1..AlbumTracks
Marks == {"unmarked", "missing", "resolved"}
LyricStates == {"unknown", "present", "none"}
StoreStates == {"unknown", "found", "unverifiable"}
TrackRow == [lyric : LyricStates, store : StoreStates, mark : Marks]
NewRow == [lyric |-> "unknown", store |-> "unknown", mark |-> "unmarked"]
Keys == Snapshots \X Releases \X Indexes

(* The lyrics-check request in flight, and the store-lyrics job. *)
Request == [snap : Snapshots, pc : {"remove", "dispatch"}]
CheckJob == [state : {"none", "waiting", "active", "completed", "failed"},
             made : 0..MaxAttempts, left : SUBSET (Releases \X Indexes), failed : BOOLEAN]

(* None is no row and no request. *)
ASSUME NoRowAssumption == None \notin TrackRow /\ None \notin Request

OutcomesInit ==
  /\ kind = [s \in Snapshots |-> [r \in Releases |-> "none"]]
  /\ row = [k \in Keys |-> None]
  /\ read = [s \in Snapshots |-> [r \in Releases |-> 0]]
  /\ finalizer = [s \in Snapshots |-> "idle"]
  /\ scanJob = [s \in Snapshots |-> "none"]
  /\ scan = [s \in Snapshots |-> {}]
  /\ progress = [s \in Snapshots |-> "idle"]
  /\ check = [s \in Snapshots |-> [state |-> "none", made |-> 0, left |-> {}, failed |-> FALSE]]
  /\ asking = None
  /\ marked = [k \in Keys |-> "unmarked"]
  /\ stored = [k \in Keys |-> "unknown"]
  /\ BoundsInit

Known(s) == \E r \in Releases : kind[s][r] # "none"
RowsOf(s, r) == {t \in Indexes : row[<<s, r, t>>] # None}
Completed(s) == {r \in Releases : kind[s][r] = "COMPLETED"}

jobVars == <<scanJob, scan, progress, check, asking>>

-----------------------------------------------------------------------------
(* Broken variant: finalization upserts and deletes nothing. *)
UpsertedRowsKeepingOrphans(old, tracks, inline) ==
  [t \in Indexes |->
     IF t > tracks THEN old[t]
     ELSE IF old[t] = None THEN [NewRow EXCEPT !.lyric = inline]
     ELSE [old[t] EXCEPT !.lyric = inline]]

(* upsertOutcome: indexes beyond the reading are deleted, known indexes    *)
(* keep the columns of the other writers; the lyric columns are rewritten. *)
UpsertedRows(old, tracks, inline) ==
  [t \in Indexes |->
     IF t > tracks THEN None
     ELSE IF old[t] = None THEN [NewRow EXCEPT !.lyric = inline]
     ELSE [old[t] EXCEPT !.lyric = inline]]

(* persist: one transaction for the snapshot and all its releases; each is *)
(* either read with some tracks or failed.                                 *)
Persist(s) ==
  \E size \in [Releases -> 0..AlbumTracks], inline \in {"unknown", "present"} :
    LET Old(r) == [t \in Indexes |-> row[<<s, r, t>>]]
        New(r) == UpsertedRows(Old(r), size[r], inline)
    IN /\ finalizer[s] = "idle" /\ finals < MaxPersists
       /\ kind' = [kind EXCEPT ![s] =
            [r \in Releases |-> IF size[r] = 0 THEN "FAILED" ELSE "COMPLETED"]]
       /\ row' = [k \in Keys |-> IF k[1] = s THEN New(k[2])[k[3]] ELSE row[k]]
       /\ read' = [read EXCEPT ![s] = size]
       /\ marked' = [k \in Keys |-> IF k[1] = s /\ k[3] > size[k[2]] THEN "unmarked" ELSE marked[k]]
       /\ stored' = [k \in Keys |-> IF k[1] = s /\ k[3] > size[k[2]] THEN "unknown" ELSE stored[k]]
       /\ finalizer' = [finalizer EXCEPT ![s] = "carry"]
       /\ finals' = finals + 1
       /\ UNCHANGED <<jobVars, calls, faults>>

(* The newest other snapshot that read the lyrics of the same track. *)
PriorReads(s, r, t) ==
  {p \in Snapshots \ {s} : row[<<p, r, t>>] # None /\ row[<<p, r, t>>].lyric # "unknown"}

CarriedRow(s, r, t) ==
  LET mine == row[<<s, r, t>>]
      prior == PriorReads(s, r, t)
      newest == CHOOSE p \in prior : \A q \in prior : q <= p
  IN IF mine = None \/ prior = {} THEN mine
     ELSE IF mine.lyric # "unknown" THEN mine
     ELSE [mine EXCEPT !.lyric = row[<<newest, r, t>>].lyric]

(* carryForwardLyrics is best effort. *)
CarryForwardLyrics(s) ==
  /\ finalizer[s] = "carry"
  /\ \/ /\ row' = [k \in Keys |-> IF k[1] = s THEN CarriedRow(k[1], k[2], k[3]) ELSE row[k]]
        /\ UNCHANGED faults
     \/ /\ faults < MaxFaults /\ faults' = faults + 1 /\ UNCHANGED row
  /\ finalizer' = [finalizer EXCEPT ![s] = "queue"]
  /\ UNCHANGED <<kind, read, jobVars, marked, stored, finals, calls>>

(* The lyric scan is queued when something was read; the id is retained.   *)
(* The finalizer may fail here or later and be run again.                  *)
QueueLyricScan(s) ==
  /\ finalizer[s] = "queue"
  /\ finalizer' = [finalizer EXCEPT ![s] = "idle"]
  /\ scanJob' = IF scanJob[s] = "none" /\ Completed(s) # {}
                THEN [scanJob EXCEPT ![s] = "waiting"] ELSE scanJob
  /\ UNCHANGED <<kind, row, read, scan, progress, check, asking, marked, stored, finals, calls, faults>>

-----------------------------------------------------------------------------
(* readLyricScanTargets with unreadDistroKidLyricsOnly *)
Unread(s) ==
  {r \in Completed(s) : \E t \in RowsOf(s, r) : row[<<s, r, t>>].lyric = "unknown"}

(* No target or no session: the job ends at once. *)
StartLyricScan(s) ==
  /\ scanJob[s] = "waiting"
  /\ \/ /\ scanJob' = [scanJob EXCEPT ![s] = IF Unread(s) = {} THEN "done" ELSE "active"]
        /\ scan' = [scan EXCEPT ![s] = Unread(s)]
        /\ UNCHANGED faults
     \/ /\ faults < MaxFaults /\ faults' = faults + 1
        /\ scanJob' = [scanJob EXCEPT ![s] = "done"] /\ UNCHANGED scan
  /\ UNCHANGED <<kind, row, read, finalizer, progress, check, asking, marked, stored, finals, calls>>

(* One album page: some of its tracks show their lyric state.  The rows    *)
(* are addressed by the ids read at the start and may be gone.             *)
ReadAlbumLyrics(s) ==
  \E r \in scan[s], seen \in SUBSET Indexes :
    /\ scanJob[s] = "active"
    /\ row' = [k \in Keys |->
         IF k[1] = s /\ k[2] = r /\ k[3] \in seen /\ row[k] # None
         THEN [row[k] EXCEPT !.lyric = "none"] ELSE row[k]]
    /\ scan' = [scan EXCEPT ![s] = @ \ {r}]
    /\ UNCHANGED <<kind, read, finalizer, scanJob, progress, check, asking, marked, stored,
                   finals, calls, faults>>

(* All albums visited, the session window over, or the sweep failed. *)
EndLyricScan(s) ==
  /\ scanJob[s] = "active"
  /\ scan[s] = {} \/ faults < MaxFaults
  /\ faults' = IF scan[s] = {} THEN faults ELSE faults + 1
  /\ scanJob' = [scanJob EXCEPT ![s] = "done"]
  /\ scan' = [scan EXCEPT ![s] = {}]
  /\ UNCHANGED <<kind, row, read, finalizer, progress, check, asking, marked, stored, finals, calls>>

-----------------------------------------------------------------------------
rowVars == <<kind, row, read, finalizer, scanJob, scan, marked, stored, finals>>

(* POST .../lyrics-check reads the progress first and acts on it later. *)
LyricsCheck(s) ==
  /\ asking = None /\ calls < MaxCalls
  /\ Known(s) /\ progress[s] \notin {"queued", "running"}
  /\ calls' = calls + 1
  /\ asking' = [snap |-> s, pc |-> "remove"]
  /\ UNCHANGED <<rowVars, progress, check, faults>>

(* remove, then storeLyricsStatus = 'queued' *)
MarkCheckQueued ==
  LET s == asking.snap
  IN /\ asking # None /\ asking.pc = "remove"
     /\ check' = IF check[s].state = "active" THEN check
                 ELSE [check EXCEPT ![s].state = "none"]
     /\ progress' = [progress EXCEPT ![s] = "queued"]
     /\ asking' = [asking EXCEPT !.pc = "dispatch"]
     /\ UNCHANGED <<rowVars, calls, faults>>

DispatchCheck ==
  LET s == asking.snap
  IN /\ asking # None /\ asking.pc = "dispatch"
     /\ \/ /\ check' = IF check[s].state # "none" THEN check
                       ELSE [check EXCEPT ![s] = [state |-> "waiting", made |-> 0, left |-> {},
                                                  failed |-> FALSE]]
           /\ UNCHANGED <<progress, faults>>
        \/ /\ faults < MaxFaults /\ faults' = faults + 1
           /\ progress' = [progress EXCEPT ![s] = "error"] /\ UNCHANGED check
     /\ asking' = None
     /\ UNCHANGED <<rowVars, calls>>

(* runLyricsVerification reads its tracks; nothing to check is done. *)
StartCheck(s) ==
  LET tracks == {k \in Completed(s) \X Indexes : k[2] \in RowsOf(s, k[1])}
  IN /\ check[s].state = "waiting"
     /\ progress' = [progress EXCEPT ![s] = IF tracks = {} THEN "done" ELSE "running"]
     /\ check' = [check EXCEPT ![s] =
          [state |-> IF tracks = {} THEN "completed" ELSE "active", made |-> @.made + 1,
           left |-> tracks, failed |-> TRUE]]
     /\ UNCHANGED <<rowVars, asking, calls, faults>>

(* The last chunk of a release is resolved and its tracks are flushed; a   *)
(* failed lookup is unverifiable, never "no lyrics".  A row that has gone  *)
(* since is not written.                                                   *)
CheckRelease(s) ==
  \E r \in {k[1] : k \in check[s].left}, verdict \in {"found", "unverifiable"} :
    LET mine == {k \in check[s].left : k[1] = r}
        Hit(k) == k[1] = s /\ <<k[2], k[3]>> \in mine /\ row[k] # None
    IN /\ check[s].state = "active"
       /\ verdict = "unverifiable" => faults < MaxFaults
       /\ faults' = IF verdict = "unverifiable" THEN faults + 1 ELSE faults
       /\ row' = [k \in Keys |-> IF Hit(k) THEN [row[k] EXCEPT !.store = verdict] ELSE row[k]]
       /\ stored' = [k \in Keys |-> IF Hit(k) THEN verdict ELSE stored[k]]
       /\ check' = [check EXCEPT ![s].left = @ \ mine,
                                 ![s].failed = @ /\ verdict = "unverifiable"]
       /\ progress' = [progress EXCEPT ![s] = "running"]
       /\ UNCHANGED <<kind, read, finalizer, scanJob, scan, asking, marked, finals, calls>>

(* Every lookup failed: error and another attempt; otherwise done. *)
EndCheck(s) ==
  /\ check[s].state = "active" /\ check[s].left = {}
  /\ progress' = [progress EXCEPT ![s] = IF check[s].failed THEN "error" ELSE "done"]
  /\ check' = [check EXCEPT ![s].state =
       IF ~check[s].failed THEN "completed"
       ELSE IF check[s].made < MaxAttempts THEN "waiting" ELSE "failed"]
  /\ UNCHANGED <<rowVars, asking, calls, faults>>

(* updateTrackMarks of the repository writes the mark's columns only. *)
MarkedRow(key, m) == [row EXCEPT ![key].mark = m]

(* POST .../track-marks *)
UpdateTrackMarks(s) ==
  \E r \in Releases, t \in Indexes, m \in Marks :
    /\ calls < MaxCalls /\ row[<<s, r, t>>] # None /\ row[<<s, r, t>>].mark # m
    /\ row' = MarkedRow(<<s, r, t>>, m)
    /\ marked' = [marked EXCEPT ![<<s, r, t>>] = m]
    /\ calls' = calls + 1
    /\ UNCHANGED <<kind, read, finalizer, jobVars, stored, finals, faults>>

OutcomesNext ==
  \/ MarkCheckQueued \/ DispatchCheck
  \/ \E s \in Snapshots :
       \/ Persist(s) \/ CarryForwardLyrics(s) \/ QueueLyricScan(s)
       \/ StartLyricScan(s) \/ ReadAlbumLyrics(s) \/ EndLyricScan(s)
       \/ LyricsCheck(s) \/ StartCheck(s) \/ CheckRelease(s) \/ EndCheck(s)
       \/ UpdateTrackMarks(s)

OutcomesSpec == OutcomesInit /\ [][OutcomesNext]_outcomeVars

-----------------------------------------------------------------------------
OutcomesTypeOK ==
  /\ kind \in [Snapshots -> [Releases -> {"none", "COMPLETED", "FAILED"}]]
  /\ row \in [Keys -> TrackRow \cup {None}]
  /\ read \in [Snapshots -> [Releases -> 0..AlbumTracks]]
  /\ finalizer \in [Snapshots -> {"idle", "carry", "queue"}]
  /\ scanJob \in [Snapshots -> {"none", "waiting", "active", "done"}]
  /\ scan \in [Snapshots -> SUBSET Releases]
  /\ progress \in [Snapshots -> {"idle", "queued", "running", "done", "error"}]
  /\ check \in [Snapshots -> CheckJob] /\ asking \in Request \cup {None}
  /\ marked \in [Keys -> Marks] /\ stored \in [Keys -> StoreStates]
  /\ calls \in Nat /\ faults \in 0..MaxFaults

(* However often a finalizer is replayed, with longer, shorter or failed   *)
(* readings, and whatever lyric scans and checks write in between, the     *)
(* track rows are exactly the tracks of the last finalized reading: no     *)
(* orphan of an earlier one, no row under a failed release                 *)
(* (upsertOutcome).                                                        *)
RowsMatchReading ==
  \A s \in Snapshots, r \in Releases :
    RowsOf(s, r) = IF kind[s][r] = "COMPLETED" THEN 1..read[s][r] ELSE {}

(* Writers of one row do not disturb each other: a row shows the mark the  *)
(* user set last and the store verdict written last, through finalizer     *)
(* replays, carried lyrics and both lyric passes (persist,                 *)
(* updateTrackLyrics, updateStoreLyrics, updateTrackMarks).                *)
ColumnsIndependent ==
  \A k \in Keys : row[k] # None => row[k].mark = marked[k] /\ row[k].store = stored[k]

(* What the outcome tables promise their readers. *)
OutcomesSound == RowsMatchReading /\ ColumnsIndependent
=============================================================================
