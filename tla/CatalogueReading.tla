-------------------------- MODULE CatalogueReading --------------------------
(***************************************************************************)
(* The components that read a catalogue and the stores and state what is   *)
(* missing.  They meet only through promises each one is shown to keep     *)
(* (the pipeline relies on the index and on the readings), so a behaviour  *)
(* follows one of them, chosen in the initial state.                       *)
(***************************************************************************)
EXTENDS CheckpointCache, CatalogIndex, NetworkExtractor, ReadOnlyGuard, TabPool, StoreScan,
        LyricSearch, AuditWorkflow

CONSTANT Truths   \* what the lyric stores may hold of the songs

VARIABLE part

Parts == {"cache", "index", "extractor", "guard", "pool", "stores", "lyrics", "audit"}

\* Requests, edits and faults each part may get.
PartCalls == CASE part = "cache" -> 3 [] part \in {"lyrics", "guard"} -> 1 [] OTHER -> 2
PartFaults == IF part = "lyrics" THEN 2 ELSE 1

\* A part that is not followed keeps one of its initial states.
ReadingInit ==
  /\ part \in Parts
  /\ IF part = "cache" THEN TRUE ELSE kept = "index"
  /\ IF part = "index" THEN TRUE ELSE shown = [r \in IndexReleases |-> CHOOSE s \in RowShapes : TRUE]
  /\ IF part = "extractor" THEN TRUE
     ELSE profile = [f \in Endpoints |-> IF f \in KnownEndpoints THEN ProfileRow("CANDIDATE", 0) ELSE None]
  /\ IF part = "stores" THEN TRUE
     ELSE quick = FALSE /\ provider = "Deezer" /\ onStore = {} /\ isrcOwner = "nobody"
  /\ IF part = "lyrics" THEN truth \in Truths ELSE truth = CHOOSE t \in Truths : TRUE
  /\ IF part = "audit" THEN TRUE
     ELSE /\ export = [i \in 1 .. NRows |-> CHOOSE r \in RawRows : TRUE]
          /\ uploads = [i \in 1 .. NUploads |-> CHOOSE u \in RawUploads : TRUE]
  /\ CacheInit /\ IndexInit /\ ExtractorInit /\ GuardInit /\ PoolInit /\ ScanInit /\ SearchInit /\ AuditInit

ReadingNext ==
  /\ UNCHANGED part
  /\ IF part = "cache" THEN CacheNext ELSE UNCHANGED cacheState
  /\ IF part = "index" THEN IndexNext ELSE UNCHANGED indexState
  /\ IF part = "extractor" THEN ExtractorNext ELSE UNCHANGED extractorState
  /\ IF part = "guard" THEN GuardNext ELSE UNCHANGED guardState
  /\ IF part = "pool" THEN PoolNext ELSE UNCHANGED poolState
  /\ IF part = "stores" THEN ScanNext ELSE UNCHANGED scanState
  /\ IF part = "lyrics" THEN SearchNext ELSE UNCHANGED searchState
  /\ IF part = "audit" THEN AuditNext ELSE UNCHANGED auditState
  /\ calls' <= PartCalls /\ faults' <= PartFaults

ReadingSpec ==
  ReadingInit /\ [][ReadingNext]_<<part, cacheState, indexState, extractorState, guardState, poolState,
                        scanState, searchState, auditState, boundVars>>

(* The component a behaviour follows keeps its types. *)
TypesOK ==
  /\ part = "cache" => CacheTypeOK
  /\ part = "index" => IndexTypeOK
  /\ part = "extractor" => ExtractorTypeOK
  /\ part = "guard" => GuardTypeOK
  /\ part = "pool" => PoolTypeOK
  /\ part = "stores" => ScanTypeOK
  /\ part = "lyrics" => SearchTypeOK
  /\ part = "audit" => AuditTypeOK

(* What extraction promises: a release is read from its own data, trusting   *)
(* only endpoints that earned it, and reading changes nothing in the account *)
(* while no read the dashboard needs is aborted.                             *)
ExtractionSound == ReadingsSound /\ GuardReadsOnly
=============================================================================
