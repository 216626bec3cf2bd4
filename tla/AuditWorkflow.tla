---------------------------- MODULE AuditWorkflow ----------------------------
(***************************************************************************)
(* findMissingAudiomackSongs (packages/engine): a consent-gated run reads  *)
(* the distributor's export, lists the confirmed Audiomack profile,        *)
(* classifies every expected track and stores issues, two support packets  *)
(* and the run.  Runs are repeated, each may die at any of its awaits, and *)
(* uploads leave the store meanwhile.                                      *)
(***************************************************************************)
EXTENDS TrackMatching, Sequences

CONSTANTS
  RawRows,     \* rows an export may hold: [title, artist, isrc, dur, rel, opt]
  RawUploads,  \* uploads a store may hold: [title, artist, isrc, dur, profile, listed, status]
  NRows,       \* tracks of the export
  NUploads     \* uploads in the store at first

CreditsFinite(raw) ==
  /\ IsFiniteSet(raw.artist)
  /\ raw.title.seg # None /\ raw.title.seg.kind = "feat" => IsFiniteSet(raw.title.seg.val)

ASSUME AuditAssumption ==
  /\ {NRows, NUploads} \subseteq Nat
  /\ \A raw \in RawRows : CreditsFinite(raw)
  /\ \A raw \in RawUploads : CreditsFinite(raw)

VARIABLES
  export,    \* the distributor's export: its rows, grouped by release
  uploads,   \* what the store holds: a sequence of uploads
  consent,   \* whether the grant is valid and covers the scopes
  audit,     \* the run in progress
  library,   \* repository: tracks, issues, packets and runs
  objects    \* object store: the rows of each packet's artifacts

auditState == <<export, uploads, consent, audit, library, objects>>
auditVars == <<auditState, boundVars>>

Templates == {"distrokid-missing-audiomack", "audiomack-verify"}
Formats == <<"csv", "html", "json">>
AudiomackArtist == {"artist"}

NoAudit == [pc |-> "idle", no |-> 0, canonical |-> None, listed |-> <<>>, complete |-> FALSE,
            classified |-> <<>>, issues |-> {}, packet |-> None, stored |-> 0]

AuditInit ==
  /\ export \in [1 .. NRows -> RawRows]
  /\ uploads \in [1 .. NUploads -> RawUploads]
  /\ consent = TRUE
  /\ audit = NoAudit
  /\ library = [tracks |-> {}, issues |-> {}, packets |-> [t \in Templates |-> None], runs |-> {}]
  /\ objects = [t \in Templates |-> [f \in 1 .. Len(Formats) |-> None]]
  /\ BoundsInit

AuditFault == faults < MaxFaults /\ faults' = faults + 1

-----------------------------------------------------------------------------
(* The environment: an upload leaves the store, consent is withdrawn.       *)
Withdraw(i) ==
  /\ calls < MaxCalls /\ calls' = calls + 1
  /\ uploads' = [j \in 1 .. Len(uploads) - 1 |-> IF j < i THEN uploads[j] ELSE uploads[j + 1]]
  /\ UNCHANGED <<export, consent, audit, library, objects, finals, faults>>

RevokeConsent ==
  /\ consent /\ consent' = FALSE
  /\ calls < MaxCalls /\ calls' = calls + 1
  /\ UNCHANGED <<export, uploads, audit, library, objects, finals, faults>>

-----------------------------------------------------------------------------
\* The positions in K, from the first to the last.
InOrder(K) ==
  [k \in 1 .. Cardinality(K) |-> CHOOSE i \in K : Cardinality({j \in K : j < i}) = k - 1]

(* stableId: a track is its ISRC, or its place in its release.              *)
TrackId(i) ==
  LET row == export[i]
  IN IF row.isrc # None THEN <<row.isrc>>
     ELSE <<row.rel, Cardinality({j \in 1 .. i : export[j].rel = row.rel}), row.title>>

\* parseCatalog makes a release of the rows that share a key (UPC, release id
\* or title) and takes its stores from the first of them.
FirstOf(S) == CHOOSE i \in S : \A j \in S : i <= j
OptedIn(rel) == export[FirstOf({i \in DOMAIN export : export[i].rel = rel})].opt

\* mapDistributorSnapshot and the puts: the last track with an id stays.
ImportedTracks ==
  {[id |-> TrackId(i), rel |-> export[i].rel] :
     i \in {j \in DOMAIN export : \A k \in DOMAIN export : TrackId(k) = TrackId(j) => k <= j}}
PutTracks(known) ==
  {t \in known : \A n \in ImportedTracks : n.id # t.id} \union ImportedTracks

\* Consent, the export and the puts of its tracks: nothing is awaited after
\* the export has been read.  The clock stamps the run with its number.
StartAudit ==
  /\ audit.pc = "idle" /\ calls < MaxCalls /\ calls' = calls + 1
  /\ consent
  /\ audit' = [NoAudit EXCEPT !.pc = "resolve", !.no = audit.no + 1]
  /\ library' = [library EXCEPT !.tracks = PutTracks(@)]
  /\ UNCHANGED <<export, uploads, consent, objects, finals, faults>>

\* resolveArtist finds the profile, or no candidate.
ResolveProfile ==
  /\ audit.pc = "resolve"
  /\ \E canonical \in {"own", None} :
       audit' = [audit EXCEPT !.pc = "list", !.canonical = canonical]
  /\ UNCHANGED <<export, uploads, consent, library, objects, boundVars>>

\* listArtistCatalog: everything the profile's page shows, or a first part
\* of it that is not complete; nothing without a profile.
OnPage ==
  LET places == InOrder({i \in DOMAIN uploads : uploads[i].listed})
  IN  [k \in DOMAIN places |-> uploads[places[k]]]
ListUploads ==
  /\ audit.pc = "list"
  /\ IF audit.canonical = None
       THEN audit' = [audit EXCEPT !.pc = "audit"]
       ELSE \E n \in 0 .. Len(OnPage) :
              audit' = [audit EXCEPT !.pc = "audit", !.listed = SubSeq(OnPage, 1, n),
                                     !.complete = (n = Len(OnPage))]
  /\ UNCHANGED <<export, uploads, consent, library, objects, boundVars>>

-----------------------------------------------------------------------------
(* runAudiomackAudit: every track of an opted-in release is classified.     *)
Expected == InOrder({i \in DOMAIN export : OptedIn(export[i].rel)})

\* this_findCrossProfile: the store's search by title, away from the
\* confirmed profile.
OffProfile(row) ==
  {i \in DOMAIN uploads :
     /\ uploads[i].profile # audit.canonical
     /\ ParseTitle(uploads[i].title).base = ParseTitle(row.title).base}

Verdict(status, reason, score) == [status |-> status, reason |-> reason, score |-> score]

MatchedVerdict(upload, score) ==
  IF upload.status = "removed-takedown"
    THEN Verdict("present-unplayable", "TAKEDOWN_OR_REMOVAL", score)
  ELSE IF upload.status = "private-unplayable"
    THEN Verdict("present-unplayable", "PROCESSING_DELAY", score)
  ELSE IF audit.canonical # None /\ upload.profile # audit.canonical
    THEN Verdict("present-duplicate-profile", "DUPLICATE_ARTIST_PROFILE", score)
  ELSE Verdict("present", None, score)

UnmatchedVerdict(row) ==
  IF OffProfile(row) = {}
    THEN Verdict("missing", "MISSING_ON_PLATFORM", IF audit.complete THEN 950 ELSE 600)
  ELSE IF uploads[FirstOf(OffProfile(row))].artist = AudiomackArtist
    THEN Verdict("present-duplicate-profile", "DUPLICATE_ARTIST_PROFILE", 850)
  ELSE Verdict("present-wrong-profile", "WRONG_ARTIST_PROFILE", 850)

Classify(row) ==
  LET items == [i \in DOMAIN audit.listed |-> NormalizedItem(audit.listed[i])]
      subject == NormalizedItem(row)
      best == BestIndex(subject, items)
      score == ScoreMatch(subject, items[best])
      decision == Decision(subject, items[best])
  IN IF audit.listed = <<>> THEN UnmatchedVerdict(row)
     ELSE CASE decision = "matched"       -> MatchedVerdict(audit.listed[best], score)
            [] decision = "review"        -> Verdict("review", "UNKNOWN_NEEDS_REVIEW", score)
            [] decision = "wrong-profile" -> Verdict("review", "WRONG_ARTIST_PROFILE", score)
            [] OTHER                      -> UnmatchedVerdict(row)

\* buildIssue: the id is made of the reason and the track, or "ws".
BuildIssue(reason, track) == <<reason, IF track = None THEN "ws" ELSE track>>

TrackIssues(i, verdict) ==
  {BuildIssue(r, TrackId(i)) : r \in {verdict.reason} \ {None}}
    \union (IF export[i].isrc = None THEN {BuildIssue("ISRC_MISSING", TrackId(i))} ELSE {})

ClassifyNext ==
  /\ audit.pc = "audit" /\ Len(audit.classified) < Len(Expected)
  /\ LET i == Expected[Len(audit.classified) + 1]
         verdict == Classify(export[i])
     IN audit' = [audit EXCEPT !.classified = Append(@, verdict),
                               !.issues = @ \union TrackIssues(i, verdict)]
  /\ UNCHANGED <<export, uploads, consent, library, objects, boundVars>>

\* The issues about the workspace: no uploads, and ISRCs shared by
\* different recordings.
NotConnected == audit.canonical = None \/ (audit.listed = <<>> /\ Expected # <<>>)
SharedIsrcs == DuplicateIsrcs({NormalizedItem(export[i]) : i \in DOMAIN export})
WorkspaceIssues ==
  (IF NotConnected THEN {BuildIssue("AUDIOMACK_NOT_CONNECTED", None)} ELSE {})
    \union {BuildIssue("DUPLICATE_ISRC", None) : k \in SharedIsrcs}

MissingRows ==
  {<<TrackId(Expected[i]), audit.classified[i].score>> :
     i \in {j \in DOMAIN audit.classified : audit.classified[j].status = "missing"}}

PutIssues ==
  /\ audit.pc = "audit" /\ Len(audit.classified) = Len(Expected)
  /\ library' = [library EXCEPT !.issues = @ \union audit.issues \union WorkspaceIssues]
  /\ audit' = [audit EXCEPT !.pc = "packet", !.packet = "distrokid-missing-audiomack"]
  /\ UNCHANGED <<export, uploads, consent, objects, boundVars>>

-----------------------------------------------------------------------------
(* persistPacket: the artifacts one after the other, each at a key that a   *)
(* later run writes again, then the packet's record.                        *)
PutArtifact ==
  /\ audit.pc = "packet" /\ audit.stored < Len(Formats)
  /\ objects' = [objects EXCEPT ![audit.packet][audit.stored + 1] = MissingRows]
  /\ audit' = [audit EXCEPT !.stored = @ + 1]
  /\ UNCHANGED <<export, uploads, consent, library, boundVars>>

ArtifactsStored == audit.stored = Len(Formats)

\* The record of the second packet is followed by the run's.
(* The ScanRun of a finished audit *)
ScanRun == [no |-> audit.no, complete |-> audit.complete, missing |-> MissingRows]

PutPacket ==
  /\ audit.pc = "packet" /\ ArtifactsStored
  /\ LET packets == [library.packets EXCEPT ![audit.packet] = MissingRows]
     IN IF audit.packet = "distrokid-missing-audiomack"
          THEN /\ audit' = [audit EXCEPT !.packet = "audiomack-verify", !.stored = 0]
               /\ library' = [library EXCEPT !.packets = packets]
          ELSE /\ audit' = [NoAudit EXCEPT !.no = audit.no]
               /\ library' = [library EXCEPT !.packets = packets,
                                             !.runs = @ \union {ScanRun}]
  /\ UNCHANGED <<export, uploads, consent, objects, boundVars>>

\* An awaited call throws: the run ends where it is.
AuditFails ==
  /\ audit.pc # "idle" /\ AuditFault
  /\ audit' = [NoAudit EXCEPT !.no = audit.no]
  /\ UNCHANGED <<export, uploads, consent, library, objects, calls, finals>>

AuditNext ==
  \/ \E i \in DOMAIN uploads : Withdraw(i)
  \/ RevokeConsent
  \/ StartAudit \/ ResolveProfile \/ ListUploads \/ ClassifyNext
  \/ PutIssues \/ PutArtifact \/ PutPacket \/ AuditFails

AuditSpec == AuditInit /\ [][AuditNext]_auditVars

-----------------------------------------------------------------------------
AuditTypeOK ==
  /\ audit.pc \in {"idle", "resolve", "list", "audit", "packet"}
  /\ audit.stored \in 0 .. Len(Formats)
  /\ audit.packet \in Templates \union {None}
  /\ \A i \in DOMAIN audit.classified : audit.classified[i].score \in 0 .. 1000
  /\ \A r \in library.runs : r.no \in 1 .. audit.no

\* The same recording, whatever the scores say: the ISRCs agree, or the titles
\* and versions do and neither ISRC nor length contradicts them.
SameRecording(s, t) ==
  \/ SameIsrc(s, t)
  \/ /\ s.base = t.base /\ s.versions = t.versions
     /\ ~IsrcConflict(s, t) /\ DurationScore(s, t) # 0

(* A track that a run reports missing from a completely listed profile has  *)
(* no upload there that is the same recording and credits the same artists  *)
(* (one credit list within the other).  An upload with the track's ISRC     *)
(* that credits somebody else is left to a person: it outranks the others   *)
(* (workflow.ts, audiomack-audit.ts, matcher.ts).                           *)
MissingIsAbsent ==
  \A i \in DOMAIN audit.classified :
    LET subject == NormalizedItem(export[Expected[i]])
        items == {NormalizedItem(audit.listed[j]) : j \in DOMAIN audit.listed}
    IN (audit.classified[i].status = "missing" /\ audit.complete) =>
         \/ \E t \in items : SameIsrc(subject, t) /\ ArtistMismatch(subject, t)
         \/ \A t \in items : SameRecording(subject, t) => Overlap(subject.keys, t.keys) < 1000

(* A recorded run left both packets and all their artifacts with exactly    *)
(* the tracks it found missing; they stay so until a later run starts to    *)
(* write packets (workflow.ts persistPacket).                               *)
RunsLeaveWholePackets ==
  \A r \in library.runs :
    (r.no = audit.no /\ audit.pc = "idle") =>
      \A t \in Templates :
        /\ library.packets[t] = r.missing
        /\ \A f \in 1 .. Len(Formats) : objects[t][f] = r.missing

(* What an audit run promises its reader. *)
AuditSound == MissingIsAbsent /\ RunsLeaveWholePackets
=============================================================================
