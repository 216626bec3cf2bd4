-------------------------- MODULE NetworkExtractor --------------------------
(***************************************************************************)
(* NetworkFirstExtractor: the tabs of one browser context read the         *)
(* releases of a chunk by watching the JSON the dashboard itself fetches.  *)
(* Every tab's discovery listener hears the responses of every tab, and a  *)
(* body is read only after its response event, so a body may arrive when   *)
(* the tab is already on another release.  The endpoint registry remembers *)
(* which endpoints carried release data; it is read and written in two     *)
(* statements.                                                             *)
(***************************************************************************)
EXTENDS ModelBounds

CONSTANTS
  ReadTabs,      \* the tabs of the chunk's browser context
  NRefs,         \* the releases of the chunk are 1..NRefs
  Endpoints,     \* sanitized endpoint fingerprints
  KnownEndpoints, \* those that earlier runs registered
  PromoteAfter,  \* VALIDATION_CAPTURES_REQUIRED
  DegradeAfter,  \* DEGRADE_AFTER_FAILURES
  MaxBodies      \* bound on the response bodies the listeners read

ASSUME ExtractorAssumption ==
  /\ {PromoteAfter, DegradeAfter} \subseteq Nat \ {0}
  /\ {NRefs, MaxBodies} \subseteq Nat /\ IsFiniteSet(ReadTabs)

VARIABLES
  reader,    \* each tab: where it is, its release, capture window, policy and hit
  caps,      \* each tab's discovery captures of its window
  cdpCaps,   \* each tab's captures by the CDP session of its page
  bodies,    \* bodies being read: one per listener of a response
  responses, \* bodies the listeners began to read so far
  profile,   \* the endpoint registry
  goodReads, \* endpoint -> parsed captures reported to the registry
  readings,  \* release -> how it was completed and from which captures
  nextRef    \* the next release a tab takes

extractorState == <<reader, caps, cdpCaps, bodies, responses, profile, goodReads,
                    readings, nextRef>>
extractorVars == <<extractorState, boundVars>>

ReadRefs == 1..NRefs

IdleReader ==
  [at |-> "idle", ref |-> None, epoch |-> 0, active |-> {}, heuristic |-> TRUE,
   hit |-> None, via |-> None, row |-> None, merged |-> {}]

ProfileRow(status, ok) == [status |-> status, ok |-> ok, failed |-> 0]

ExtractorInit ==
  /\ reader = [t \in ReadTabs |-> IdleReader]
  /\ caps = [t \in ReadTabs |-> {}] /\ cdpCaps = [t \in ReadTabs |-> {}]
  /\ bodies = {} /\ responses = 0 /\ nextRef = 1
  /\ profile \in [Endpoints -> {None, ProfileRow("CANDIDATE", 0), ProfileRow("ACTIVE", PromoteAfter)}]
  /\ \A f \in Endpoints : profile[f] = None <=> f \notin KnownEndpoints
  /\ goodReads = [f \in Endpoints |-> IF profile[f] = None THEN 0 ELSE profile[f].ok]
  /\ readings = [r \in ReadRefs |-> None]

Reads(t, new) == reader' = [reader EXCEPT ![t] = new]

(* A capture becomes the hit of the release; the policy has done its work. *)
Hit(t, c, via) ==
  [reader[t] EXCEPT !.at = "parse", !.hit = c, !.via = via, !.active = {}, !.heuristic = TRUE]

(* The hit did not parse: it is given up for what the page itself shows. *)
WithoutHit(t) ==
  [IdleReader EXCEPT !.at = "lower", !.ref = reader[t].ref, !.epoch = reader[t].epoch]

-----------------------------------------------------------------------------
(* Which release a request names: the expected one, another one of the chunk, *)
(* or none, which only associates it in time.                                 *)
CorrelateRequest(resp, expected) ==
  CASE resp.names = None -> "temporal"
    [] resp.names = expected -> "match"
    [] OTHER -> "other"

(* A response of some page.  What it is about shows in its payload or not.    *)
(* Every listener notes its own window and release at the response event (the *)
(* listener of a tab between two releases starts its next one afresh).  The   *)
(* CDP session of the page hears it too, unless it was not attached or cannot *)
(* get the body.                                                              *)
Listening == {t \in ReadTabs : reader[t].at # "idle"}

BodiesOf(resp, page, heard) ==
  {[tab |-> t, cdp |-> FALSE, resp |-> resp, epoch |-> reader[t].epoch, rel |-> reader[t].ref] :
     t \in Listening}
  \cup IF heard THEN {[tab |-> page, cdp |-> TRUE, resp |-> resp, epoch |-> 0, rel |-> None]} ELSE {}

ResponseArrives ==
  /\ \E resp \in [names : ReadRefs \cup {None}, fp : Endpoints, pid : ReadRefs \cup {None}],
        page \in Listening, heard \in BOOLEAN :
       /\ resp.names # None => resp.pid = resp.names
       /\ responses' = responses + Cardinality(Listening) + (IF heard THEN 1 ELSE 0)
       /\ bodies' = bodies \cup BodiesOf(resp, page, heard)
  /\ responses' <= MaxBodies
  /\ UNCHANGED <<reader, caps, cdpCaps, profile, goodReads, readings, nextRef, boundVars>>

(* scoreAgainstPolicy: 0 rejects, otherwise more evidence ranks higher. *)
ScoreAgainstPolicy(c, p) ==
  CASE c.kind = "other" -> 0
    [] c.resp.fp \in p.active /\ c.kind = "match" -> 4
    [] c.resp.fp \in p.active /\ c.kind = "temporal" -> 3
    [] c.resp.fp \notin p.active /\ ~p.heuristic -> 0
    [] OTHER -> IF c.kind = "match" THEN 2 ELSE 1

(* Broken variant: a body may enter whatever window is open when it arrives. *)
SameWindowAlways(b) == TRUE

(* A response belongs to the window in which its event fired. *)
SameWindow(b) == b.epoch = reader[b.tab].epoch

(* The listener after its body: the capture, and the waiter it resolves.  A *)
(* body of an earlier window is dropped.                                    *)
DiscoveryBody ==
  \E b \in bodies :
    LET t == b.tab
        c == [resp |-> b.resp, kind |-> CorrelateRequest(b.resp, b.rel)]
    IN  /\ ~b.cdp /\ SameWindow(b)
        /\ bodies' = bodies \ {b}
        /\ caps' = [caps EXCEPT ![t] = @ \cup {c}]
        /\ IF reader[t].at = "wait" /\ ScoreAgainstPolicy(c, reader[t]) > 0
           THEN Reads(t, Hit(t, c, "network"))
           ELSE UNCHANGED reader
        /\ UNCHANGED <<cdpCaps, responses, profile, goodReads, readings, nextRef, boundVars>>

(* The CDP session of one page: no window, and the release of the moment. *)
CdpBody ==
  \E b \in bodies :
    /\ b.cdp
    /\ bodies' = bodies \ {b}
    /\ LET t == b.tab
           c == [resp |-> b.resp, kind |-> CorrelateRequest(b.resp, reader[t].ref)]
       IN  /\ cdpCaps' = [cdpCaps EXCEPT ![t] = @ \cup {c}]
           /\ IF reader[t].at = "cdpWait"
              THEN Reads(t, Hit(t, c, "cdp"))
              ELSE UNCHANGED reader
    /\ UNCHANGED <<caps, responses, profile, goodReads, readings, nextRef, boundVars>>

-----------------------------------------------------------------------------
(* A tab takes the next release: new windows, empty captures, and the policy *)
(* of the profiles that are ACTIVE now.                                      *)
StartRelease(t) ==
  /\ reader[t].at = "idle" /\ nextRef \in ReadRefs
  /\ nextRef' = nextRef + 1
  /\ caps' = [caps EXCEPT ![t] = {}] /\ cdpCaps' = [cdpCaps EXCEPT ![t] = {}]
  /\ Reads(t, [reader[t] EXCEPT !.at = "navigate", !.ref = nextRef, !.epoch = reader[t].epoch + 1])
  /\ UNCHANGED <<bodies, responses, profile, goodReads, readings, boundVars>>

StatusOfProfile(f) == IF profile[f] = None THEN "none" ELSE profile[f].status

(* A registry that cannot be listed counts as an empty one. *)
ReleaseMatchPolicy(t) ==
  \E listed \in {Endpoints, {}} :
    LET active == {f \in listed : StatusOfProfile(f) = "ACTIVE"}
    IN  /\ reader[t].at = "navigate"
        /\ Reads(t, [reader[t] EXCEPT !.at = "goto", !.active = active,
             !.heuristic = (active = {} \/ \E f \in listed : StatusOfProfile(f) = "DEGRADED")])
        /\ UNCHANGED <<caps, cdpCaps, bodies, responses, profile, goodReads, readings, nextRef,
                       boundVars>>

(* A terminal outcome.  The captures of the window are not read again: the *)
(* next release starts with a reset.                                       *)
ReadOutcome(t, via, used) ==
  /\ readings' = [readings EXCEPT ![reader[t].ref] =
                    [via |-> via, named |-> {c.resp.names : c \in used} \ {None}]]
  /\ caps' = [caps EXCEPT ![t] = {}] /\ cdpCaps' = [cdpCaps EXCEPT ![t] = {}]
  /\ reader' = [reader EXCEPT ![t] = [IdleReader EXCEPT !.epoch = reader[t].epoch]]

(* No captured payload is used: the release failed, or the page itself (its  *)
(* state or its DOM) was read, which the properties do not tell apart.       *)
Finish(t) ==
  /\ ReadOutcome(t, "uncaptured", {})
  /\ UNCHANGED <<bodies, responses, profile, goodReads, nextRef, boundVars>>

(* The best matches among the responses captured already. *)
BestMatches(t) ==
  LET rank(c) == ScoreAgainstPolicy(c, reader[t])
  IN  {c \in caps[t] : rank(c) > 0 /\ \A d \in caps[t] : rank(d) <= rank(c)}

(* goto: refused or failed, or a response captured already, or a wait for one. *)
MoveTab(t) ==
  /\ reader[t].at = "goto"
  /\ \/ Finish(t)
     \/ /\ IF BestMatches(t) = {} THEN Reads(t, [reader[t] EXCEPT !.at = "wait"])
           ELSE \E c \in BestMatches(t) :
                  Reads(t, Hit(t, c, "network"))
        /\ UNCHANGED <<caps, cdpCaps, bodies, responses, profile, goodReads, readings,
                       nextRef, boundVars>>

(* No match in time: a capture of the CDP session, now or within two seconds. *)
MatchTimeout(t) ==
  /\ reader[t].at = "wait"
  /\ IF cdpCaps[t] = {} THEN Reads(t, [reader[t] EXCEPT !.at = "cdpWait"])
     ELSE \E c \in cdpCaps[t] :
            Reads(t, Hit(t, c, "cdp"))
  /\ UNCHANGED <<caps, cdpCaps, bodies, responses, profile, goodReads, readings, nextRef,
                 boundVars>>

(* Nothing captured at all: the page itself is read, or the release timed out. *)
LowerTiers(t) ==
  /\ reader[t].at \in {"cdpWait", "lower"}
  /\ Finish(t)

(* The hit parses or it does not.  If it has gaps, the merge waits a little    *)
(* for a sibling endpoint: bodies may arrive before it.                        *)
ParseHit(t) ==
  /\ reader[t].at = "parse"
  /\ \/ Reads(t, [reader[t] EXCEPT !.at = "merge"])
     \/ Reads(t, [reader[t] EXCEPT !.at = "driftGet"])
  /\ UNCHANGED <<caps, cdpCaps, bodies, responses, profile, goodReads, readings, nextRef,
                 boundVars>>

(* The captures that may fill gaps: of another endpoint, not named for another *)
(* release, and correlated by their request or by the id in their payload.     *)
MergedCaptures(t) ==
  {c \in caps[t] :
     /\ c.resp.fp # reader[t].hit.resp.fp /\ c.kind # "other"
     /\ \/ c.kind = "match"
        \/ c.resp.pid # None /\ c.resp.pid \in {reader[t].ref, reader[t].hit.resp.pid}}

(* The gaps are filled from the window as it is now; then the registry hears. *)
MergeCaptures(t) ==
  /\ reader[t].at = "merge"
  /\ Reads(t, [reader[t] EXCEPT !.at = "okGet", !.merged = MergedCaptures(t)])
  /\ UNCHANGED <<caps, cdpCaps, bodies, responses, profile, goodReads, readings, nextRef,
                 boundVars>>

(* recordSuccess in two statements. *)
Promoted(p) ==
  LET ok == p.ok + 1
  IN  [p EXCEPT !.ok = ok, !.failed = 0,
                !.status = IF p.status = "CANDIDATE" THEN "VALIDATING"
                           ELSE IF p.status \in {"VALIDATING", "DEGRADED"} /\ ok >= PromoteAfter
                           THEN "ACTIVE" ELSE p.status]

GetForSuccess(t) ==
  LET f == reader[t].hit.resp.fp
  IN  /\ reader[t].at = "okGet"
      /\ Reads(t, [reader[t] EXCEPT !.at = "okPut", !.row = profile[f]])
      /\ goodReads' = [goodReads EXCEPT ![f] = @ + 1]
      /\ UNCHANGED <<caps, cdpCaps, bodies, responses, profile, readings, nextRef, boundVars>>

PutProfile(f, row) == profile' = [profile EXCEPT ![f] = row]

(* complete: no track rows, another count than the index announced, or no     *)
(* title anywhere is a parse failure; otherwise the release is read.          *)
CompleteRelease(t) ==
  LET h == reader[t]
  IN  /\ h.at = "okPut"
      /\ IF h.row = None THEN UNCHANGED profile
         ELSE PutProfile(h.hit.resp.fp, Promoted(h.row))
      /\ \/ ReadOutcome(t, "uncaptured", {})
         \/ ReadOutcome(t, h.via, {h.hit} \cup h.merged)
      /\ UNCHANGED <<bodies, responses, goodReads, nextRef, boundVars>>

(* recordSchemaDrift: an unknown endpoint or a known schema changes nothing. *)
GetForDrift(t) ==
  /\ reader[t].at = "driftGet"
  /\ \/ Reads(t, [reader[t] EXCEPT !.at = "failGet", !.row = None])
     \/ /\ profile[reader[t].hit.resp.fp] # None
        /\ Reads(t, [reader[t] EXCEPT !.at = "driftPut", !.row = profile[reader[t].hit.resp.fp]])
  /\ UNCHANGED <<caps, cdpCaps, bodies, responses, profile, goodReads, readings, nextRef,
                 boundVars>>

PutDrift(t) ==
  /\ reader[t].at = "driftPut"
  /\ PutProfile(reader[t].hit.resp.fp, [reader[t].row EXCEPT !.status = "DEGRADED"])
  /\ Reads(t, [reader[t] EXCEPT !.at = "failGet", !.row = None])
  /\ UNCHANGED <<caps, cdpCaps, bodies, responses, goodReads, readings, nextRef, boundVars>>

(* recordFailure; the lower tiers are tried afterwards. *)
Demoted(p) ==
  [p EXCEPT !.failed = @ + 1,
            !.status = IF p.failed + 1 >= DegradeAfter /\ p.status = "ACTIVE"
                       THEN "DEGRADED" ELSE @]

GetForFailure(t) ==
  LET row == profile[reader[t].hit.resp.fp]
  IN  /\ reader[t].at = "failGet"
      /\ IF row = None THEN Reads(t, WithoutHit(t))
         ELSE Reads(t, [reader[t] EXCEPT !.at = "failPut", !.row = row])
      /\ UNCHANGED <<caps, cdpCaps, bodies, responses, profile, goodReads, readings, nextRef,
                     boundVars>>

PutFailure(t) ==
  /\ reader[t].at = "failPut"
  /\ PutProfile(reader[t].hit.resp.fp, Demoted(reader[t].row))
  /\ Reads(t, WithoutHit(t))
  /\ UNCHANGED <<caps, cdpCaps, bodies, responses, goodReads, readings, nextRef, boundVars>>

(* The registry is not caught where an outcome is reported to it: a failing   *)
(* call ends the whole release, also one whose payload parsed.                *)
RegistryFails(t) ==
  /\ reader[t].at \in {"okGet", "okPut", "driftGet", "driftPut", "failGet", "failPut"}
  /\ Finish(t)

ExtractorNext ==
  \/ ResponseArrives \/ DiscoveryBody \/ CdpBody
  \/ \E t \in ReadTabs :
       \/ StartRelease(t) \/ ReleaseMatchPolicy(t) \/ MoveTab(t) \/ MatchTimeout(t)
       \/ LowerTiers(t) \/ ParseHit(t) \/ MergeCaptures(t)
       \/ GetForSuccess(t) \/ CompleteRelease(t)
       \/ GetForDrift(t) \/ PutDrift(t) \/ GetForFailure(t) \/ PutFailure(t)
       \/ RegistryFails(t)

ExtractorSpec == ExtractorInit /\ [][ExtractorNext]_extractorVars

-----------------------------------------------------------------------------
ExtractorTypeOK ==
  /\ \A t \in ReadTabs :
       /\ reader[t].ref \in ReadRefs \cup {None} /\ reader[t].epoch \in 0..NRefs
       /\ reader[t].active \subseteq Endpoints /\ reader[t].heuristic \in BOOLEAN
  /\ \A f \in Endpoints :
       StatusOfProfile(f) \in {"none", "CANDIDATE", "VALIDATING", "ACTIVE", "DEGRADED"}
  /\ responses \in 0..MaxBodies /\ nextRef \in 1..(NRefs + 1)

ForeignData(r) == readings[r].named \ {r} # {}

(* A release completed from the network listener's captures uses no payload  *)
(* whose request named another release of the chunk: not one fetched by a    *)
(* neighbouring tab, not one of the tab's previous release whose body came   *)
(* late, and not as a sibling that fills gaps.                               *)
NamedElsewhereUnused ==
  \A r \in ReadRefs : readings[r] # None /\ readings[r].via = "network" => ~ForeignData(r)

(* The same of every release, however it was captured: "this is someone      *)
(* else's data. Never usable, no matter how catalog-shaped it looks".        *)
NeverSomeoneElses ==
  \A r \in ReadRefs : readings[r] # None => ~ForeignData(r)

(* An endpoint is trusted (ACTIVE, so it can shut out every other response)  *)
(* only after PromoteAfter parsed captures, however the tabs' reads and      *)
(* writes of its row interleave and whatever updates they lose.              *)
PromotionEarned ==
  \A f \in Endpoints : StatusOfProfile(f) = "ACTIVE" => goodReads[f] >= PromoteAfter

(* What the extractor promises of the readings it passes on. *)
ReadingsSound == NamedElsewhereUnused /\ PromotionEarned
=============================================================================
