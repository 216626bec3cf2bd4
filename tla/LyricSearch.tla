----------------------------- MODULE LyricSearch -----------------------------
(***************************************************************************)
(* Web verification of lyrics: runLyricsVerification asks a                *)
(* WebLyricsResolver about every song, the resolver sends a broad query    *)
(* and a grouped `site:` query at once, and every query goes through the   *)
(* shared ResilientSearchProvider (cache, circuit breaker, rate limit) to  *)
(* Serper, the production backend.  Songs are looked up concurrently; each *)
(* await is a step.  The keyless development backend a configuration may   *)
(* pin (duckduckgo) is left out: it answers its own errors with an empty   *)
(* list, which the wrapper takes for an answer and caches.                 *)
(***************************************************************************)
EXTENDS ModelBounds, Integers

CONSTANTS
  Songs,          \* songs of the check
  MinInterval,    \* minIntervalMs, in ticks
  FailThreshold,  \* failureThreshold
  BreakerReset,   \* breakerResetMs, in ticks
  MaxTicks        \* bound on the clock

ASSUME SearchAssumption ==
  /\ {MinInterval, FailThreshold, BreakerReset} \subseteq Nat \ {0}
  /\ MaxTicks \in Nat

VARIABLES
  now,        \* the clock
  nextSlot,   \* nextAllowedAt
  breaker,    \* consecutive failures, and until when the breaker is open
  answers,    \* the provider's cache: query -> answer, or None
  lookup,     \* per query: where its search stands
  capped,     \* whether Serper has refused the long result list (effectiveNum)
  truth,      \* per song: its lyrics are on a store, LyricFind has delivered them
  lyricRows,  \* verdict of each song: None, "found", "not-found", "unverifiable"
  checkStatus \* storeLyricsStatus

searchState == <<now, nextSlot, breaker, answers, lookup, capped, truth, lyricRows, checkStatus>>
searchVars == <<searchState, boundVars>>

\* The broad query surfaces the LyricFind page, the grouped one the stores.
Queries == Songs \X {"broad", "stores"}
Off == [pc |-> "off", slot |-> 0, answer |-> {}, ok |-> FALSE]

SearchInit ==
  /\ now = 0 /\ nextSlot = 0
  /\ breaker = [failures |-> 0, openUntil |-> 0]
  /\ answers = [q \in Queries |-> None]
  /\ lookup = [q \in Queries |-> Off]
  /\ capped = FALSE
  /\ truth \in [Songs -> [stores : BOOLEAN, broad : BOOLEAN]]
  /\ lyricRows = [s \in Songs |-> None]
  /\ checkStatus = "running"
  /\ BoundsInit

SetLookup(q, f) == lookup' = [lookup EXCEPT ![q] = f]
Results(q) == IF truth[q[1]][q[2]] THEN {q[2]} ELSE {}

Tick ==
  /\ now < MaxTicks /\ now' = now + 1
  /\ UNCHANGED <<nextSlot, breaker, answers, lookup, capped, truth, lyricRows, checkStatus, boundVars>>

\* A cached answer outlives its time.
Expire(q) ==
  /\ answers[q] # None /\ calls < MaxCalls /\ calls' = calls + 1
  /\ answers' = [answers EXCEPT ![q] = None]
  /\ UNCHANGED <<now, nextSlot, breaker, lookup, capped, truth, lyricRows, checkStatus, finals, faults>>

-----------------------------------------------------------------------------
(* search(query): the cache, then the breaker, then the next slot; nothing  *)
(* is awaited in between.                                                   *)
BreakerState ==
  IF breaker.openUntil = 0 THEN "closed"
  ELSE IF now >= breaker.openUntil THEN "half-open" ELSE "open"

LaterOf(m, n) == IF m > n THEN m ELSE n

ReserveSlot(slot) == nextSlot' = slot + MinInterval

Search(q) ==
  /\ lookup[q].pc = "off" /\ checkStatus = "running" /\ lyricRows[q[1]] = None
  /\ IF answers[q] # None
       THEN SetLookup(q, [Off EXCEPT !.pc = "done", !.answer = answers[q], !.ok = TRUE]) /\ UNCHANGED nextSlot
     ELSE IF BreakerState = "open"
       THEN SetLookup(q, [Off EXCEPT !.pc = "done"]) /\ UNCHANGED nextSlot
     ELSE LET slot == LaterOf(now, nextSlot)
          IN SetLookup(q, [Off EXCEPT !.pc = "wait", !.slot = slot]) /\ ReserveSlot(slot)
  /\ UNCHANGED <<now, breaker, answers, capped, truth, lyricRows, checkStatus, boundVars>>

\* The slot has come: raw(query).
CallUpstream(q) ==
  /\ lookup[q].pc = "wait" /\ now >= lookup[q].slot
  /\ SetLookup(q, [lookup[q] EXCEPT !.pc = "call"])
  /\ UNCHANGED <<now, nextSlot, breaker, answers, capped, truth, lyricRows, checkStatus, boundVars>>

\* Serper refuses more than ten results to a free account: once, then the
\* query is sent again and the smaller number is kept.
Downgrade(q) ==
  /\ lookup[q].pc = "call" /\ ~capped
  /\ capped' = TRUE
  /\ UNCHANGED <<now, nextSlot, breaker, answers, lookup, truth, lyricRows, checkStatus, boundVars>>

\* Broken variant: a failed query leaves its empty answer in the cache.
CachedOnFailureToo(q, answer, ok) == [answers EXCEPT ![q] = answer]

Cached(q, answer, ok) == IF ok THEN [answers EXCEPT ![q] = answer] ELSE answers

Answered(q) ==
  /\ lookup[q].pc = "call"
  /\ SetLookup(q, [lookup[q] EXCEPT !.pc = "done", !.answer = Results(q), !.ok = TRUE])
  /\ breaker' = [failures |-> 0, openUntil |-> 0]
  /\ answers' = Cached(q, Results(q), TRUE)
  /\ UNCHANGED <<now, nextSlot, capped, truth, lyricRows, checkStatus, boundVars>>

Opened(failures) ==
  [failures |-> failures,
   openUntil |-> IF failures >= FailThreshold THEN now + BreakerReset ELSE breaker.openUntil]

\* The error is counted and swallowed: the caller sees no results.
UpstreamFailed(q) ==
  /\ lookup[q].pc = "call" /\ faults < MaxFaults /\ faults' = faults + 1
  /\ SetLookup(q, [lookup[q] EXCEPT !.pc = "done"])
  /\ breaker' = Opened(breaker.failures + 1)
  /\ answers' = Cached(q, {}, FALSE)
  /\ UNCHANGED <<now, nextSlot, capped, truth, lyricRows, checkStatus, calls, finals>>

-----------------------------------------------------------------------------
(* resolve: Promise.all of the queries; toStoreVerdict of what they show.   *)
ToStoreVerdict(seen) ==
  IF "stores" \in seen THEN "found"
  ELSE IF "broad" \in seen THEN "not-found" ELSE "unverifiable"

Resolve(s) ==
  /\ checkStatus = "running" /\ lyricRows[s] = None
  /\ \A q \in Queries : q[1] = s => lookup[q].pc = "done"
  /\ lyricRows' = [lyricRows EXCEPT ![s] =
                     ToStoreVerdict(UNION {lookup[q].answer : q \in {p \in Queries : p[1] = s}})]
  /\ UNCHANGED <<now, nextSlot, breaker, answers, lookup, capped, truth, checkStatus, boundVars>>

\* Only a resolver that throws counts as a failure, and this one does not.
EndLyricsCheck ==
  /\ checkStatus = "running" /\ \A s \in Songs : lyricRows[s] # None
  /\ checkStatus' = "done"
  /\ UNCHANGED <<now, nextSlot, breaker, answers, lookup, capped, truth, lyricRows, boundVars>>

\* The check is asked for again: a new resolver over the same provider.
Recheck ==
  /\ checkStatus = "done" /\ calls < MaxCalls /\ calls' = calls + 1
  /\ checkStatus' = "running"
  /\ lookup' = [q \in Queries |-> Off]
  /\ lyricRows' = [s \in Songs |-> None]
  /\ UNCHANGED <<now, nextSlot, breaker, answers, capped, truth, finals, faults>>

SearchNext ==
  \/ Tick \/ EndLyricsCheck \/ Recheck
  \/ \E q \in Queries :
       Search(q) \/ CallUpstream(q) \/ Downgrade(q) \/ Answered(q) \/ UpstreamFailed(q) \/ Expire(q)
  \/ \E s \in Songs : Resolve(s)

SearchSpec == SearchInit /\ [][SearchNext]_searchVars

-----------------------------------------------------------------------------
SearchTypeOK ==
  /\ now \in 0 .. MaxTicks /\ nextSlot \in Nat
  /\ breaker \in [failures : Nat, openUntil : Nat]
  /\ \A q \in Queries : lookup[q].pc \in {"off", "wait", "call", "done"}
  /\ \A s \in Songs : lyricRows[s] \in {None, "found", "not-found", "unverifiable"}

(* Concurrent searches never share a slot: two calls that wait for upstream *)
(* or are under way were given times at least one interval apart            *)
(* (search-provider.ts, the reservation without an await).                  *)
SlotsSpaced ==
  \A p, q \in Queries :
    (p # q /\ lookup[p].pc \in {"wait", "call"} /\ lookup[q].pc \in {"wait", "call"}) =>
      lookup[p].slot >= lookup[q].slot + MinInterval \/ lookup[q].slot >= lookup[p].slot + MinInterval

(* What a search answers from the cache is an answer upstream once gave: a  *)
(* failure or an open breaker never turns into a remembered "no results",   *)
(* so a later check asks again (search-provider.ts search).                 *)
CachedAnswersReal ==
  \A q \in Queries : (answers[q] # None => answers[q] = Results(q))
                     /\ (lookup[q].ok => lookup[q].answer = Results(q))

(* What the shared search provider promises its concurrent callers. *)
ProviderSound == SlotsSpaced /\ CachedAnswersReal

(* What the check says of itself (lyrics-verification.ts): a search failure *)
(* marks the track unverifiable, never a false "no lyrics".                 *)
NoFalseNotFound == \A s \in Songs : lyricRows[s] = "not-found" => ~truth[s].stores
=============================================================================
