---------------------------- MODULE ConnectHandoff ----------------------------
(***************************************************************************)
(* The attended-login handoff of the API: DistributorConnect over the      *)
(* Redis session registry (apps/api/src/distributor-connect.ts), the       *)
(* consent authority with its revocation outbox (distributor-link.ts and   *)
(* the PostgreSQL link repository) and the Steel provider that creates and *)
(* releases the remote browser (cloud-live-provider.ts).                   *)
(*                                                                         *)
(* Several API replicas run the handlers concurrently.  Every Lua script   *)
(* of the registry is one atomic step; everything between two awaits that  *)
(* touch shared state is one step of a replica.  One consent and one owner *)
(* are modelled; every session of Connects is bound to that consent.       *)
(***************************************************************************)
EXTENDS ModelFaults, Naturals, FiniteSets, FiniteSetsExt

CONSTANTS
  Connects,          \* connect ids, one attended Steel session each
  Replicas,          \* API replicas, each running one handler at a time
  BatchLimit,        \* ids one page of the reverse consent index returns
  MaxConfirms,       \* bound on confirm requests (each proposes a search id)
  FaultKinds,        \* which of "call" (failed calls), "crash" and "slow" happen
  ReuseWarmSessions  \* DISTRIBUTOR_SESSION_REUSE

ASSUME HandoffAssumption ==
  /\ IsFiniteSet(Connects) /\ IsFiniteSet(Replicas)
  /\ BatchLimit \in Nat \ {0}
  /\ MaxConfirms \in Nat
  /\ FaultKinds \subseteq {"call", "crash", "slow"}
  /\ ReuseWarmSessions \in BOOLEAN

VARIABLES
  consent,   \* the PostgreSQL grant: "active" or "revoked"
  intent,    \* its revocation intent: status, lease token, lease open
  tombstone, \* the Redis tombstone that refuses a new handoff
  work,      \* the Redis revocation work: scan position, token, lease open
  index,     \* the reverse index: connect ids stored under the consent
  rec,       \* the stored handoff of each connect id, or None
  steel,     \* the remote browser: "none", "live" or "gone"
  searches,  \* search records written, as <<connect, search id>>
  jobs,      \* snapshot jobs started, as <<connect, search id>>
  confirms,  \* confirm requests so far
  proc,      \* what each replica is doing
  stranded   \* live sessions whose only owner is known to have let go

handoffState == <<consent, intent, tombstone, work, index, rec, steel, searches,
                  jobs, confirms, proc, stranded>>
vars == <<handoffState, faults>>

pgVars  == <<consent, intent>>
revVars == <<tombstone, work, index>>
outVars == <<searches, jobs, confirms>>

Ops == {"idle", "start", "confirm", "cancel", "sweep", "sweepRevoked", "revoke"}

PCs == {"idle", "create", "secure", "put", "assert", "cleanup", "terminate",
        "restore", "state", "renew", "store", "renewAgain", "enqueue", "ack",
        "recheck", "cancelRenew", "release", "cancelAck", "defer", "next",
        "reclaim", "mark", "claimWork", "scan", "page", "advance", "settle", "finish"}

Tokens == 0 .. (Cardinality(Replicas) + 2)

Claim == [k : Connects, tok : Tokens, act : {"confirm", "cancel"},
          search : 0 .. MaxConfirms]

Record == [cancel : BOOLEAN, handed : BOOLEAN, search : 0 .. MaxConfirms,
           tok : Tokens, act : {"none", "confirm", "cancel"}, leased : BOOLEAN]

NoClaim == [k |-> None, tok |-> 0, act |-> "none", search |-> 0]

(* The claim a handler holds, with the outcome it wants and the search id  *)
(* the stored handoff was given.                                           *)
HeldClaim == [k : Connects \cup {None}, tok : Tokens, act : {"none", "confirm", "cancel"},
              search : 0 .. MaxConfirms]

(* What a handler or sweep is doing: its claim, the handoffs it still has  *)
(* to end, the page it read, its work and intent tokens.                   *)
Task == [op : Ops, pc : PCs, claim : HeldClaim, todo : SUBSET Claim,
            page : SUBSET Connects, cursor : SUBSET Connects, wtok : Tokens, itok : Tokens,
            bad : BOOLEAN]

(* The durable revocation work: handoffs seen, and the lease of its sweep. *)
RevocationWork == [seen : SUBSET Connects, tok : Tokens, leased : BOOLEAN]

\* The absent value is none of the values that are stored.
ASSUME AbsentAssumption ==
  None \notin Connects /\ None \notin Record /\ None \notin RevocationWork

Idle == [op |-> "idle", pc |-> "idle", claim |-> NoClaim, todo |-> {},
         page |-> {}, cursor |-> {}, wtok |-> 0, itok |-> 0, bad |-> FALSE]

\* Types of the variables of the handoff; tokens are only ever compared for
\* equality, so a token nobody refers to any more may be issued again.
TypeOK ==
  /\ consent \in {"active", "revoked"}
  /\ intent \in [st : {"none", "open", "done"}, tok : Tokens, leased : BOOLEAN]
  /\ tombstone \in BOOLEAN
  /\ work \in RevocationWork \cup {None}
  /\ index \subseteq Connects
  /\ rec \in [Connects -> Record \cup {None}]
  /\ steel \in [Connects -> {"none", "live", "gone"}]
  /\ searches \subseteq Connects \X (1 .. MaxConfirms)
  /\ jobs \subseteq Connects \X (1 .. MaxConfirms)
  /\ confirms \in 0 .. MaxConfirms
  /\ proc \in [Replicas -> Task]
  /\ faults \in 0 .. MaxFaults
  /\ stranded \subseteq Connects

Init ==
  /\ consent = "active"
  /\ intent = [st |-> "none", tok |-> 0, leased |-> FALSE]
  /\ tombstone = FALSE /\ work = None /\ index = {}
  /\ rec = [k \in Connects |-> None]
  /\ steel = [k \in Connects |-> "none"]
  /\ searches = {} /\ jobs = {} /\ confirms = 0
  /\ proc = [r \in Replicas |-> Idle]
  /\ faults = 0 /\ stranded = {}

-----------------------------------------------------------------------------
(* Registry scripts: what each Lua script does to the stored value.         *)

\* A random token for k: one that neither the store nor a replica refers to.
FreshToken(k) ==
  LET used == {c.tok : c \in {c \in UNION {proc[r].todo \cup {proc[r].claim} :
                                           r \in Replicas} : c.k = k}}
              \cup (IF rec[k] = None THEN {} ELSE {rec[k].tok})
  IN  Min(Tokens \ (used \cup {0}))

StoredHandoff == [cancel |-> FALSE, handed |-> FALSE, search |-> 0,
                  tok |-> 0, act |-> "none", leased |-> FALSE]

\* Broken variant: every confirmation proposes its own search id.
ClaimScriptNewSearch(v, action, search, token) ==
  LET act == IF v.cancel \/ action = "cancel" THEN "cancel" ELSE action
  IN  IF v.handed /\ action = "confirm" THEN [reply |-> "handed_off", value |-> v]
      ELSE IF v.tok # 0 /\ v.leased
      THEN [reply |-> "busy", value |-> [v EXCEPT !.cancel = @ \/ action = "cancel"]]
      ELSE [reply |-> "claimed",
            value |-> [v EXCEPT !.cancel = @ \/ action = "cancel", !.tok = token, !.act = act,
                         !.leased = TRUE, !.search = IF act = "confirm" THEN search ELSE @]]

\* claim-connect-session: reply and value stored. A handed-off session is
\* confirmed again only when warm reuse is on and nothing asked to cancel.
ClaimScript(v, action, search, token) ==
  LET asked  == [v EXCEPT !.cancel = @ \/ action = "cancel"]
      again  == asked.handed /\ action = "confirm"
      opened == IF again THEN [asked EXCEPT !.handed = FALSE, !.search = 0] ELSE asked
      act    == IF opened.cancel THEN "cancel" ELSE action
      taken  == [opened EXCEPT !.tok = token, !.act = act, !.leased = TRUE,
                   !.search = IF act = "confirm" /\ @ = 0 THEN search ELSE @]
  IN  CASE again /\ (asked.cancel \/ ~ReuseWarmSessions) ->
             [reply |-> "handed_off", value |-> v]
        [] ~(again /\ (asked.cancel \/ ~ReuseWarmSessions))
           /\ opened.tok # 0 /\ opened.leased -> [reply |-> "busy", value |-> opened]
        [] OTHER -> [reply |-> "claimed", value |-> taken]

\* Broken variant: the development registry forgets that a busy session was
\* asked to cancel.
MemoryClaimForgetful(v, action, search, token) ==
  IF v.tok # 0 /\ v.leased THEN [reply |-> "busy", value |-> v]
  ELSE ClaimScript(v, action, search, token)

\* The in-memory registry of a development server claims by early returns:
\* its answers and what it stores.
MemoryClaim(v, action, search, token) ==
  LET asked   == IF action = "cancel" THEN [v EXCEPT !.cancel = TRUE] ELSE v
      reused  == IF asked.handed /\ action = "confirm"
                 THEN [asked EXCEPT !.handed = FALSE, !.search = 0] ELSE asked
      act     == IF reused.cancel THEN "cancel" ELSE action
      adopted == IF act = "confirm" /\ reused.search = 0
                 THEN [reused EXCEPT !.search = search] ELSE reused
  IN  IF asked.handed /\ action = "confirm" /\ (~ReuseWarmSessions \/ asked.cancel)
      THEN [reply |-> "handed_off", value |-> asked]
      ELSE IF reused.tok # 0 /\ reused.leased THEN [reply |-> "busy", value |-> reused]
      ELSE [reply |-> "claimed",
            value |-> [adopted EXCEPT !.tok = token, !.act = act, !.leased = TRUE]]

\* reclaim-expired-connect-session: a lapsed claim, turned into a cancel when
\* one was asked for.
Reclaimed(v, token) ==
  [v EXCEPT !.tok = token, !.leased = TRUE,
            !.act = IF v.cancel THEN "cancel" ELSE @]

\* Broken variant: a confirmation that was cancelled meanwhile is kept as
\* handed off and nobody is told.
AckScriptKeepsCancelled(v, action) ==
  IF action # "confirm" THEN None
  ELSE [v EXCEPT !.handed = TRUE, !.tok = 0, !.act = "none", !.leased = FALSE]

\* ack-connect-session for the claim's action: a confirm is retained as handed
\* off (and queued for cancellation if one was asked for), a cancel deletes.
AckScript(v, action) ==
  IF action # "confirm" THEN None
  ELSE IF v.cancel
       THEN [v EXCEPT !.handed = TRUE, !.act = "cancel", !.leased = FALSE]
       ELSE [v EXCEPT !.handed = TRUE, !.tok = 0, !.act = "none", !.leased = FALSE]

\* The same acknowledgement in the in-memory registry.
MemoryAck(v, action) ==
  LET kept == [v EXCEPT !.handed = TRUE]
  IN  CASE action # "confirm" -> None
        [] action = "confirm" /\ v.cancel -> [kept EXCEPT !.act = "cancel", !.leased = FALSE]
        [] OTHER -> [kept EXCEPT !.tok = 0, !.act = "none", !.leased = FALSE]

\* claimExpired of the in-memory registry: a new token, the action a cancel if
\* one was asked for.
MemoryReclaim(v, token) ==
  LET act == IF v.cancel THEN "cancel" ELSE v.act
  IN  [v EXCEPT !.tok = token, !.act = act, !.leased = TRUE]

\* Does the claim still own the stored handoff?
Owns(c) == rec[c.k] # None /\ rec[c.k].tok = c.tok

\* renew-connect-session's answer: "lost", "cancelled" or "active".
RenewState(c) ==
  IF ~Owns(c) THEN "lost"
  ELSE IF rec[c.k].cancel /\ c.act = "confirm" THEN "cancelled" ELSE "active"

\* renew-connect-session's write: the lease is extended for its own token.
Renewed(c) == IF Owns(c) THEN [rec EXCEPT ![c.k].leased = TRUE] ELSE rec

\* check-connect-claim-state: cancellation is reported before lost ownership.
ClaimState(c) ==
  IF rec[c.k] = None THEN "lost"
  ELSE IF rec[c.k].cancel THEN "cancelled"
  ELSE IF rec[c.k].tok = c.tok THEN "active" ELSE "lost"

\* Broken variant: the stable search id is not handed over with the claim.
ToClaimWithoutWork(k, v) == [k |-> k, tok |-> v.tok, act |-> v.act, search |-> None]

\* renew and claimState of the in-memory registry, by early returns.
MemoryRenew(c) ==
  LET v == rec[c.k]
  IN  CASE v = None -> "lost"
        [] v # None /\ v.tok # c.tok -> "lost"
        [] OTHER -> IF v.cancel /\ c.act = "confirm" THEN "cancelled" ELSE "active"

MemoryClaimState(c) ==
  LET v == rec[c.k]
  IN  CASE v = None -> "lost"
        [] v # None /\ v.cancel -> "cancelled"
        [] OTHER -> IF v.tok = c.tok THEN "active" ELSE "lost"

\* defer-connect-session: the lease of the claim's own token ends now.
Deferred(c) == IF Owns(c) THEN [rec[c.k] EXCEPT !.leased = FALSE] ELSE rec[c.k]

\* defer of the in-memory registry.
MemoryDefer(c) ==
  IF rec[c.k] = None \/ rec[c.k].tok # c.tok THEN rec[c.k]
  ELSE [rec[c.k] EXCEPT !.leased = FALSE]

\* restore-cancel-connect-session: a new value that can only be cancelled.
RestoredHandoff(token) ==
  [StoredHandoff EXCEPT !.cancel = TRUE, !.tok = token, !.act = "cancel"]

\* restoreCancellation of the in-memory registry: confirmation and handoff
\* marks of the lost record are not restored, the claim is due.
MemoryRestore(token) ==
  [cancel |-> TRUE, handed |-> FALSE, search |-> 0, tok |-> token, act |-> "cancel",
   leased |-> FALSE]

\* The claim a stored value hands to its new owner.
ToClaim(k, v) == [k |-> k, tok |-> v.tok, act |-> v.act,
                  search |-> IF v.act = "confirm" THEN v.search ELSE 0]

-----------------------------------------------------------------------------
(* Steps of a replica.                                                      *)

At(r, pc) == proc[r].pc = pc
Go(r, pc) == proc' = [proc EXCEPT ![r].pc = pc]
Finish(r) == proc' = [proc EXCEPT ![r] = Idle]

FaultOf(kind) == kind \in FaultKinds /\ faults < MaxFaults /\ faults' = faults + 1
Fault == FaultOf("call")
NoFault == UNCHANGED faults

\* The handler of r is done with its claim: request handlers answer, sweeps
\* and reconciliations take their next claim.
DoneWithClaim(r) ==
  IF proc[r].op \in {"confirm", "cancel", "start"} THEN Finish(r)
  ELSE proc' = [proc EXCEPT ![r].pc = "next", ![r].claim = NoClaim]

\* An error while the scan is being handed to the pipeline: the confirm
\* request defers its claim, the sweep keeps its new lease for later.
HandoffFails(r) ==
  IF proc[r].op = "confirm" THEN Go(r, "defer") ELSE DoneWithClaim(r)

\* An error while a session is being cancelled: cancel requests, failed starts
\* and revocations defer, and a revocation remembers it.
CancellationFails(r) ==
  CASE proc[r].op = "revoke" -> proc' = [proc EXCEPT ![r].pc = "defer", ![r].bad = TRUE]
    [] proc[r].op \in {"cancel", "start"} -> Go(r, "defer")
    [] OTHER -> DoneWithClaim(r)

\* The registry's claim: one run of the script with a fresh token.
ClaimHandoff(k, action, search) == ClaimScript(rec[k], action, search, FreshToken(k))

\* POST /api/connect: the grant is checked before a browser is opened.
StartConnect(r, k) ==
  /\ At(r, "idle") /\ steel[k] = "none" /\ consent = "active"
  /\ \A q \in Replicas : ~(proc[q].op = "start" /\ proc[q].claim.k = k)
  /\ proc' = [proc EXCEPT ![r] = [Idle EXCEPT !.op = "start", !.pc = "create",
                                               !.claim = [NoClaim EXCEPT !.k = k]]]
  /\ UNCHANGED <<pgVars, revVars, outVars, rec, steel, faults, stranded>>

\* A Steel session nobody will own is released on the way out; a failed
\* release leaves it to its own timeout.
BestEffortRelease(k) ==
  \/ /\ NoFault /\ steel' = [steel EXCEPT ![k] = "gone"] /\ UNCHANGED stranded
  \/ /\ Fault /\ steel' = [steel EXCEPT ![k] = "live"] /\ stranded' = stranded \cup {k}

\* createSession: the remote session exists before the local browser does.
CreateSession(r) ==
  LET k == proc[r].claim.k
  IN  /\ At(r, "create")
      /\ \/ /\ steel' = [steel EXCEPT ![k] = "live"] /\ Go(r, "secure")
            /\ NoFault /\ UNCHANGED stranded
         \/ BestEffortRelease(k) /\ Finish(r)
      /\ UNCHANGED <<pgVars, revVars, outVars, rec>>

\* createUserAccessUrl and getRemoteSessionId, or terminate without an owner.
SecureHandoff(r) ==
  /\ At(r, "secure")
  /\ \/ Go(r, "put") /\ NoFault /\ UNCHANGED <<steel, stranded>>
     \/ BestEffortRelease(proc[r].claim.k) /\ Finish(r)
  /\ UNCHANGED <<pgVars, revVars, outVars, rec>>

\* Broken variant: the tombstone is not looked at.
PutHandoffUnchecked(r) ==
  LET k == proc[r].claim.k
  IN  /\ At(r, "put") /\ NoFault
      /\ rec' = [rec EXCEPT ![k] = StoredHandoff] /\ index' = index \cup {k}
      /\ Go(r, "assert")
      /\ UNCHANGED <<pgVars, tombstone, work, outVars, steel, stranded>>

\* put-indexed-connect-session: handoff and index appear together, unless the
\* consent's tombstone is there.
PutHandoff(r) ==
  LET k == proc[r].claim.k
  IN  /\ At(r, "put")
      /\ \/ /\ ~tombstone /\ NoFault
            /\ rec' = [rec EXCEPT ![k] = StoredHandoff] /\ index' = index \cup {k}
            /\ Go(r, "assert")
         \/ /\ tombstone /\ NoFault /\ Go(r, "terminate") /\ UNCHANGED <<rec, index>>
         \/ /\ Fault /\ Go(r, "terminate") /\ UNCHANGED <<rec, index>>
      /\ UNCHANGED <<pgVars, tombstone, work, outVars, steel, stranded>>

\* The grant is read again once the handoff is stored.
AssertConsent(r) ==
  /\ At(r, "assert")
  /\ \/ consent = "active" /\ NoFault /\ Finish(r)
     \/ consent = "revoked" /\ NoFault /\ Go(r, "cleanup")
     \/ Fault /\ Go(r, "cleanup")
  /\ UNCHANGED <<pgVars, revVars, outVars, rec, steel, stranded>>

\* A start that failed after put claims its own handoff for cancellation; if
\* someone else holds it, that owner releases the session.
CleanupClaim(r) ==
  LET k == proc[r].claim.k
      c == ClaimHandoff(k, "cancel", 0)
  IN  /\ At(r, "cleanup")
      /\ \/ /\ rec[k] # None /\ NoFault /\ rec' = [rec EXCEPT ![k] = c.value]
            /\ IF c.reply = "claimed"
               THEN proc' = [proc EXCEPT ![r].pc = "terminate",
                                         ![r].claim = ToClaim(k, c.value)]
               ELSE Finish(r)
         \/ rec[k] = None /\ NoFault /\ Finish(r) /\ UNCHANGED rec
         \/ Fault /\ Finish(r) /\ UNCHANGED rec
      /\ UNCHANGED <<pgVars, revVars, outVars, steel, stranded>>

\* releaseRemote: the request may take effect although its answer is lost.
\* 404 and 410 count as released.
ReleaseRemote(k, done, failed) ==
  \/ NoFault /\ steel' = [steel EXCEPT ![k] = "gone"] /\ done
  \/ Fault /\ steel' \in {steel, [steel EXCEPT ![k] = "gone"]} /\ failed

\* terminateSession of a failed start, with or without a claim of its own.
Terminate(r) ==
  LET k == proc[r].claim.k  registered == proc[r].claim.tok # 0
  IN  /\ At(r, "terminate")
      /\ ReleaseRemote(k, IF registered THEN Go(r, "cancelAck") ELSE Finish(r),
                       Go(r, IF registered THEN "defer" ELSE "restore"))
      /\ UNCHANGED <<pgVars, revVars, outVars, rec, stranded>>

\* Broken variant: the session of a refused start is forgotten.
RestoreCancellationSkipped(r) ==
  /\ At(r, "restore") /\ Finish(r) /\ NoFault
  /\ UNCHANGED <<pgVars, revVars, outVars, rec, steel, stranded>>

\* restore-cancel-connect-session: a cancel-only handoff, due immediately.
RestoreCancellation(r) ==
  LET k == proc[r].claim.k
  IN  /\ At(r, "restore") /\ Finish(r)
      /\ \/ /\ NoFault /\ UNCHANGED stranded
            /\ rec' = [rec EXCEPT ![k] = RestoredHandoff(FreshToken(k))]
         \/ Fault /\ stranded' = stranded \cup {k} /\ UNCHANGED rec
      /\ UNCHANGED <<pgVars, revVars, outVars, steel>>

\* confirmAndScan claims the handoff for the owner, proposing a search id.
\* A claim that comes back as a cancel is carried out and the caller told
\* that the session is gone.
Confirm(r, k) ==
  LET c == ClaimHandoff(k, "confirm", confirms + 1)
  IN  /\ At(r, "idle") /\ rec[k] # None /\ confirms < MaxConfirms
      /\ confirms' = confirms + 1
      /\ rec' = [rec EXCEPT ![k] = c.value]
      /\ IF c.reply # "claimed" THEN UNCHANGED proc
         ELSE proc' = [proc EXCEPT ![r] =
                [Idle EXCEPT !.op = "confirm", !.claim = ToClaim(k, c.value),
                   !.pc = IF c.value.act = "cancel" THEN "cancelRenew" ELSE "renew"]]
      /\ UNCHANGED <<pgVars, revVars, searches, jobs, steel, faults, stranded>>

\* The owner cancels; a busy handoff remembers the request.
Cancel(r, k) ==
  LET c == ClaimHandoff(k, "cancel", 0)
  IN  /\ At(r, "idle") /\ rec[k] # None
      /\ rec' = [rec EXCEPT ![k] = c.value]
      /\ IF c.reply # "claimed" THEN UNCHANGED proc
         ELSE proc' = [proc EXCEPT ![r] =
                [Idle EXCEPT !.op = "cancel", !.pc = "cancelRenew",
                             !.claim = ToClaim(k, c.value)]]
      /\ UNCHANGED <<pgVars, revVars, outVars, steel, faults, stranded>>

\* assertClaimActive: renew the lease and go on, cancel, or give up.
AssertClaimActive(r, next) ==
  LET c == proc[r].claim
  IN  \/ /\ NoFault /\ rec' = Renewed(c)
         /\ CASE RenewState(c) = "active" -> Go(r, next)
              [] RenewState(c) = "cancelled" -> Go(r, "cancelRenew")
              [] RenewState(c) = "lost" -> HandoffFails(r)
      \/ Fault /\ HandoffFails(r) /\ UNCHANGED rec

\* The lease left must cover a catalogue read (a session too close to its
\* expiry is cancelled), and the claim must still be held.
AssertBudget(r) ==
  /\ At(r, "renew")
  /\ \/ AssertClaimActive(r, "store")
     \/ Go(r, "cancelRenew") /\ NoFault /\ UNCHANGED rec
  /\ UNCHANGED <<pgVars, revVars, outVars, steel, stranded>>

\* The pending search record is written under the stable id of the claim.
StoreSearch(r) ==
  LET c == proc[r].claim
  IN  /\ At(r, "store")
      /\ \/ /\ NoFault /\ searches' = searches \cup {<<c.k, c.search>>}
            /\ Go(r, "renewAgain")
         \/ Fault /\ HandoffFails(r) /\ UNCHANGED searches
      /\ UNCHANGED <<pgVars, revVars, jobs, confirms, rec, steel, stranded>>

RenewAgain(r) ==
  /\ At(r, "renewAgain") /\ AssertClaimActive(r, "enqueue")
  /\ UNCHANGED <<pgVars, revVars, outVars, steel, stranded>>

\* startSnapshot: a call that fails may or may not have started the job.
StartSnapshot(r) ==
  LET c == proc[r].claim  started == jobs \cup {<<c.k, c.search>>}
  IN  /\ At(r, "enqueue")
      /\ \/ NoFault /\ jobs' = started /\ Go(r, "ack")
         \/ Fault /\ jobs' \in {jobs, started} /\ HandoffFails(r)
      /\ UNCHANGED <<pgVars, revVars, searches, confirms, rec, steel, stranded>>

\* ack of the claim; index entries go with a deleted handoff.
Ack(c) ==
  /\ Owns(c)
  /\ rec' = [rec EXCEPT ![c.k] = AckScript(@, c.act)]
  /\ index' = IF c.act = "confirm" THEN index ELSE index \ {c.k}

AckHandoff(r) ==
  LET c == proc[r].claim
  IN  /\ At(r, "ack")
      /\ \/ NoFault /\ Ack(c) /\ DoneWithClaim(r)
         \/ NoFault /\ ~Owns(c) /\ Go(r, "recheck") /\ UNCHANGED <<rec, index>>
         \/ Fault /\ HandoffFails(r) /\ UNCHANGED <<rec, index>>
      /\ UNCHANGED <<pgVars, tombstone, work, outVars, steel, stranded>>

\* A refused ack asks once more why; a claim still held is reported as lost.
Recheck(r) ==
  LET c == proc[r].claim
  IN  /\ At(r, "recheck")
      /\ \/ /\ NoFault /\ rec' = Renewed(c)
            /\ IF RenewState(c) = "cancelled" THEN Go(r, "cancelRenew") ELSE HandoffFails(r)
         \/ Fault /\ HandoffFails(r) /\ UNCHANGED rec
      /\ UNCHANGED <<pgVars, revVars, outVars, steel, stranded>>

\* completeCancellation: renew, release the Steel session, then acknowledge.
CancelRenew(r) ==
  LET c == proc[r].claim
  IN  /\ At(r, "cancelRenew")
      /\ \/ /\ NoFault /\ rec' = Renewed(c)
            /\ IF RenewState(c) = "lost" THEN CancellationFails(r) ELSE Go(r, "release")
         \/ Fault /\ CancellationFails(r) /\ UNCHANGED rec
      /\ UNCHANGED <<pgVars, revVars, outVars, steel, stranded>>

ReleaseSteelSession(r) ==
  /\ At(r, "release")
  /\ ReleaseRemote(proc[r].claim.k, Go(r, "cancelAck"), CancellationFails(r))
  /\ UNCHANGED <<pgVars, revVars, outVars, rec, stranded>>

\* The answer of the ack is not looked at.
CancelAck(r) ==
  LET c == proc[r].claim
  IN  /\ At(r, "cancelAck")
      /\ \/ NoFault /\ Ack(c) /\ DoneWithClaim(r)
         \/ NoFault /\ ~Owns(c) /\ DoneWithClaim(r) /\ UNCHANGED <<rec, index>>
         \/ Fault /\ CancellationFails(r) /\ UNCHANGED <<rec, index>>
      /\ UNCHANGED <<pgVars, tombstone, work, outVars, steel, stranded>>

\* defer: the lease ends now, the claim stays for the sweep. Its own failure
\* is ignored.
Defer(r) ==
  LET c == proc[r].claim
  IN  /\ At(r, "defer") /\ DoneWithClaim(r)
      /\ \/ NoFault /\ rec' = [rec EXCEPT ![c.k] = Deferred(c)]
         \/ Fault /\ UNCHANGED rec
      /\ UNCHANGED <<pgVars, revVars, outVars, steel, stranded>>

-----------------------------------------------------------------------------
(* The recovery sweep of every replica: recoverAbandoned.                   *)

Lapsed(k) == rec[k] # None /\ rec[k].tok # 0 /\ ~rec[k].leased

\* claimExpired lists the claims whose window is over (or finds revocation
\* work that is due); an empty sweep changes nothing and is left out.
SweepExpired(r) ==
  /\ At(r, "idle")
  /\ (\E k \in Connects : Lapsed(k)) \/ (work # None /\ ~(work.tok # 0 /\ work.leased))
  /\ proc' = [proc EXCEPT ![r] = [Idle EXCEPT !.op = "sweep", !.pc = "reclaim",
                                               !.page = {k \in Connects : Lapsed(k)}]]
  /\ UNCHANGED <<pgVars, revVars, outVars, rec, steel, faults, stranded>>

\* Each listed claim is taken over in turn if its window is still over.
ReclaimExpired(r) ==
  LET p == proc[r]
  IN  /\ At(r, "reclaim")
      /\ \/ \E k \in p.page :
              LET v == Reclaimed(rec[k], FreshToken(k))
              IN  IF Lapsed(k)
                  THEN /\ rec' = [rec EXCEPT ![k] = v]
                       /\ proc' = [proc EXCEPT ![r].page = @ \ {k},
                                               ![r].todo = @ \cup {ToClaim(k, v)}]
                  ELSE proc' = [proc EXCEPT ![r].page = @ \ {k}] /\ UNCHANGED rec
         \/ p.page = {} /\ Go(r, "next") /\ UNCHANGED rec
      /\ NoFault
      /\ UNCHANGED <<pgVars, revVars, outVars, steel, stranded>>

\* Claims are handled one after the other; then a sweep turns to the
\* revocation work, and a revocation page is settled.
NextClaim(r) ==
  LET p == proc[r]
  IN  /\ At(r, "next")
      /\ \/ \E c \in p.todo :
              proc' = [proc EXCEPT ![r].todo = @ \ {c}, ![r].claim = c,
                                   ![r].pc = IF p.op = "sweep" THEN "state" ELSE "cancelRenew"]
         \/ /\ p.todo = {}
            /\ proc' = [proc EXCEPT ![r].op = IF @ = "sweep" THEN "sweepRevoked" ELSE @,
                                    ![r].pc = IF p.op = "sweep" THEN "claimWork" ELSE "settle"]
      /\ NoFault
      /\ UNCHANGED <<pgVars, revVars, outVars, rec, steel, stranded>>

\* The sweep looks at the claim once more before it finishes the confirmation
\* or the cancellation.
CheckClaimState(r) ==
  LET c == proc[r].claim
  IN  /\ At(r, "state") /\ NoFault
      /\ CASE c.act = "cancel" \/ ClaimState(c) = "cancelled" -> Go(r, "cancelRenew")
           [] c.act # "cancel" /\ ClaimState(c) = "lost" -> DoneWithClaim(r)
           [] OTHER -> Go(r, "renew")
      /\ UNCHANGED <<pgVars, revVars, outVars, rec, steel, stranded>>

-----------------------------------------------------------------------------
(* Revocation: the PostgreSQL intent, the Redis work and its pages.         *)

FreshOf(used) == Min(Tokens \ (used \cup {0}))

\* POST /api/consent/:id/revoke: the grant is revoked and the cleanup intent
\* written in one statement.
RequestRevocation ==
  /\ consent = "active"
  /\ consent' = "revoked" /\ intent' = [intent EXCEPT !.st = "open"]
  /\ UNCHANGED <<revVars, rec, steel, outVars, proc, faults, stranded>>

\* A replica leases the open intent and runs cancelByConsent for it.
ClaimIntent(r) ==
  LET tok == FreshOf({proc[q].itok : q \in Replicas} \cup {intent.tok})
  IN  /\ At(r, "idle") /\ intent.st = "open" /\ ~(intent.tok # 0 /\ intent.leased)
      /\ intent' = [intent EXCEPT !.tok = tok, !.leased = TRUE]
      /\ proc' = [proc EXCEPT ![r] = [Idle EXCEPT !.op = "revoke", !.pc = "mark",
                                                   !.itok = tok]]
      /\ UNCHANGED <<consent, revVars, rec, steel, outVars, faults, stranded>>

\* The route's extra attempt when the database fails after the revocation.
EmergencyCancel(r) ==
  /\ At(r, "idle") /\ consent = "revoked" /\ Fault
  /\ proc' = [proc EXCEPT ![r] = [Idle EXCEPT !.op = "revoke", !.pc = "mark"]]
  /\ UNCHANGED <<pgVars, revVars, rec, steel, outVars, stranded>>

\* cancelByConsent fails, or has nothing more to do: the intent is next.
Conclude(r, bad) ==
  IF proc[r].op = "revoke"
  THEN proc' = [proc EXCEPT ![r].pc = "finish", ![r].bad = @ \/ bad, ![r].wtok = 0]
  ELSE Finish(r)

\* begin-consent-revocation: the tombstone comes before the index is read.
MarkConsentRevoked(r) ==
  /\ At(r, "mark")
  /\ \/ /\ NoFault /\ tombstone' = TRUE /\ Go(r, "claimWork")
        /\ work' = IF work = None THEN [seen |-> {}, tok |-> 0, leased |-> FALSE] ELSE work
     \/ Fault /\ Conclude(r, TRUE) /\ UNCHANGED <<tombstone, work>>
  /\ UNCHANGED <<pgVars, index, rec, steel, outVars, stranded>>

\* claim-consent-revocation: one owner of the scan at a time.
ClaimRevocationWork(r) ==
  LET tok == FreshOf({proc[q].wtok : q \in Replicas} \cup {work.tok})
  IN  /\ At(r, "claimWork") /\ NoFault
      /\ IF work = None \/ (work.tok # 0 /\ work.leased)
         THEN Conclude(r, TRUE) /\ UNCHANGED work
         ELSE /\ work' = [work EXCEPT !.tok = tok, !.leased = TRUE]
              /\ proc' = [proc EXCEPT ![r].pc = "scan", ![r].wtok = tok,
                                      ![r].cursor = work.seen]
      /\ UNCHANGED <<pgVars, tombstone, index, rec, steel, outVars, stranded>>

\* SSCAN from the cursor: the next page, and the cursor after it (back to the
\* start when the iteration is complete).
ScanIndex(r) ==
  LET left == index \ proc[r].cursor
  IN  /\ At(r, "scan") /\ NoFault
      /\ \E P \in SUBSET left :
           /\ Cardinality(P) = Min({BatchLimit, Cardinality(left)})
           /\ proc' = [proc EXCEPT ![r].pc = "page", ![r].page = P,
                        ![r].cursor = IF P = left THEN {} ELSE @ \cup P]
      /\ UNCHANGED <<pgVars, revVars, rec, steel, outVars, stranded>>

\* Every id of the page is claimed for cancellation, marked if it is busy, or
\* dropped from the index if its handoff has expired.
ClaimPage(r) ==
  LET p == proc[r]
  IN  /\ At(r, "page") /\ NoFault
      /\ \/ \E k \in p.page :
              LET c == ClaimHandoff(k, "cancel", 0)
              IN  IF rec[k] = None
                  THEN /\ index' = index \ {k} /\ UNCHANGED rec
                       /\ proc' = [proc EXCEPT ![r].page = @ \ {k}]
                  ELSE /\ rec' = [rec EXCEPT ![k] = c.value] /\ UNCHANGED index
                       /\ proc' = [proc EXCEPT ![r].page = @ \ {k},
                            ![r].todo = IF c.reply = "claimed"
                                        THEN @ \cup {ToClaim(k, c.value)} ELSE @,
                            ![r].bad = @ \/ (c.reply = "busy" /\ p.op = "revoke")]
         \/ p.page = {} /\ Go(r, "advance") /\ UNCHANGED <<rec, index>>
      /\ UNCHANGED <<pgVars, tombstone, work, steel, outVars, stranded>>

\* advance-consent-revocation, for the token that still owns the work.
AdvanceWork(r) ==
  LET p == proc[r]  owned == work # None /\ work.tok = p.wtok
  IN  /\ At(r, "advance") /\ NoFault
      /\ work' = IF owned THEN [seen |-> p.cursor, tok |-> 0, leased |-> FALSE] ELSE work
      /\ proc' = [proc EXCEPT ![r].pc = "next", ![r].wtok = 0, ![r].cursor = {},
                              ![r].bad = @ \/ (~owned /\ p.op = "revoke")]
      /\ UNCHANGED <<pgVars, tombstone, index, rec, steel, outVars, stranded>>

\* settle-consent-revocation: the work ends when the index is empty.
SettleRevocation(r) ==
  /\ At(r, "settle")
  /\ \/ /\ NoFault /\ work' = IF index = {} THEN None ELSE work
        /\ Conclude(r, index # {} /\ work # None)
     \/ Fault /\ Conclude(r, TRUE) /\ UNCHANGED work
  /\ UNCHANGED <<pgVars, tombstone, index, rec, steel, outVars, stranded>>

\* The intent is completed or made due again, by the lease that holds it.
FinishIntent(r) ==
  LET p == proc[r]  held == p.itok # 0 /\ intent.tok = p.itok /\ intent.st = "open"
  IN  /\ At(r, "finish") /\ Finish(r)
      /\ \/ /\ NoFault
            /\ intent' = IF ~held THEN intent
                         ELSE [st |-> IF p.bad THEN "open" ELSE "done",
                               tok |-> 0, leased |-> FALSE]
         \/ Fault /\ UNCHANGED intent
      /\ UNCHANGED <<consent, revVars, rec, steel, outVars, stranded>>

-----------------------------------------------------------------------------
(* Time, crashes, and the owner of a session after the handoff.             *)

\* A visibility window ends: at once when its owner is gone, and as a fault
\* while the owner is still working.
ClaimLapses(k) ==
  LET held == \E r \in Replicas : \E c \in proc[r].todo \cup {proc[r].claim} :
                 c.k = k /\ c.tok = rec[k].tok
  IN  /\ rec[k] # None /\ rec[k].tok # 0 /\ rec[k].leased
      /\ IF held THEN FaultOf("slow") ELSE NoFault
      /\ rec' = [rec EXCEPT ![k].leased = FALSE]
      /\ UNCHANGED <<pgVars, revVars, steel, outVars, proc, stranded>>

WorkLapses ==
  /\ work # None /\ work.tok # 0 /\ work.leased
  /\ IF \E r \in Replicas : proc[r].wtok = work.tok THEN FaultOf("slow") ELSE NoFault
  /\ work' = [work EXCEPT !.leased = FALSE]
  /\ UNCHANGED <<pgVars, tombstone, index, rec, steel, outVars, proc, stranded>>

IntentLapses ==
  /\ intent.tok # 0 /\ intent.leased
  /\ IF \E r \in Replicas : proc[r].itok = intent.tok THEN FaultOf("slow") ELSE NoFault
  /\ intent' = [intent EXCEPT !.leased = FALSE]
  /\ UNCHANGED <<consent, revVars, rec, steel, outVars, proc, stranded>>

\* A start that holds a session it has not stored yet.
HoldsUnstored(r, k) ==
  /\ proc[r].op = "start" /\ proc[r].claim.k = k
  /\ proc[r].pc \in {"secure", "put", "restore"}
     \/ (proc[r].pc = "terminate" /\ proc[r].claim.tok = 0)

\* A replica dies, or abandons its handler on an error nobody catches.
Crash(r) ==
  /\ ~At(r, "idle") /\ FaultOf("crash") /\ Finish(r)
  /\ stranded' = stranded \cup {k \in Connects : HoldsUnstored(r, k)}
  /\ UNCHANGED <<pgVars, revVars, rec, steel, outVars>>

\* The stored handoff expires with the advertised lease of its session.
RecordExpires(k) ==
  /\ rec[k] # None /\ rec' = [rec EXCEPT ![k] = None]
  /\ stranded' = stranded \cup {k}
  /\ UNCHANGED <<pgVars, revVars, steel, outVars, proc, faults>>

\* The worker releases the session of a started scan at its end.
PipelineReleases(k) ==
  /\ steel[k] = "live" /\ (\E s \in 1 .. MaxConfirms : <<k, s>> \in jobs)
  /\ steel' = [steel EXCEPT ![k] = "gone"]
  /\ UNCHANGED <<pgVars, revVars, rec, outVars, proc, faults, stranded>>

\* Steel ends a session at its own timeout, never before the advertised one.
SteelExpires(k) ==
  /\ k \in stranded /\ rec[k] = None /\ steel[k] = "live"
  /\ steel' = [steel EXCEPT ![k] = "gone"]
  /\ UNCHANGED <<pgVars, revVars, rec, outVars, proc, faults, stranded>>

-----------------------------------------------------------------------------
StartStep(r) ==
  \/ CreateSession(r) \/ SecureHandoff(r) \/ PutHandoff(r) \/ AssertConsent(r)
  \/ CleanupClaim(r) \/ Terminate(r) \/ RestoreCancellation(r)

ClaimStep(r) ==
  \/ AssertBudget(r) \/ StoreSearch(r) \/ RenewAgain(r) \/ StartSnapshot(r)
  \/ AckHandoff(r) \/ Recheck(r) \/ CancelRenew(r) \/ ReleaseSteelSession(r)
  \/ CancelAck(r) \/ Defer(r)

SweepStep(r) ==
  \/ ReclaimExpired(r) \/ NextClaim(r) \/ CheckClaimState(r)
  \/ MarkConsentRevoked(r) \/ ClaimRevocationWork(r) \/ ScanIndex(r)
  \/ ClaimPage(r) \/ AdvanceWork(r) \/ SettleRevocation(r) \/ FinishIntent(r)

Next ==
  \/ RequestRevocation \/ WorkLapses \/ IntentLapses
  \/ \E r \in Replicas :
       \/ StartStep(r) \/ ClaimStep(r) \/ SweepStep(r)
       \/ SweepExpired(r) \/ ClaimIntent(r) \/ EmergencyCancel(r) \/ Crash(r)
  \/ \E r \in Replicas, k \in Connects : StartConnect(r, k) \/ Confirm(r, k) \/ Cancel(r, k)
  \/ \E k \in Connects :
       ClaimLapses(k) \/ RecordExpires(k) \/ PipelineReleases(k) \/ SteelExpires(k)

Spec == Init /\ [][Next]_vars

\* A handler that runs gets its next step; windows end; the two timers of the
\* replicas fire whatever else is running (strong fairness: requests may keep
\* a slot busy in between).
Fairness ==
  /\ \A r \in Replicas : WF_vars(StartStep(r) \/ ClaimStep(r) \/ SweepStep(r))
  /\ \A k \in Connects : WF_vars(ClaimLapses(k))
  /\ WF_vars(WorkLapses) /\ WF_vars(IntentLapses)
  /\ SF_vars(\E r \in Replicas : SweepExpired(r))
  /\ SF_vars(\E r \in Replicas : ClaimIntent(r))

FairSpec == Spec /\ Fairness

-----------------------------------------------------------------------------
\* However often a confirmation is repeated, deferred, reclaimed after a crash
\* or carried out by another replica, one attended session starts scans under
\* one search id only, whose record is stored (confirmAndScan,
\* enqueueClaimedConfirmation).
OneScanPerHandoff ==
  /\ jobs \subseteq searches
  /\ ~ReuseWarmSessions => \A i, j \in jobs : i[1] = j[1] => i = j

\* A live Steel session always has an owner that will release it: the start
\* that created it, a stored handoff, a started scan, or - after a crash, a
\* failed best-effort release or the end of its lease - only its own timeout.
SessionsAccounted ==
  \A k \in Connects : steel[k] = "live" =>
     \/ rec[k] # None
     \/ \E s \in 1 .. MaxConfirms : <<k, s>> \in jobs
     \/ \E r \in Replicas : HoldsUnstored(r, k)
     \/ k \in stranded

\* Once the revocation intent is completed, no session of the consent can be
\* confirmed: every stored handoff left is cancel-only, and a start still
\* under way is refused by the tombstone.
RevocationIsFinal ==
  intent.st = "done" => tombstone /\ \A k \in Connects : rec[k] = None \/ rec[k].cancel

\* The registry a development server uses answers and stores what the Redis
\* scripts do, for every handoff a run of the system can produce.
RegistriesAgree ==
  /\ \A k \in Connects : rec[k] # None =>
       /\ \A action \in {"confirm", "cancel"} :
            /\ MemoryClaim(rec[k], action, MaxConfirms, FreshToken(k))
                 = ClaimScript(rec[k], action, MaxConfirms, FreshToken(k))
            /\ rec[k].tok # 0 => MemoryAck(rec[k], action) = AckScript(rec[k], action)
       /\ rec[k].tok # 0 =>
            MemoryReclaim(rec[k], FreshToken(k)) = Reclaimed(rec[k], FreshToken(k))
       /\ MemoryRestore(FreshToken(k)) = RestoredHandoff(FreshToken(k))
  /\ \A r \in Replicas : proc[r].claim.tok # 0 =>
       LET c == proc[r].claim
       IN  /\ MemoryRenew(c) = RenewState(c)
           /\ MemoryClaimState(c) = ClaimState(c)
           /\ MemoryDefer(c) = Deferred(c)

\* A requested cancellation is carried out: the handoff goes away without
\* waiting for its lease to run out.
CancelCompletes ==
  \A k \in Connects : (rec[k] # None /\ rec[k].cancel) ~> (rec[k] = None)

\* Revoking a consent ends every stored handoff bound to it, the ones already
\* handed to a scan and the ones a racing start stores late included.
RevokedSessionsEnd ==
  \A k \in Connects : (consent = "revoked" /\ rec[k] # None) ~> (rec[k] = None)

\* What the user cancels or revokes is brought to an end.
HandoffsEnd == CancelCompletes /\ RevokedSessionsEnd
=============================================================================
