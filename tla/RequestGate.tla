----------------------------- MODULE RequestGate -----------------------------
(***************************************************************************)
(* What a request passes before a handler of the API runs: bearer-token    *)
(* authentication, the route allowlist, the role guards, and the           *)
(* Redis-backed fixed-window limit on consents and browser sessions, then  *)
(* the consent handler up to its last write.  Several replicas serve one   *)
(* subject at once and share only Redis and PostgreSQL; each await is a    *)
(* step.  Tenant selection, the hook in between, is in Membership; what a  *)
(* connect request does once admitted is in ConnectHandoff.                *)
(***************************************************************************)
EXTENDS ModelBounds

CONSTANTS
  Subjects,        \* Keycloak subjects
  RequestSlots,    \* requests served at once
  RateLimit,       \* policy.limit
  RateWindow,      \* policy.windowMs, in ticks
  TicksPerSecond,  \* ticks in the second Retry-After is given in
  MaxGateTicks     \* bound on the clock

\* productionRateLimitConfig refuses to start with any other policy.
ValidPolicy == {RateLimit, RateWindow} \subseteq Nat \ {0}

\* A window's expiry may be None: no TTL.
Windows == [count : Nat \ {0}, expires : Nat \cup {None}, from : Nat]

ASSUME RequestAssumption ==
  /\ ValidPolicy
  /\ TicksPerSecond \in Nat \ {0}
  /\ MaxGateTicks \in Nat
  /\ IsFiniteSet(RequestSlots)
  /\ None \notin Nat /\ None \notin Windows

VARIABLES
  gateTicks,  \* Redis's clock
  deployment, \* the environment the process was configured from
  windows,    \* rate-limit keys: count, expiry (None: no TTL), creation time
  requests,   \* per slot: the request in service
  admissions, \* per rate-limit key: the requests admitted, and when (production)
  told,       \* per rate-limit key: the latest refusal and its Retry-After
  trail,      \* consent.grant.requested events in the audit log, per subject
  granted     \* consent rows, per subject

requestState == <<gateTicks, deployment, windows, requests, admissions, told, trail, granted>>
requestVars == <<requestState, boundVars>>

SentinelRoles == {"user", "platform_admin", "service_worker"}
InteractiveRoles == {"user", "platform_admin"}
Buckets == {"consent", "connect"}
Routes == Buckets \cup {"live", "status", "admin", "unlisted"}
Anonymous == [sub |-> "anonymous", roles |-> {}, authenticated |-> FALSE]

\* A bearer token: absent, rejected by jose, or signed for this realm and API.
BearerTokens ==
  {[kind |-> "absent"], [kind |-> "forged"]} \cup
  [kind : {"signed"}, sub : Subjects \cup {None},
   roles : {{}, {"offline_access"}} \cup {{r} : r \in SentinelRoles}]

\* None stands for the error that keeps the process from starting.
ReadKeycloakConfig(env) ==
  IF (~env.auth /\ env.mode # "test") \/ (env.auth /\ ~(env.base /\ env.audience)) THEN None
  ELSE [mode |-> env.mode, enabled |-> env.auth]

\* A test runtime with authentication on also stands for a development one.
Environments == [mode : {"production", "test"}, auth : BOOLEAN, base : BOOLEAN, audience : BOOLEAN]
NoCall == [pc |-> "idle"]
Keys == Buckets \X (Subjects \cup {"anonymous"})

RequestInit ==
  /\ deployment \in {ReadKeycloakConfig(env) : env \in Environments} \ {None}
  /\ gateTicks = 0
  /\ windows = [k \in Keys |-> None]
  /\ requests = [i \in RequestSlots |-> NoCall]
  /\ admissions = [k \in Keys |-> {}]
  /\ told = [k \in Keys |-> None]
  /\ trail = [s \in Subjects \cup {"anonymous"} |-> 0]
  /\ granted = [s \in Subjects \cup {"anonymous"} |-> 0]
  /\ BoundsInit

IdentityFromPayload(token) ==
  IF token.sub = None \/ token.roles \cap SentinelRoles = {} THEN None
  ELSE [sub |-> token.sub, roles |-> token.roles \cap SentinelRoles, authenticated |-> TRUE]

Verify(token) == IF token.kind = "signed" THEN IdentityFromPayload(token) ELSE None

\* The onRequest hook: an identity, or None for a 401.
Authenticate(token, route) ==
  IF ~deployment.enabled \/ route = "live" THEN Anonymous ELSE Verify(token)

HasAnyRole(id, required) == "platform_admin" \in id.roles \/ id.roles \cap required # {}

RequireAuth(id) ==
  /\ deployment.enabled => id.authenticated
  /\ id.authenticated => HasAnyRole(id, InteractiveRoles)

RequireRole(id, role) ==
  /\ deployment.enabled => id.authenticated
  /\ id.authenticated => role \in id.roles

\* The allowlist hook looks at the route pattern, once authentication is on.
Allowed(route) ==
  (deployment.mode = "production" \/ deployment.enabled) => route # "unlisted"

Guard(id, route) ==
  CASE route \in Buckets -> RequireRole(id, "user")
    [] route = "admin" -> RequireRole(id, "platform_admin")
    [] route = "status" -> RequireAuth(id)
    [] OTHER -> TRUE

\* A request the guards refuse changes nothing.
RequestArrives(i, token, route) ==
  LET id == Authenticate(token, route) IN
  /\ requests[i].pc = "idle" /\ calls < MaxCalls
  /\ id # None /\ Allowed(route) /\ Guard(id, route)
  /\ requests' = [requests EXCEPT ![i] =
       [pc |-> IF route \in Buckets THEN "limit" ELSE "read", route |-> route, id |-> id]]
  /\ calls' = calls + 1
  /\ UNCHANGED <<gateTicks, deployment, windows, admissions, told, trail, granted, finals, faults>>

MoveRequest(i, pc) == requests' = [requests EXCEPT ![i].pc = pc]
EndRequest(i) == requests' = [requests EXCEPT ![i] = NoCall]

\* Probes, health and status pages only read.
ServeRead(i) ==
  /\ requests[i].pc = "read" /\ EndRequest(i)
  /\ UNCHANGED <<gateTicks, deployment, windows, admissions, told, trail, granted, boundVars>>

Lives(w) == w # None /\ (w.expires # None => gateTicks < w.expires)

(* Broken variant: a key that has lost its TTL keeps none. *)
TakeFixedWindowNoRepair(w) ==
  IF Lives(w) THEN [w EXCEPT !.count = @ + 1]
  ELSE [count |-> 1, expires |-> gateTicks + RateWindow, from |-> gateTicks]

\* TAKE_FIXED_WINDOW: INCR, PEXPIRE on the first count, and on a key that
\* PTTL reports without a TTL.
TakeFixedWindow(w) ==
  IF ~Lives(w) THEN [count |-> 1, expires |-> gateTicks + RateWindow, from |-> gateTicks]
  ELSE [w EXCEPT !.count = @ + 1,
                 !.expires = IF @ = None THEN gateTicks + RateWindow ELSE @]

\* Math.max(1, Math.ceil(ttl / 1000)) seconds, in ticks.
RetryAfter(ttl) ==
  TicksPerSecond * (IF ttl = 0 THEN 1 ELSE (ttl + TicksPerSecond - 1) \div TicksPerSecond)

WithinLimit(count) == count <= RateLimit

\* The admissions of a key are numbered, so that they count.
Admission(k) == [at |-> gateTicks, n |-> Cardinality(admissions[k]) + 1]

\* enforceProductionRateLimit, with the script's answer.  Outside production
\* nothing is limited.
EnforceRateLimit(i) ==
  LET r == requests[i]
      k == <<r.route, r.id.sub>>
      w == TakeFixedWindow(windows[k])
      production == deployment.mode = "production"
      allowed == production => WithinLimit(w.count)
  IN
  /\ r.pc = "limit"
  /\ windows' = IF production THEN [windows EXCEPT ![k] = w] ELSE windows
  /\ IF allowed
     THEN /\ IF r.route = "consent" THEN MoveRequest(i, "audit") ELSE EndRequest(i)
          /\ admissions' = IF production THEN [admissions EXCEPT ![k] = @ \cup {Admission(k)}] ELSE admissions
          /\ told' = told
     ELSE /\ EndRequest(i)
          /\ told' = [told EXCEPT ![k] = [at |-> gateTicks,
                       until |-> gateTicks + RetryAfter(IF w.expires = None THEN 0 ELSE w.expires - gateTicks)]]
          /\ admissions' = admissions
  /\ UNCHANGED <<gateTicks, deployment, trail, granted, boundVars>>

\* Redis does not answer, or answers garbage: 503.  The script may have run.
RateLimiterFails(i) ==
  LET r == requests[i]
      k == <<r.route, r.id.sub>>
  IN
  /\ r.pc = "limit" /\ deployment.mode = "production" /\ faults < MaxFaults
  /\ windows' \in {windows, [windows EXCEPT ![k] = TakeFixedWindow(@)]}
  /\ EndRequest(i) /\ faults' = faults + 1
  /\ UNCHANGED <<gateTicks, deployment, admissions, told, trail, granted, calls, finals>>

\* POST /api/consent: the request is in the audit log before the grant is.
\* requireSubject passes here: the identity has a subject.
AuditConsent(i) ==
  /\ requests[i].pc = "audit"
  /\ trail' = [trail EXCEPT ![requests[i].id.sub] = @ + 1]
  /\ MoveRequest(i, "grant")
  /\ UNCHANGED <<gateTicks, deployment, windows, admissions, told, granted, boundVars>>

GrantConsent(i) ==
  /\ requests[i].pc = "grant"
  /\ granted' = [granted EXCEPT ![requests[i].id.sub] = @ + 1]
  /\ EndRequest(i)
  /\ UNCHANGED <<gateTicks, deployment, windows, admissions, told, trail, boundVars>>

\* A body the handler refuses, a failed write, or a crash of the replica
\* ends the request where it stands.
RequestEnds(i) ==
  /\ requests[i].pc \in {"audit", "grant"} /\ faults < MaxFaults
  /\ EndRequest(i) /\ faults' = faults + 1
  /\ UNCHANGED <<gateTicks, deployment, windows, admissions, told, trail, granted, calls, finals>>

GateTick ==
  /\ gateTicks < MaxGateTicks /\ gateTicks' = gateTicks + 1
  /\ UNCHANGED <<deployment, windows, requests, admissions, told, trail, granted, boundVars>>

\* A key loses its expiry outside this code (a restore, an operator's
\* PERSIST).  The Retry-After given before is then off.
LoseTtl(k) ==
  /\ Lives(windows[k]) /\ windows[k].expires # None /\ faults < MaxFaults
  /\ windows' = [windows EXCEPT ![k].expires = None]
  /\ told' = [told EXCEPT ![k] = None]
  /\ faults' = faults + 1
  /\ UNCHANGED <<gateTicks, deployment, requests, admissions, trail, granted, calls, finals>>

RequestNext ==
  \/ \E i \in RequestSlots :
       \/ \E token \in BearerTokens, route \in Routes : RequestArrives(i, token, route)
       \/ ServeRead(i)
       \/ EnforceRateLimit(i) \/ RateLimiterFails(i)
       \/ AuditConsent(i) \/ GrantConsent(i) \/ RequestEnds(i)
  \/ \E k \in Keys : LoseTtl(k)
  \/ GateTick

RequestSpec == RequestInit /\ [][RequestNext]_requestVars

RequestTypeOK ==
  /\ gateTicks \in 0..MaxGateTicks
  /\ deployment.mode = "production" => deployment.enabled
  /\ \A k \in Keys : windows[k] # None => windows[k].count \in Nat \ {0}
  /\ \A i \in RequestSlots : requests[i].pc \in {"idle", "read", "limit", "audit", "grant"}
  /\ \A s \in DOMAIN trail : trail[s] \in Nat /\ granted[s] \in 0..trail[s]  \* granted after audited

AdmittedBetween(k, a, b) == Cardinality({x \in admissions[k] : x.at \in a..b})

(* However requests of one subject interleave over the replicas, and       *)
(* wherever the fixed windows fall, no span of one window's length sees    *)
(* more than twice the limit admitted (TAKE_FIXED_WINDOW, which must count *)
(* and expire in one script).                                              *)
WindowBound ==
  deployment.mode = "production" =>
    \A k \in Keys : \A a \in 0..gateTicks : AdmittedBetween(k, a, a + RateWindow - 1) <= 2 * RateLimit

(* A client refused with 429 that waits for the Retry-After it was given   *)
(* finds the window it was refused in over, also when the key had lost its *)
(* TTL before it asked: nobody is locked out for good.                     *)
RefusalsEnd ==
  \A k \in Keys :
    told[k] # None /\ gateTicks >= told[k].until /\ Lives(windows[k]) =>
      windows[k].from > told[k].at

(* In a deployed process a consent or a browser session is requested only  *)
(* by a subject with the role user (platform_admin is no customer          *)
(* super-user, a worker's service token is none either), and operational   *)
(* routes serve only platform_admin: requireRole.                          *)
RolesExact ==
  deployment.mode = "production" =>
    \A i \in RequestSlots : requests[i].pc # "idle" =>
      /\ requests[i].route \in Buckets => requests[i].id.authenticated /\ "user" \in requests[i].id.roles
      /\ requests[i].route = "admin" => "platform_admin" \in requests[i].id.roles
      /\ requests[i].route \notin {"live", "unlisted"} => requests[i].id.authenticated
      /\ requests[i].route # "unlisted"

(* What the request gate promises, over all replicas. *)
AdmissionSound == WindowBound /\ RefusalsEnd /\ RolesExact
=============================================================================
