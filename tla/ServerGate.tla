------------------------------ MODULE ServerGate ------------------------------
(***************************************************************************)
(* What lets a server process start and a user begin an attended login:    *)
(* validateServerConfig, the signed compliance approval, the envelope      *)
(* encryptor, the readiness answers and the Steel probe.  A process keeps  *)
(* the environment it booted with; the approval in it runs out while the   *)
(* process is up.  One clock unit stands for the 60 s clock skew, for the  *)
(* 5 s reserve of a lease and for the 15 s heartbeat; a call's timeout is  *)
(* one unit, or two where it is long.                                      *)
(***************************************************************************)
EXTENDS ModelBounds, Integers

CONSTANTS
  MaxTime   \* the longest behaviour, in clock units

Servers == {"api", "worker"}
Skew == 1             \* CLOCK_SKEW_SECONDS
MaxLifetime == 4      \* MAX_APPROVAL_LIFETIME_SECONDS
Reserve == 1          \* the cancellation-ack and completion reserves
Cleanup == 1          \* cleanupReserveMs
FreshBeat == 3        \* a heartbeat older than this is degraded
FixedLease == 2       \* CONSENT_REVOCATION_LEASE_MS of distributor-link.ts, 30 s
ReleaseBatch == 2     \* sessions one revocation releases

VARIABLES
  deployed,   \* the environment of the deployment
  booted,     \* per server: the environment it booted with, or None
  procKey,    \* per server: the key its encryptor wraps with, or None
  clock,
  beat,       \* when the worker last wrote its heartbeat
  steelUp,    \* Steel answers
  routed,     \* the last readiness answer of the API was ready
  page,       \* the Connect page: what it shows and since when
  answer,     \* the API's answer to the page's last start
  handles,    \* sealed session handles
  aliasOf,    \* the KMS key an alias points to
  lease       \* the release of sessions under way, with its claims, or None

gateState == <<deployed, booted, procKey, clock, beat, steelUp, routed, page, answer,
               handles, aliasOf, lease>>
gateVars == <<gateState, boundVars>>

-----------------------------------------------------------------------------
(* readDistributorLinkFlags and the variables the gates read.  A field has   *)
(* the values the gates tell apart.                                          *)
ValidEnv ==
  [kind |-> "production", hostedForm |-> FALSE, linkProvider |-> "steel", live |-> TRUE,
   legal |-> TRUE, kms |-> "arn", local |-> None, endpoint |-> FALSE, context |-> "production",
   cursorKey |-> TRUE, database |-> "one", redis |-> TRUE, keycloak |-> TRUE,
   dispatch |-> "bullmq", steelRequired |-> TRUE, steelMode |-> "cloud", apiKey |-> TRUE,
   apiUrl |-> None, origins |-> "exact", session |-> 4, readMax |-> 3, releases |-> 1,
   apiTimeout |-> 1, claim |-> 2, revocation |-> 2, unsafe |-> FALSE, baseUrl |-> TRUE,
   issued |-> 0, notBefore |-> 0, expires |-> 1, signed |-> TRUE,
   claims |-> "complete", limits |-> 4]

Values ==
  [kind |-> {"production", "development", "test"}, hostedForm |-> BOOLEAN,
   linkProvider |-> {"steel", "other"}, live |-> BOOLEAN, legal |-> BOOLEAN,
   kms |-> {"arn", "alias", None}, local |-> {"key", "malformed", None}, endpoint |-> BOOLEAN,
   context |-> {"production", "default", "malformed"}, cursorKey |-> BOOLEAN,
   database |-> {"one", "two", None}, redis |-> BOOLEAN, keycloak |-> BOOLEAN,
   dispatch |-> {"bullmq", None}, steelRequired |-> BOOLEAN,
   steelMode |-> {"cloud", "external", "self_hosted", "other"}, apiKey |-> BOOLEAN,
   apiUrl |-> {"https", "http", None}, origins |-> {"exact", "wildcard", None},
   session |-> {3, 4, 5}, readMax |-> {2, 3, 4}, releases |-> {1, 2, 3}, apiTimeout |-> {1, 2},
   claim |-> {1, 2, 3}, revocation |-> {1, 2, 3}, unsafe |-> BOOLEAN, baseUrl |-> BOOLEAN,
   issued |-> {0, 2}, notBefore |-> {0, 2}, expires |-> {0, 1, 4, 5}, signed |-> BOOLEAN,
   claims |-> {"complete", "scope missing"}, limits |-> {3, 4}]

\* Production with up to two fields changed; a development setup and the leases
\* of slow Steel calls with one.
Changed(env, f) == {[env EXCEPT ![f] = x] : x \in Values[f]}
DevelopmentEnv == [ValidEnv EXCEPT !.kind = "development", !.kms = None, !.local = "key"]
\* Steel calls of a minute, with leases that cover them.
SlowSteelEnv == [ValidEnv EXCEPT !.apiTimeout = 2, !.claim = 3, !.revocation = 3]

Deployments ==
  LET OneOff(env) == UNION {Changed(env, f) : f \in DOMAIN ValidEnv}
      Leases == UNION {Changed(SlowSteelEnv, f) : f \in {"apiTimeout", "claim", "revocation"}}
  IN  OneOff(DevelopmentEnv) \cup Leases \cup UNION {OneOff(env) : env \in OneOff(ValidEnv)}

\* No environment and no address is the absent value.
ASSUME GateAssumption ==
  MaxTime \in Nat /\ None \notin {"https", "arn", "local"} /\ None \notin Deployments

Production(env) == env.kind = "production"
Testing(env) == env.kind = "test"

-----------------------------------------------------------------------------
(* verifyComplianceApproval: the bundle is signed by the configured key, its *)
(* claims are complete, its window holds now, and the configured limits are  *)
(* within the approved ones.                                                 *)
BundleSigned(env) == env.signed
ClaimsComplete(env) == env.claims = "complete"
LimitsRespected(env) == env.session <= env.limits

WindowHolds(env) ==
  /\ env.issued <= clock + Skew /\ env.notBefore <= clock + Skew
  /\ env.expires > clock - Skew
  /\ env.issued <= env.notBefore /\ env.notBefore < env.expires
  /\ env.expires - env.issued <= MaxLifetime

ApprovalVerified(env) ==
  BundleSigned(env) /\ ClaimsComplete(env) /\ WindowHolds(env) /\ LimitsRespected(env)

(* assertDistroKidLiveScannerAllowed *)
LiveScannerAllowed(env) ==
  env.live /\ env.legal /\ (Production(env) => ApprovalVerified(env))

LeasesValid(env) ==
  /\ env.claim >= env.apiTimeout + Reserve
  /\ env.revocation >= env.apiTimeout + Reserve

(* The budget of one read: the Steel session covers the read and its         *)
(* clean-up, the read covers the paced releases and its clean-up.            *)
BudgetsValid(env) ==
  /\ env.session >= env.readMax + Cleanup
  /\ env.readMax >= env.releases + Cleanup

KeyIdValid(env) == Production(env) => env.kms = "arn" /\ ~env.endpoint
ContextValid(env) ==
  env.kms # None => env.context # "malformed" /\ (Production(env) => env.context = "production")

KeysValid(env) ==
  /\ env.kms = None \/ env.local = None
  /\ KeyIdValid(env) /\ ContextValid(env)
  /\ env.kms = None /\ env.local = None => Testing(env)
  /\ env.local # "malformed"

ViewerOriginsValid(env) == env.origins = "exact"

SteelValid(env) ==
  /\ env.steelMode \in {"cloud", "external", "self_hosted"}
  /\ env.steelMode = "cloud" => env.apiKey /\ env.apiUrl # "http"
  /\ env.steelMode \in {"external", "self_hosted"} => env.apiUrl = "https"
  /\ ViewerOriginsValid(env)

StoresValid(env) ==
  /\ env.cursorKey /\ env.database = "one" /\ env.redis /\ env.keycloak
  /\ env.dispatch = "bullmq" /\ env.steelRequired

ScannerValid(env) == env.live /\ env.legal /\ ~env.unsafe /\ env.baseUrl

(* assertNoHostedCredentialForm and assertProviderEnabled *)
ProviderAllowed(env) == ~env.hostedForm /\ env.linkProvider = "steel"

(* validateServerConfig *)
ValidateServerConfig(env) ==
  /\ ProviderAllowed(env)
  /\ env.live => env.legal /\ (Production(env) => ApprovalVerified(env))
  /\ KeysValid(env)
  /\ Production(env) =>
       /\ StoresValid(env) /\ SteelValid(env) /\ BudgetsValid(env)
       /\ LeasesValid(env) /\ ScannerValid(env)
  /\ env.dispatch = "bullmq" => env.redis

(* main of the API and of the worker refuse to run without their stores. *)
StoresConfigured(s, env) ==
  /\ env.database # None
  /\ s = "worker" => env.redis

(* envelopeEncryptorFromEnv: KMS, the local key, or in tests a random one *)
EncryptorFromEnv(env, draw) ==
  CASE env.kms # None -> <<"aws-kms", env.kms, env.context>>
    [] env.kms = None /\ env.local # None -> <<"local", env.local>>
    [] OTHER -> <<"local", draw>>

(* The key KMS uses for a key id: an alias can be repointed. *)
Target(key) == IF key[2] = "alias" THEN aliasOf ELSE "pinned key"

(* A v1 envelope opens under the same local key; a v2 envelope names its      *)
(* wrapper, and KMS unwraps with the key it wrapped with, under the same key  *)
(* id and encryption context.                                                 *)
SealLocal(key) == [format |-> "v1", wrapped |-> key]
SealKms(key) == [format |-> "v2", wrapped |-> <<key, Target(key)>>]
OpenLocal(key, blob) == blob.format = "v1" /\ blob.wrapped = key
OpenKms(key, blob) == blob.format = "v2" /\ blob.wrapped = <<key, Target(key)>>

Seal(key) == IF key[1] = "local" THEN SealLocal(key) ELSE SealKms(key)
Opens(key, blob) == IF key[1] = "local" THEN OpenLocal(key, blob) ELSE OpenKms(key, blob)

(* verifyEnvelopeEncryptor makes a round trip.  An alias is accepted outside *)
(* production, where KMS is taken to answer.                                 *)
Boot(s) ==
  /\ booted[s] = None /\ calls < MaxCalls
  /\ ValidateServerConfig(deployed) /\ StoresConfigured(s, deployed)
  /\ calls' = calls + 1
  /\ booted' = [booted EXCEPT ![s] = deployed]
  /\ procKey' = [procKey EXCEPT ![s] = EncryptorFromEnv(deployed, calls)]
  /\ beat' = IF s = "worker" THEN clock ELSE beat
  /\ UNCHANGED <<deployed, clock, steelUp, routed, page, answer, handles, aliasOf, lease, finals, faults>>

(* A process ends; what it held in memory is gone. *)
Exit(s) ==
  /\ booted[s] # None /\ faults < MaxFaults
  /\ faults' = faults + 1
  /\ booted' = [booted EXCEPT ![s] = None]
  /\ procKey' = [procKey EXCEPT ![s] = None]
  /\ routed' = (routed /\ s # "api")
  /\ lease' = IF s = "api" THEN None ELSE lease
  /\ UNCHANGED <<deployed, clock, beat, steelUp, page, answer, handles, aliasOf, calls, finals>>

SteelOutage ==
  /\ faults < MaxFaults /\ faults' = faults + 1
  /\ steelUp' = ~steelUp
  /\ UNCHANGED <<deployed, booted, procKey, clock, beat, routed, page, answer, handles, aliasOf, lease,
                 calls, finals>>

RepointAlias ==
  /\ deployed.kms = "alias"
  /\ aliasOf' = IF aliasOf = "key 1" THEN "key 2" ELSE "key 1"
  /\ UNCHANGED <<deployed, booted, procKey, clock, beat, steelUp, routed, page, answer, handles, lease,
                 boundVars>>

(* Time passes; a worker that is up beats.  A Steel call ends within its      *)
(* timeout and the work after it takes less than the reserve.                 *)
Pass ==
  /\ clock < MaxTime
  /\ lease # None => clock + 1 < lease.start + lease.env.apiTimeout + Reserve
  /\ clock' = clock + 1
  /\ beat' = IF booted["worker"] # None THEN clock + 1 ELSE beat
  /\ UNCHANGED <<deployed, booted, procKey, steelUp, routed, page, answer, handles, aliasOf, lease, boundVars>>

-----------------------------------------------------------------------------
(* resolveSteelMode falls back on the key, then the URL, for other values,   *)
(* but the probe refuses them.                                               *)
ResolveSteelMode(env) ==
  CASE env.steelMode # "other" -> env.steelMode
    [] env.steelMode = "other" /\ env.apiKey -> "cloud"
    [] OTHER -> IF env.apiUrl # None THEN "external" ELSE "cloud"

(* probeReachable: a 2xx answer in time *)
ProbeReachable == steelUp

ProbeSteelHealth(env) ==
  CASE env.steelMode = "other" -> "MISCONFIGURED"
    [] env.steelMode = "cloud" /\ (env.apiUrl = "http" \/ ~env.apiKey) -> "MISCONFIGURED"
    [] env.steelMode \in {"external", "self_hosted"} /\ env.apiUrl = None -> "MISCONFIGURED"
    [] OTHER -> IF ProbeReachable THEN "READY" ELSE "UNREACHABLE"

(* createCloudLiveProvider: null or a throw refuses the start *)
ProviderBuilt(env) ==
  LET mode == ResolveSteelMode(env) IN
  /\ mode = "cloud" => env.apiKey /\ env.apiUrl # "http"
  /\ mode # "cloud" => env.apiUrl # None
  /\ env.origins # "wildcard"

Dependencies(env) ==
  [redis |-> env.redis, postgres |-> env.database # None, keycloak |-> env.keycloak,
   queue |-> env.redis, workers |-> env.redis /\ clock - beat < FreshBeat]

(* ready: every dependency in production, the stores otherwise, and Steel *)
Ready(env) ==
  /\ Production(env) => \A d \in DOMAIN Dependencies(env) : Dependencies(env)[d]
  /\ Production(env) \/ env.steelRequired => ProbeSteelHealth(env) = "READY"

(* The orchestrator polls readiness and routes requests accordingly. *)
CheckReadiness ==
  /\ booted["api"] # None
  /\ routed' = Ready(booted["api"])
  /\ UNCHANGED <<deployed, booted, procKey, clock, beat, steelUp, page, answer, handles, aliasOf, lease, boundVars>>

(* Broken variant: the status answer does not look at the policy. *)
DistributorLoginByProbe(env) == ProbeSteelHealth(env) = "READY"

(* distributorLogin *)
DistributorLogin(env) == ProbeSteelHealth(env) = "READY" /\ LiveScannerAllowed(env)

(* ConnectGate loads the status and shows the form when it is ready. *)
LoadPage ==
  /\ booted["api"] # None /\ routed
  /\ page' = [ready |-> DistributorLogin(booted["api"]), at |-> clock]
  /\ answer' = None
  /\ UNCHANGED <<deployed, booted, procKey, clock, beat, steelUp, routed, handles, aliasOf, lease, boundVars>>

(* POST /api/connect/start: the policy's part of start, then the Steel        *)
(* session, whose reconnect handle is sealed.                                 *)
ConnectAnswers ==
  /\ booted["api"] # None /\ routed /\ page.ready /\ answer = None /\ steelUp
  /\ LET env == booted["api"] IN
     IF ProviderBuilt(env) /\ LiveScannerAllowed(env)
     THEN /\ answer' = [outcome |-> "started", at |-> clock]
          /\ handles' = handles \cup {Seal(procKey["api"])}
     ELSE /\ answer' = [outcome |-> "refused", at |-> clock]
          /\ UNCHANGED handles
  /\ UNCHANGED <<deployed, booted, procKey, clock, beat, steelUp, routed, page, aliasOf, lease, boundVars>>

(* A replica claims sessions to release them in Steel: one that its user      *)
(* cancels, or those of a consent whose revocation it reconciles, for the     *)
(* HTTP request under the fixed lease, in the sweep under the configured one. *)
IntentLease(by, env) == IF by = "request" THEN FixedLease ELSE env.revocation

ClaimSession(by) ==
  /\ booted["api"] # None /\ lease = None
  /\ lease' = [by |-> by, env |-> booted["api"], left |-> (IF by = "cancel" THEN 1 ELSE ReleaseBatch),
               isFirst |-> TRUE, start |-> clock, claim |-> clock + booted["api"].claim,
               intent |-> clock + IntentLease(by, booted["api"])]
  /\ UNCHANGED <<deployed, booted, procKey, clock, beat, steelUp, routed, page, answer, handles, aliasOf, boundVars>>

(* cancelByConsent releases one session after the other; completeCancellation *)
(* renews the claim of the next one before its Steel call.                    *)
NextRelease ==
  /\ lease # None /\ lease.left > 1
  /\ lease' = [lease EXCEPT !.left = lease.left - 1, !.isFirst = FALSE, !.start = clock,
                            !.claim = clock + lease.env.claim]
  /\ UNCHANGED <<deployed, booted, procKey, clock, beat, steelUp, routed, page, answer, handles, aliasOf, boundVars>>

(* The last session is acknowledged, then the intent. *)
AckClaim ==
  /\ lease # None /\ lease.left = 1
  /\ lease' = None
  /\ UNCHANGED <<deployed, booted, procKey, clock, beat, steelUp, routed, page, answer, handles, aliasOf, boundVars>>

-----------------------------------------------------------------------------
GateInit ==
  /\ deployed \in Deployments
  /\ booted = [s \in Servers |-> None]
  /\ procKey = [s \in Servers |-> None]
  /\ clock = 0 /\ beat = -FreshBeat
  /\ steelUp = TRUE /\ routed = FALSE
  /\ page = [ready |-> FALSE, at |-> 0] /\ answer = None
  /\ handles = {} /\ aliasOf = "key 1" /\ lease = None
  /\ BoundsInit

GateNext ==
  \/ \E s \in Servers : Boot(s) \/ Exit(s)
  \/ SteelOutage \/ RepointAlias \/ Pass \/ CheckReadiness \/ LoadPage \/ ConnectAnswers
  \/ \E by \in {"cancel", "request", "sweep"} : ClaimSession(by)
  \/ NextRelease \/ AckClaim

GateSpec == GateInit /\ [][GateNext]_gateVars

-----------------------------------------------------------------------------
GateTypeOK ==
  /\ \A f \in DOMAIN ValidEnv : deployed[f] \in Values[f]
  /\ \A s \in Servers : booted[s] \in {None, deployed}
  /\ clock \in 0 .. MaxTime /\ beat \in -FreshBeat .. MaxTime
  /\ {steelUp, routed, page.ready} \subseteq BOOLEAN

(* The Connect page never offers a login that the API must refuse: in        *)
(* production a start that follows the page's status within the clock unit   *)
(* is not refused by the policy, whichever part of the configuration or of   *)
(* the approval window is at its edge.                                       *)
LoginOfferedStarts ==
  answer # None /\ Production(deployed) /\ answer.at = page.at
    => answer.outcome = "started"

(* In production no release loses its session to another replica while its    *)
(* bounded Steel call and acknowledgement are under way, however many         *)
(* sessions are released before it, and a sweep's lease on a revocation lasts *)
(* at least through the first release.                                        *)
LeasesCoverCalls ==
  lease # None /\ Production(lease.env) =>
    /\ clock < lease.claim
    /\ lease.by = "sweep" /\ lease.isFirst => clock < lease.intent

(* A session handle a production API sealed is opened by every server of the  *)
(* deployment, after any number of restarts and whatever key an alias is      *)
(* pointed to meanwhile.                                                      *)
HandlesReopen ==
  \A s \in Servers : procKey[s] # None /\ Production(deployed) => \A h \in handles : Opens(procKey[s], h)

(* What the startup and request checks promise a running deployment. *)
GateSound == LoginOfferedStarts /\ LeasesCoverCalls /\ HandlesReopen

(* feature-flags.ts says that the lease on a revocation covers its Steel call *)
(* and a completion reserve.                                                  *)
IntentLeasesCover ==
  lease # None /\ Production(lease.env) /\ lease.by # "cancel" => clock < lease.intent
=============================================================================
