------------------------------ MODULE WebSession ------------------------------
(***************************************************************************)
(* The web gateway's session (apps/web): sign-in with state and nonce      *)
(* cookies, the cookie jar of one browser, the /bff proxy that refreshes   *)
(* tokens and retries, and sign-out.  The gateway keeps no session: every  *)
(* request works on the cookies it was sent with, and its answer changes   *)
(* the jar when it arrives.  Keycloak is external: it refreshes while the  *)
(* sign-in is alive, does not rotate refresh tokens (the realm leaves that *)
(* off) and changes its signing key now and then.                          *)
(***************************************************************************)
EXTENDS ModelBounds

CONSTANTS
  BffSlots,   \* requests the browser has in flight
  MaxLogins,  \* bound on sign-ins
  MaxKeys     \* bound on signing keys

VARIABLES
  jar,        \* cookies: access, refresh, state; isFresh: access has 30 s left
  alive,      \* sign-ins Keycloak would refresh
  logins,     \* authorization transactions begun
  tabs,       \* sign-in tabs whose callback is still to come
  signingKey, \* Keycloak's signing key
  cachedKey,  \* jwksCache: the newest key known to the gateway
  bff,        \* per slot: the proxied request in flight
  cause       \* since the last sign-in there has been a reason to lose the session

sessionState == <<jar, alive, logins, tabs, signingKey, cachedKey, bff, cause>>
sessionVars == <<sessionState, boundVars>>

ASSUME SessionAssumption == MaxLogins \in Nat /\ MaxKeys \in Nat /\ None \notin Nat

(* A token is named by the sign-in it belongs to. *)
NoJar == [access |-> None, isFresh |-> FALSE, refresh |-> None]
NoBff == [pc |-> "idle", kind |-> None, access |-> None, isFresh |-> FALSE, refresh |-> None,
          refreshed |-> FALSE, status |-> None, applied |-> 0]

(* setSessionCookies, clearSessionCookies: the other cookies stay *)
SetJar(cookies, session) ==
  [access |-> session.access, isFresh |-> session.isFresh, refresh |-> session.refresh,
   state |-> cookies.state]

(* exchangeAuthorizationCode, refreshTokenSet: Keycloak's answer need not  *)
(* carry a refresh token, the old one is kept                              *)
TokensOf(t) == [access |-> t, isFresh |-> TRUE, refresh |-> t]

SessionInit ==
  /\ jar = SetJar([state |-> None], NoJar)
  /\ alive = {} /\ logins = 0 /\ tabs = {}
  /\ signingKey = 1 /\ cachedKey = 0
  /\ bff = [r \in BffSlots |-> NoBff]
  /\ cause = TRUE
  /\ BoundsInit

keycloakVars == <<alive, logins, signingKey>>

-----------------------------------------------------------------------------
(* beginAuthorization: state, nonce and verifier of this transaction       *)
(* replace those of an earlier one                                         *)
BeginAuthorization ==
  /\ logins < MaxLogins
  /\ logins' = logins + 1 /\ tabs' = tabs \cup {logins + 1}
  /\ jar' = [jar EXCEPT !.state = logins + 1]
  /\ UNCHANGED <<alive, signingKey, cachedKey, bff, cause, boundVars>>

(* Keycloak's certs endpoint publishes the key it signs with. *)
PublishedKey == signingKey

(* verifiedJwtClaims: an unknown key id forces one more fetch of the keys *)
KeyFound == signingKey \in {cachedKey, PublishedKey}

(* A request of an earlier session whose answer will clear the cookies, or *)
(* set those of a sign-in that is over.                                    *)
Stale(r) ==
  /\ bff[r].pc # "idle"
  /\ \/ bff[r].refresh \notin alive \/ bff[r].pc = "denied"
     \/ bff[r].pc = "answer" /\ bff[r].status = "401"

(* The callback's state must be the one in the jar; a failure clears both  *)
(* the transaction and the session cookies.                                *)
Callback(t) ==
  /\ t \in tabs /\ tabs' = tabs \ {t}
  /\ \/ /\ jar.state = t /\ KeyFound
        /\ jar' = SetJar([state |-> None], TokensOf(t))
        /\ alive' = alive \cup {t}
        /\ cachedKey' = signingKey
        /\ cause' = \E r \in BffSlots : Stale(r)
        /\ UNCHANGED faults
     \/ /\ IF jar.state = t THEN faults < MaxFaults /\ faults' = faults + 1 ELSE UNCHANGED faults
        /\ jar' = SetJar([state |-> None], NoJar)
        /\ cause' = TRUE
        /\ UNCHANGED <<alive, cachedKey>>
  /\ UNCHANGED <<logins, signingKey, bff, calls, finals>>

(* accessTokenIsFresh: a token in the jar, or one a request was sent with, *)
(* comes within 30 s of its end; a token issued during the request         *)
(* outlives it (the call has 60 s)                                         *)
AccessExpires(holder) ==
  /\ holder.isFresh
  /\ \/ /\ holder = jar /\ jar' = [jar EXCEPT !.isFresh = FALSE] /\ UNCHANGED bff
     \/ /\ \E r \in BffSlots : /\ holder = bff[r] /\ ~bff[r].refreshed
                              /\ bff' = [bff EXCEPT ![r].isFresh = FALSE]
        /\ UNCHANGED jar
  /\ UNCHANGED <<keycloakVars, tabs, cachedKey, cause, boundVars>>

RotateKey ==
  /\ signingKey < MaxKeys /\ signingKey' = signingKey + 1
  /\ UNCHANGED <<jar, alive, logins, tabs, cachedKey, bff, cause, boundVars>>

-----------------------------------------------------------------------------
SetBff(r, new) == bff' = [bff EXCEPT ![r] = new]

(* What follows once the access token is settled: the proxied call, or the *)
(* validation that GET /auth/session answers from.                         *)
Proceed(kind) == IF kind = "session" THEN "validate" ELSE "call"

(* handler, GET /auth/session: the request carries the jar as it is now *)
SendRequest(r, kind) ==
  LET access == jar.access
      pc == IF ~jar.isFresh /\ jar.refresh # None THEN "refresh"
            ELSE IF access = None THEN "denied" ELSE Proceed(kind)
  IN /\ bff[r].pc = "idle" /\ calls < MaxCalls /\ calls' = calls + 1
     /\ SetBff(r, [NoBff EXCEPT !.pc = pc, !.kind = kind, !.access = access, !.isFresh = jar.isFresh,
                                !.refresh = jar.refresh])
     /\ UNCHANGED <<jar, keycloakVars, tabs, cachedKey, cause, faults, finals>>

(* refreshTokenSet and validateAccessToken; "refresh" precedes the first   *)
(* call, "again" follows a 401                                             *)
RefreshTokenSet(r) ==
  /\ bff[r].pc \in {"refresh", "again"}
  /\ \/ /\ bff[r].refresh \in alive /\ KeyFound
        /\ SetBff(r, [bff[r] EXCEPT !.pc = Proceed(bff[r].kind), !.access = bff[r].refresh, !.isFresh = TRUE,
                                    !.refreshed = TRUE])
        /\ cachedKey' = signingKey
        /\ UNCHANGED <<faults, cause>>
     \/ /\ IF bff[r].refresh \in alive /\ KeyFound THEN faults < MaxFaults /\ faults' = faults + 1
           ELSE UNCHANGED faults
        /\ cause' = (cause \/ bff[r].refresh \notin alive \/ faults' # faults)
        /\ SetBff(r, [bff[r] EXCEPT !.pc = "denied"])
        /\ UNCHANGED <<cachedKey>>
  /\ UNCHANGED <<jar, keycloakVars, tabs, calls, finals>>

(* GET /auth/session: validateAccessToken decides between the user's       *)
(* display data and a 401                                                  *)
ValidateSession(r) ==
  /\ bff[r].pc = "validate"
  /\ LET valid == bff[r].isFresh /\ KeyFound
     IN \/ /\ SetBff(r, [bff[r] EXCEPT !.pc = "answer", !.status = IF valid THEN "ok" ELSE "401"])
           /\ cachedKey' = signingKey /\ cause' = (cause \/ ~valid) /\ UNCHANGED faults
        \/ /\ faults < MaxFaults /\ faults' = faults + 1
           /\ SetBff(r, [bff[r] EXCEPT !.pc = "answer", !.status = "401"])
           /\ cause' = TRUE /\ UNCHANGED cachedKey
  /\ UNCHANGED <<jar, keycloakVars, tabs, calls, finals>>

(* Broken variant: every failed call is sent again. *)
RetriesAny(r, status) == status # "ok" /\ ~bff[r].refreshed /\ bff[r].refresh # None

(* Only a 401, which the API sends before doing anything, is retried, and  *)
(* only once.                                                              *)
Retries(r, status) == status = "401" /\ ~bff[r].refreshed /\ bff[r].refresh # None

(* callApi: the API refuses an expired token, and any token it cannot      *)
(* verify because the keys cannot be fetched; a call may also time out     *)
(* after the API has acted on it.  When the second call fails, the 401 of  *)
(* the first one is the answer.                                            *)
CallApi(r) ==
  \E status \in {"ok", "401", "lost"}, acted \in BOOLEAN :
    LET answer401 == status = "401" \/ (status = "lost" /\ bff[r].status = "401")
    IN /\ bff[r].pc = "call"
       /\ status = "ok" => acted
       /\ status = "401" => ~acted
       /\ IF status = "lost" THEN faults < MaxFaults /\ faults' = faults + 1 ELSE UNCHANGED faults
       /\ SetBff(r, [bff[r] EXCEPT !.pc = IF Retries(r, status) THEN "again" ELSE "answer",
                     !.status = IF answer401 THEN "401" ELSE status,
                     !.applied = bff[r].applied + (IF acted THEN 1 ELSE 0)])
       /\ cause' = (cause \/ (answer401 /\ ~Retries(r, status)))
       /\ UNCHANGED <<jar, keycloakVars, tabs, cachedKey, calls, finals>>

(* The answer reaches the browser: 401 clears the session cookies, a       *)
(* refresh sets them, a lost call changes nothing.                         *)
DeliverAnswer(r) ==
  /\ bff[r].pc \in {"answer", "denied"}
  /\ jar' = IF bff[r].pc = "denied" \/ bff[r].status = "401" THEN SetJar(jar, NoJar)
            ELSE IF bff[r].status = "ok" /\ bff[r].refreshed THEN SetJar(jar, TokensOf(bff[r].refresh))
            ELSE jar
  /\ SetBff(r, NoBff)
  /\ UNCHANGED <<keycloakVars, tabs, cachedKey, cause, boundVars>>

(* POST /auth/logout: revocation may fail, the cookies are cleared *)
Logout ==
  /\ jar.refresh # None /\ calls < MaxCalls /\ calls' = calls + 1
  /\ \/ alive' = alive \ {jar.refresh} /\ UNCHANGED faults
     \/ faults < MaxFaults /\ faults' = faults + 1 /\ UNCHANGED alive
  /\ jar' = SetJar(jar, NoJar)
  /\ cause' = TRUE
  /\ UNCHANGED <<logins, tabs, signingKey, cachedKey, bff, finals>>

SessionNext ==
  \/ BeginAuthorization \/ RotateKey \/ Logout
  \/ \E t \in 1..MaxLogins : Callback(t)
  \/ AccessExpires(jar)
  \/ \E r \in BffSlots : AccessExpires(bff[r])
  \/ \E r \in BffSlots : RefreshTokenSet(r) \/ ValidateSession(r) \/ CallApi(r) \/ DeliverAnswer(r)
  \/ \E r \in BffSlots, kind \in {"bff", "session"} : SendRequest(r, kind)

SessionSpec == SessionInit /\ [][SessionNext]_sessionVars

-----------------------------------------------------------------------------
SessionTypeOK ==
  /\ {jar.access, jar.refresh, jar.state} \subseteq (1..MaxLogins) \cup {None}
  /\ alive \subseteq 1..MaxLogins
  /\ \A r \in BffSlots : bff[r].pc \in {"idle", "refresh", "again", "validate", "call", "answer", "denied"}

(* The API acts on a proxied request at most once, through refreshes, the  *)
(* retry after a 401 and calls whose answer is lost (handler in            *)
(* app/bff/[...path]/route.ts).                                            *)
AppliedOnce == \A r \in BffSlots : bff[r].applied <= 1

(* A signed-in browser stays signed in, to a sign-in Keycloak still        *)
(* refreshes: however requests refresh in parallel, answers overtake each  *)
(* other, calls are lost and signing keys change.  The exceptions are a    *)
(* sign-out; a failed sign-in; a refresh that is refused or fails; an      *)
(* access token that expires on the way to GET /auth/session or cannot be  *)
(* validated there; an API that answers 401 for good; and, since a         *)
(* sign-in, an answer to a request sent before it that carried no tokens,  *)
(* was denied already or belongs to a sign-in that is over                 *)
(* (setSessionCookies, clearSessionCookies).                               *)
SessionKept == ~cause => jar.refresh \in alive

(* What the browser's session promises a signed-in user. *)
SessionSound == AppliedOnce /\ SessionKept

(* The gateway's route.ts says that a final 401 clears an unusable session. *)
OnlyUnusableCleared ==
  \A r \in BffSlots : bff[r].kind = "bff" /\ bff[r].pc = "answer" /\ bff[r].status = "401" =>
    bff[r].refresh \notin alive
=============================================================================
