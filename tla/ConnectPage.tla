----------------------------- MODULE ConnectPage -----------------------------
(***************************************************************************)
(* The page on which a user connects a distributor account (RealConnect):  *)
(* its phases, the consent and session it holds, and the requests whose    *)
(* answers it awaits.  A handler keeps the session and the consent of the  *)
(* moment it was called, while the page goes on; the expiry of the access  *)
(* window starts a revocation that nobody waits for.  The API's side of    *)
(* each request is in ConnectHandoff; here it answers or fails, with or    *)
(* without having done its work.                                           *)
(***************************************************************************)
EXTENDS ModelBounds

VARIABLES
  ui,       \* what React holds of the page
  pending,  \* the handlers that await an answer, and what each closed over
  grants,   \* the API: consent grants, in the order they were given
  sessions, \* the API: the browser session opened under each grant
  overtaken \* a revocation was answered after the page held another consent

pageState == <<ui, pending, grants, sessions, overtaken>>
pageVars == <<pageState, boundVars>>

PageConsents == 1..MaxCalls

ASSUME PageAssumption == None \notin Nat

NoNotice == [says |-> "nothing", consent |-> None, session |-> None]

PageInit ==
  /\ ui = [phase |-> "form", consented |-> FALSE, consent |-> None, session |-> None,
             windowOver |-> FALSE, busy |-> FALSE, notice |-> NoNotice]
  /\ pending = {}
  /\ grants = [c \in PageConsents |-> "none"]
  /\ sessions = [c \in PageConsents |-> "none"]
  /\ overtaken = FALSE /\ BoundsInit

Handler(does, consent, session) == [does |-> does, consent |-> consent, session |-> session]
Await(h) == pending' = pending \cup {h}
GoOn(h, next) == pending' = (pending \ {h}) \cup next

\* A session is named after the grant it was opened under.
Revoked(c) == [grants EXCEPT ![c] = "revoked"]

\* The API ends the sessions of a revoked grant, now or in its own time.
Cleaned(c) == {sessions, [sessions EXCEPT ![c] = IF @ = "open" THEN "ended" ELSE @]}

Fails == faults < MaxFaults /\ faults' = faults + 1

-----------------------------------------------------------------------------
(* What the user does. *)
TickConsent ==
  /\ ui.phase \in {"form", "expired"} /\ ~ui.consented
  /\ ui' = [ui EXCEPT !.consented = TRUE]
  /\ UNCHANGED <<pending, grants, sessions, overtaken, boundVars>>

\* Opening, under a roster of artists, asks for the consent first.
OpenSteel ==
  /\ ui.phase \in {"form", "expired"} /\ ui.consented /\ ~ui.busy
  /\ calls < MaxCalls /\ calls' = calls + 1
  /\ ui' = [ui EXCEPT !.busy = TRUE, !.notice = NoNotice]
  /\ Await(Handler("grant", None, None))
  /\ UNCHANGED <<grants, sessions, overtaken, finals, faults>>

CancelAndRevoke ==
  /\ ui.phase = "login" /\ ui.session # None /\ ~ui.busy
  /\ ui' = [ui EXCEPT !.busy = TRUE, !.notice = NoNotice]
  /\ Await(Handler("cancel", ui.consent, ui.session))
  /\ UNCHANGED <<grants, sessions, overtaken, boundVars>>

ConfirmAndScan ==
  /\ ui.phase = "login" /\ ui.session # None /\ ~ui.busy /\ ~ui.windowOver
  /\ ui' = [ui EXCEPT !.busy = TRUE, !.phase = "scanning"]
  /\ Await(Handler("scan", ui.consent, ui.session))
  /\ UNCHANGED <<grants, sessions, overtaken, boundVars>>

RevokeAfterHandoff ==
  /\ ui.phase = "done" /\ ui.consent # None /\ ~ui.busy
  /\ ui' = [ui EXCEPT !.busy = TRUE]
  /\ Await(Handler("revoke", ui.consent, ui.session))
  /\ UNCHANGED <<grants, sessions, overtaken, boundVars>>

-----------------------------------------------------------------------------
(* The access window ends.  The timer sees it only in the login phase: the   *)
(* page lets go of the session and revokes the consent without waiting.      *)
WindowEnds ==
  /\ ui.session # None /\ ~ui.windowOver
  /\ ui' = [ui EXCEPT !.windowOver = TRUE]
  /\ UNCHANGED <<pending, grants, sessions, overtaken, boundVars>>

Expire ==
  /\ ui.phase = "login" /\ ui.session # None /\ ui.windowOver
  /\ ui' = [ui EXCEPT !.phase = "expired", !.session = None, !.consented = FALSE]
  /\ IF ui.consent # None THEN Await(Handler("expire", ui.consent, ui.session))
     ELSE UNCHANGED pending
  /\ UNCHANGED <<grants, sessions, overtaken, boundVars>>

-----------------------------------------------------------------------------
(* The answers start() awaits: the grant, then the session.  A failure       *)
(* after the grant is known makes it try to revoke the grant.                *)
Ungranted(h) ==
  /\ ui' = [ui EXCEPT !.phase = "form", !.busy = FALSE] /\ GoOn(h, {})

GrantAnswered(h) ==
  /\ h.does = "grant"
  /\ LET c == CHOOSE x \in PageConsents :
                grants[x] = "none" /\ \A y \in 1..x - 1 : grants[y] # "none"
     IN  \/ /\ grants' = [grants EXCEPT ![c] = "active"]
            /\ ui' = [ui EXCEPT !.consent = c] /\ GoOn(h, {Handler("connect", c, None)})
            /\ UNCHANGED faults
         \/ \* another scope, disclosure or retention than the page showed
            /\ Fails
            /\ grants' = [grants EXCEPT ![c] = "active"]
            /\ GoOn(h, {Handler("undo", c, None)}) /\ UNCHANGED ui
         \/ /\ Fails /\ Ungranted(h)
            /\ grants' \in {grants, [grants EXCEPT ![c] = "active"]}
  /\ UNCHANGED <<sessions, overtaken, calls, finals>>

\* Only a Steel session with an approved viewer and a future expiry is shown.
ConnectAnswered(h) ==
  /\ h.does = "connect"
  /\ \/ /\ sessions' = [sessions EXCEPT ![h.consent] = "open"]
        /\ ui' = [ui EXCEPT !.session = h.consent, !.windowOver = FALSE, !.phase = "login", !.busy = FALSE]
        /\ GoOn(h, {}) /\ UNCHANGED faults
     \/ /\ Fails
        /\ sessions' \in {sessions, [sessions EXCEPT ![h.consent] = "open"]}
        /\ GoOn(h, {Handler("undo", h.consent, None)}) /\ UNCHANGED ui
  /\ UNCHANGED <<grants, overtaken, calls, finals>>

UndoAnswered(h) ==
  /\ h.does = "undo"
  /\ \/ /\ grants' = Revoked(h.consent) /\ sessions' \in Cleaned(h.consent)
        /\ ui' = [ui EXCEPT !.consent = None, !.phase = "form", !.busy = FALSE]
        /\ UNCHANGED faults
     \/ /\ Fails /\ grants' \in {grants, Revoked(h.consent)} /\ UNCHANGED sessions
        /\ ui' = [ui EXCEPT !.phase = "form", !.busy = FALSE]
  /\ GoOn(h, {})
  /\ UNCHANGED <<overtaken, calls, finals>>

-----------------------------------------------------------------------------
(* The answers cancelAndRevoke() awaits: the session first, then the consent *)
(* the page held when it was called, if it held one.                         *)
Cancelled(h) ==
  [ui EXCEPT !.session = None, !.consent = None, !.phase = "form", !.consented = FALSE, !.busy = FALSE,
             !.notice = [says |-> "session and consent revoked", consent |-> h.consent,
                         session |-> h.session]]

CancelAnswered(h) ==
  /\ h.does = "cancel"
  /\ \/ /\ sessions' = [sessions EXCEPT ![h.session] = "ended"]
        /\ IF h.consent = None
           THEN ui' = Cancelled(h) /\ GoOn(h, {})
           ELSE GoOn(h, {Handler("cancelConsent", h.consent, h.session)}) /\ UNCHANGED ui
        /\ UNCHANGED faults
     \/ /\ Fails /\ sessions' \in {sessions, [sessions EXCEPT ![h.session] = "ended"]}
        /\ ui' = [ui EXCEPT !.busy = FALSE] /\ GoOn(h, {})
  /\ UNCHANGED <<grants, overtaken, calls, finals>>

CancelConsentAnswered(h) ==
  /\ h.does = "cancelConsent"
  /\ \/ grants' = Revoked(h.consent) /\ ui' = Cancelled(h) /\ UNCHANGED faults
     \/ /\ Fails /\ grants' \in {grants, Revoked(h.consent)}
        /\ ui' = [ui EXCEPT !.session = None, !.phase = "form", !.busy = FALSE]
  /\ GoOn(h, {})
  /\ UNCHANGED <<sessions, overtaken, calls, finals>>

(* confirmAndScan(): accepted, or back to the login view.                    *)
ScanAnswered(h) ==
  /\ h.does = "scan"
  /\ \/ /\ sessions[h.session] = "open"
        /\ sessions' = [sessions EXCEPT ![h.session] = "handed"]
        /\ ui' = [ui EXCEPT !.phase = "done", !.busy = FALSE]
        /\ UNCHANGED faults
     \/ /\ \/ Fails /\ sessions' \in {sessions, [sessions EXCEPT ![h.session] = "handed"]}
           \/ sessions[h.session] # "open" /\ UNCHANGED <<sessions, faults>>
        /\ ui' = [ui EXCEPT !.phase = "login", !.busy = FALSE]
  /\ GoOn(h, {})
  /\ UNCHANGED <<grants, overtaken, calls, finals>>

(* The revocations after the handoff and after the window.  Whichever answer *)
(* comes, it is applied to the page as it is by then.                        *)
ConsentGone(h) ==
  [ui EXCEPT !.consent = None, !.busy = IF h.does = "revoke" THEN FALSE ELSE @,
             !.notice = [says |-> "consent revoked", consent |-> h.consent, session |-> None]]

RevokeAnswered(h) ==
  /\ h.does \in {"revoke", "expire"}
  /\ \/ /\ grants' = Revoked(h.consent) /\ sessions' \in Cleaned(h.consent)
        /\ ui' = ConsentGone(h)
        /\ overtaken' = (overtaken \/ ui.consent \notin {None, h.consent})
        /\ UNCHANGED faults
     \/ /\ Fails /\ grants' \in {grants, Revoked(h.consent)}
        /\ ui' = IF h.does = "revoke" THEN [ui EXCEPT !.busy = FALSE] ELSE ui
        /\ UNCHANGED <<sessions, overtaken>>
  /\ GoOn(h, {})
  /\ UNCHANGED <<calls, finals>>

PageNext ==
  \/ TickConsent \/ OpenSteel \/ CancelAndRevoke \/ ConfirmAndScan \/ RevokeAfterHandoff
  \/ WindowEnds \/ Expire
  \/ \E h \in pending :
       \/ GrantAnswered(h) \/ ConnectAnswered(h) \/ UndoAnswered(h)
       \/ CancelAnswered(h) \/ CancelConsentAnswered(h) \/ ScanAnswered(h) \/ RevokeAnswered(h)

PageSpec == PageInit /\ [][PageNext]_pageVars

-----------------------------------------------------------------------------
PageTypeOK ==
  /\ ui.phase \in {"form", "login", "scanning", "done", "expired"}
  /\ {ui.consent, ui.session} \subseteq PageConsents \cup {None}
  /\ grants \in [PageConsents -> {"none", "active", "revoked"}]
  /\ sessions \in [PageConsents -> {"none", "open", "ended", "handed"}]

(* "Revocation is reported as complete only after the API confirms": what a   *)
(* notice names has ended, although failed answers may hide what the API did. *)
NoticeTrue ==
  LET n == ui.notice
  IN  /\ n.consent # None => grants[n.consent] = "revoked"
      /\ n.says = "session and consent revoked" => sessions[n.session] # "open"

(* While a sign-in is shown or handed off, the page can still revoke what it  *)
(* was given, unless the revocation of an earlier window answered late; and   *)
(* only then can it report a consent as revoked that is not.                  *)
ConsentHeld ==
  \/ overtaken
  \/ /\ ui.phase \in {"login", "scanning"} => ui.consent # None
     /\ ui.session # None /\ ui.consent # None => ui.consent = ui.session
     /\ ui.notice.says = "session and consent revoked" => ui.notice.consent # None

(* At most one handler of a button runs at a time, and the page is free when  *)
(* none does.                                                                 *)
OneHandler ==
  Cardinality({h \in pending : h.does # "expire"}) = IF ui.busy THEN 1 ELSE 0

(* What the page promises its user. *)
PageSound == NoticeTrue /\ ConsentHeld /\ OneHandler

(* The same with no exception: a reported revocation took place.              *)
RevocationNeverClaimed ==
  ui.notice.says = "session and consent revoked" => grants[ui.notice.session] = "revoked"
=============================================================================
