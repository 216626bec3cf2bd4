------------------------------- MODULE Access -------------------------------
(***************************************************************************)
(* The components that decide who may act and on what: the connect         *)
(* handoff and the page that drives it, membership and account deletion,   *)
(* the browser's session, the startup checks and the request gate.  Each   *)
(* takes the others' answers as its inputs, so a behaviour follows one of  *)
(* them, chosen in the initial state.                                      *)
(***************************************************************************)
EXTENDS ConnectHandoff, ConnectPage, Membership, WebSession, ServerGate, RequestGate

VARIABLE part

Parts == {"connect", "page", "members", "session", "servers", "requests"}

\* Requests each part may get.
PartCalls == CASE part \in {"servers", "page"} -> 2 [] part \in {"requests", "members"} -> 4 [] OTHER -> 3

\* A part that is not followed keeps one of its initial states.
AccessInit ==
  /\ part \in Parts
  /\ IF part = "servers" THEN TRUE ELSE deployed = ValidEnv
  /\ IF part = "requests" THEN TRUE ELSE deployment = [mode |-> "production", enabled |-> TRUE]
  /\ Init /\ PageInit /\ MemberInit /\ SessionInit /\ GateInit /\ RequestInit

AccessNext ==
  /\ UNCHANGED part
  /\ IF part = "connect" THEN Next /\ UNCHANGED <<calls, finals>> ELSE UNCHANGED handoffState
  /\ IF part = "page" THEN PageNext ELSE UNCHANGED pageState
  /\ IF part = "members" THEN MemberNext ELSE UNCHANGED memberState
  /\ IF part = "session" THEN SessionNext ELSE UNCHANGED sessionState
  /\ IF part = "servers" THEN GateNext ELSE UNCHANGED gateState
  /\ IF part = "requests" THEN RequestNext ELSE UNCHANGED requestState
  /\ calls' <= PartCalls

AccessSpec ==
  AccessInit /\ [][AccessNext]_<<part, handoffState, pageState, memberState, sessionState, gateState, requestState,
                        boundVars>>

(* The component a behaviour follows keeps its types. *)
TypesOK ==
  /\ part = "connect" => TypeOK
  /\ part = "page" => PageTypeOK
  /\ part = "members" => MemberTypeOK
  /\ part = "session" => SessionTypeOK
  /\ part = "servers" => GateTypeOK
  /\ part = "requests" => RequestTypeOK

(* What the user's browser relies on: the session its gateway keeps for it,  *)
(* and a connect page that reports no revocation which did not happen.       *)
BrowserSound == SessionSound /\ PageSound
=============================================================================
