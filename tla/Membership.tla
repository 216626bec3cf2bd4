------------------------------ MODULE Membership ------------------------------
(***************************************************************************)
(* Memberships of one shared tenant (apps/api/src/membership-service.ts    *)
(* and tenant-routes.ts over packages/db/src/postgres-membership-store.ts) *)
(* and account deletion (account-deletion.ts).  A request resolves the     *)
(* caller's role once, then reads and writes rows in separate statements;  *)
(* requests interleave between any two of them.  A token outlives the      *)
(* login it was issued for, so no request asks whether the login is still  *)
(* there.  Managers and analysts have the rights of viewers here, so three *)
(* roles suffice.  A user's verified email is named by the user.           *)
(***************************************************************************)
EXTENDS ModelBounds

CONSTANTS
  Members,     \* the users
  Creator,     \* the user who created the tenant
  MemberSlots, \* requests in flight at the same time
  MaxInvites   \* bound on invitations

VARIABLES
  rowOf,      \* per membership id: the row, or None
  invites,    \* invitations made so far
  request,    \* per slot: the request in flight
  overlapped, \* two writing requests have been in flight at once
  grantsMade, \* the grants asked for: [to, role, by], by being the caller's role
  account     \* per user: [data, login, purged, deletion]

memberState == <<rowOf, invites, request, overlapped, grantsMade, account>>
memberVars == <<memberState, boundVars>>

Roles == {"owner", "admin", "viewer"}
InviteIds == 1..MaxInvites
RowIds == {Creator} \cup InviteIds
MemberRow == [user : Members \cup {None}, role : Roles, status : {"active", "invited"},
              email : Members \cup {None}]
NoRequest == [pc |-> "idle", op |-> None, actor |-> None, role |-> None, target |-> None,
              newRole |-> None, id |-> None, row |-> None]

ASSUME MemberAssumption ==
  /\ Creator \in Members /\ MaxInvites \in Nat
  /\ Creator \notin Nat /\ None \notin MemberRow  \* kinds of names do not mix

(* createTenant: the caller's row has the deterministic id *)
MemberInit ==
  /\ rowOf = [i \in RowIds |->
       IF i = Creator THEN [user |-> Creator, role |-> "owner", status |-> "active", email |-> None]
       ELSE None]
  /\ invites = 0 /\ overlapped = FALSE
  /\ request = [q \in MemberSlots |-> NoRequest]
  /\ grantsMade = {[to |-> Creator, role |-> "owner", by |-> "owner"]}
  /\ account = [u \in Members |->
       [data |-> TRUE, login |-> TRUE, purged |-> FALSE, deletion |-> "idle"]]
  /\ BoundsInit

Rank(role) == CASE role = "owner" -> 4 [] role = "admin" -> 3 [] OTHER -> 0
tenantRoleAtLeast(role, minimum) == Rank(role) >= Rank(minimum)

(* getActive: LIMIT 1 over the user's active rows, in no particular order *)
ActiveIds(u) == {i \in RowIds : rowOf[i] # None /\ rowOf[i].status = "active" /\ rowOf[i].user = u}
PendingIds(u) == {i \in RowIds : rowOf[i] # None /\ rowOf[i].status = "invited" /\ rowOf[i].email = u}
Owners == {i \in RowIds : rowOf[i] # None /\ rowOf[i].status = "active" /\ rowOf[i].role = "owner"}

SetRequest(q, new) == request' = [request EXCEPT ![q] = new]
FinishRequest(q) == request' = [request EXCEPT ![q] = NoRequest]

-----------------------------------------------------------------------------
(* admin or higher, and only an owner grants the owner role *)
MayGrant(role, newRole) ==
  tenantRoleAtLeast(role, "admin") /\ (newRole = "owner" => role = "owner")

(* registerTenantResolution, then the checks of the service that need no   *)
(* further read                                                            *)
BeginRequest(q) ==
  \E actor \in Members, op \in {"invite", "change", "remove"}, target \in Members, newRole \in Roles :
    \E id \in ActiveIds(actor) :
      /\ request[q].pc = "idle" /\ calls < MaxCalls
      /\ IF op = "remove" THEN tenantRoleAtLeast(rowOf[id].role, "admin") /\ newRole = "viewer"
         ELSE MayGrant(rowOf[id].role, newRole)
      /\ op = "invite" => invites < MaxInvites
      /\ calls' = calls + 1
      /\ SetRequest(q, [NoRequest EXCEPT !.pc = "read", !.op = op, !.actor = actor,
                 !.role = rowOf[id].role, !.target = target, !.newRole = newRole])
      /\ overlapped' = (overlapped \/ \E other \in MemberSlots : request[other].pc # "idle")
      /\ grantsMade' = IF op = "remove" THEN grantsMade
                       ELSE grantsMade \cup {[to |-> target, role |-> newRole, by |-> rowOf[id].role]}
      /\ UNCHANGED <<rowOf, invites, account, finals, faults>>

(* POST .../accept needs no membership, only the verified email *)
BeginAccept(q) ==
  \E actor \in Members :
    /\ request[q].pc = "idle" /\ calls < MaxCalls
    /\ PendingIds(actor) # {} /\ calls' = calls + 1
    /\ SetRequest(q, [NoRequest EXCEPT !.pc = "read", !.op = "accept", !.actor = actor,
               !.target = actor])
    /\ overlapped' = (overlapped \/ \E other \in MemberSlots : request[other].pc # "idle")
    /\ UNCHANGED <<rowOf, invites, grantsMade, account, finals, faults>>

-----------------------------------------------------------------------------
(* inviteMember: a pending invitation is returned, else one is written *)
ReadInvite(q) ==
  /\ request[q].pc = "read" /\ request[q].op = "invite"
  /\ IF PendingIds(request[q].target) # {} THEN FinishRequest(q)
     ELSE SetRequest(q, [request[q] EXCEPT !.pc = "write"])
  /\ UNCHANGED <<rowOf, invites, overlapped, grantsMade, account, boundVars>>

(* acceptInvite: getPendingInvite by the verified email *)
ReadPending(q) ==
  /\ request[q].pc = "read" /\ request[q].op = "accept"
  /\ IF PendingIds(request[q].actor) = {} THEN FinishRequest(q)
     ELSE \E id \in PendingIds(request[q].actor) :
            SetRequest(q, [request[q] EXCEPT !.pc = "write", !.id = id,
                    !.row = [rowOf[id] EXCEPT !.user = request[q].actor, !.status = "active", !.email = None]])
  /\ UNCHANGED <<rowOf, invites, overlapped, grantsMade, account, boundVars>>

(* Does changing or removing this row take an owner away? *)
Demotes(q, row) == row.role = "owner" /\ (request[q].op = "remove" \/ request[q].newRole # "owner")

(* changeRole, removeMember: the target's row; an owner's row is counted *)
ReadTarget(q) ==
  /\ request[q].pc = "read" /\ request[q].op \in {"change", "remove"}
  /\ IF ActiveIds(request[q].target) = {} THEN FinishRequest(q)
     ELSE \E id \in ActiveIds(request[q].target) :
            SetRequest(q, [request[q] EXCEPT !.pc = IF Demotes(q, rowOf[id]) THEN "count" ELSE "write",
                    !.id = id, !.row = [rowOf[id] EXCEPT !.role = request[q].newRole]])
  /\ UNCHANGED <<rowOf, invites, overlapped, grantsMade, account, boundVars>>

(* Broken variant: an owner is always counted as one of several. *)
LastOwnerNever == FALSE

(* countActiveOwners <= 1 *)
LastOwner == Cardinality(Owners) <= 1

CountActiveOwners(q) ==
  /\ request[q].pc = "count"
  /\ IF LastOwner THEN FinishRequest(q) ELSE SetRequest(q, [request[q] EXCEPT !.pc = "write"])
  /\ UNCHANGED <<rowOf, invites, overlapped, grantsMade, account, boundVars>>

(* put upserts the row that was read, also when it has been removed since; *)
(* remove deletes by id                                                    *)
WriteRow(q) ==
  LET r == request[q]
  IN /\ r.pc = "write" /\ (r.op = "invite" => invites < MaxInvites)
     /\ CASE r.op = "invite" ->
               /\ invites' = invites + 1
               /\ rowOf' = [rowOf EXCEPT ![invites + 1] =
                    [user |-> None, role |-> r.newRole, status |-> "invited", email |-> r.target]]
          [] r.op = "remove" -> rowOf' = [rowOf EXCEPT ![r.id] = None] /\ UNCHANGED invites
          [] OTHER -> rowOf' = [rowOf EXCEPT ![r.id] = r.row] /\ UNCHANGED invites
     /\ FinishRequest(q)
     /\ UNCHANGED <<overlapped, grantsMade, account, boundVars>>

(* A statement fails or the replica dies: the rest is not done. *)
RequestFails(q) ==
  /\ request[q].pc # "idle" /\ faults < MaxFaults /\ faults' = faults + 1
  /\ FinishRequest(q)
  /\ UNCHANGED <<rowOf, invites, overlapped, grantsMade, account, calls, finals>>

(* DELETE /api/account: purgeUserData in one transaction, then             *)
(* deleteKeycloakUser; a login that has gone already is success.           *)
DeleteAccount(u) ==
  /\ account[u].deletion = "idle" /\ calls < MaxCalls /\ calls' = calls + 1
  /\ account' = [account EXCEPT ![u].deletion = "purge"]
  /\ UNCHANGED <<rowOf, invites, request, overlapped, grantsMade, finals, faults>>

DeletionOrder(a) ==
  IF a.deletion = "purge" THEN [a EXCEPT !.data = FALSE, !.purged = TRUE, !.deletion = "login"]
  ELSE [a EXCEPT !.login = FALSE, !.deletion = "idle"]

(* A call of the deletion fails and ends it.  Memberships are not among    *)
(* the purged tables.                                                      *)
DeletionStep(u) ==
  /\ account[u].deletion # "idle"
  /\ \/ account' = [account EXCEPT ![u] = DeletionOrder(@)] /\ UNCHANGED faults
     \/ /\ faults < MaxFaults /\ faults' = faults + 1
        /\ account' = [account EXCEPT ![u].deletion = "idle"]
  /\ UNCHANGED <<rowOf, invites, request, overlapped, grantsMade, calls, finals>>

(* A scan under way, or a request with a token that has not expired,       *)
(* writes rows of the user after the purge.                                *)
WriteUserData(u) ==
  /\ ~account[u].data /\ calls < MaxCalls /\ calls' = calls + 1
  /\ account' = [account EXCEPT ![u].data = TRUE]
  /\ UNCHANGED <<rowOf, invites, request, overlapped, grantsMade, finals, faults>>

MemberNext ==
  \/ \E q \in MemberSlots :
       \/ BeginRequest(q) \/ BeginAccept(q) \/ ReadInvite(q) \/ ReadPending(q) \/ ReadTarget(q)
       \/ CountActiveOwners(q) \/ WriteRow(q) \/ RequestFails(q)
  \/ \E u \in Members : DeleteAccount(u) \/ DeletionStep(u) \/ WriteUserData(u)

MemberSpec == MemberInit /\ [][MemberNext]_memberVars

-----------------------------------------------------------------------------
MemberTypeOK ==
  /\ rowOf \in [RowIds -> MemberRow \cup {None}] /\ invites \in 0..MaxInvites
  /\ \A q \in MemberSlots : request[q].pc \in {"idle", "read", "count", "write"}
  /\ overlapped \in BOOLEAN

(* As long as requests do not overlap, no sequence of invitations, role    *)
(* changes, removals, repeated acceptances by a member and failed          *)
(* statements leaves the tenant without an active owner (changeRole,       *)
(* removeMember, countActiveOwners).                                       *)
OwnerKept == ~overlapped => Owners # {}

Holder(row) == IF row.status = "invited" THEN row.email ELSE row.user

\* Among these grants, a caller whose role allowed it gives u this role.
Granted(grants, u, role) ==
  \E g \in grants : /\ g.to = u /\ g.role = role
                    /\ g.by \in (IF role = "owner" THEN {"owner"} ELSE {"admin", "owner"})

(* However requests overlap, fail and write back rows they read earlier,   *)
(* every role in the tenant was asked for, for the person who holds it or  *)
(* is invited to it, by a caller whose role allowed that: an owner's by an *)
(* owner, every other by an admin or an owner (inviteMember, changeRole,   *)
(* acceptInvite).                                                          *)
RolesGranted ==
  \A i \in RowIds : rowOf[i] # None => Granted(grantsMade, Holder(rowOf[i]), rowOf[i].role)

(* A login goes only after a purge of its user has been committed: however *)
(* often a deletion fails half way, the user can repeat it (DELETE         *)
(* /api/account).                                                          *)
DeletionRepeatable == \A u \in Members : ~account[u].login => account[u].purged

(* What membership and account deletion promise. *)
AccountsSound == OwnerKept /\ RolesGranted /\ DeletionRepeatable

(* account-deletion.ts says that every non-audit record of the user is     *)
(* erased.                                                                 *)
NothingOutlivesLogin ==
  \A u \in Members : ~account[u].login =>
    ~account[u].data /\ \A i \in RowIds : rowOf[i] # None => Holder(rowOf[i]) # u

(* membership-service.ts promises that destructive actions protect the     *)
(* last owner, so that a tenant can never be orphaned.                     *)
TenantNeverOrphaned == Owners # {}
=============================================================================
