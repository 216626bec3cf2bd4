--------------------------- MODULE Access_proofs ----------------------------
(***************************************************************************)
(* Proofs about what guards the accounts: the memberships of a tenant, the *)
(* web gateway's session, a server's startup and readiness, the            *)
(* authentication and limit of a request, and the page that drives a       *)
(* connect.  Each part has its own specification, invariant and theorem.   *)
(***************************************************************************)
EXTENDS Access, ConnectHandoff_proofs

-----------------------------------------------------------------------------
(* Memberships and account deletion. *)

RequestPcs == {"idle", "read", "count", "write"}
RequestOps == {None, "invite", "accept", "change", "remove"}
MemberRequests == [pc : RequestPcs, op : RequestOps, actor : Members \cup {None},
                   role : Roles \cup {None}, target : Members \cup {None},
                   newRole : Roles \cup {None}, id : RowIds \cup {None},
                   row : MemberRow \cup {None}]
Accounts == [data : BOOLEAN, login : BOOLEAN, purged : BOOLEAN, deletion : {"idle", "purge", "login"}]

\* The ids a row may have been written under.
UsedRowIds == {Creator} \cup 1 .. invites

MemberSane ==
    /\ rowOf \in [RowIds -> MemberRow \cup {None}] /\ invites \in 0 .. MaxInvites
    /\ request \in [MemberSlots -> MemberRequests]
    /\ overlapped \in BOOLEAN
    /\ account \in [Members -> Accounts]
    /\ \A i \in RowIds : rowOf[i] # None => i \in UsedRowIds

\* A request past its first read knows its row, but for an invitation.
CallSane(r) ==
  r.pc # "idle" =>
    /\ r.op \in {"invite", "accept", "change", "remove"} /\ r.target \in Members
    /\ r.op \in {"invite", "change", "remove"} => r.newRole \in Roles
    /\ r.op = "accept" => r.actor \in Members
    /\ r.pc = "count" => r.op \in {"change", "remove"}
    /\ r.pc \in {"count", "write"} /\ r.op # "invite" => r.id \in UsedRowIds
    /\ r.pc \in {"count", "write"} /\ r.op \in {"accept", "change"} => r.row \in MemberRow

\* What a request is about to write was asked for by somebody who may.
Backed(given, r) ==
    /\ r.pc # "idle" /\ r.op \in {"invite", "change"} => Granted(given, r.target, r.newRole)
    /\ r.pc \in {"count", "write"} /\ r.op \in {"accept", "change"} => Granted(given, Holder(r.row), r.row.role)

\* A deletion past its purge, and a login that is gone, follow a purge.
PurgedFirst ==
    \A u \in Members : account[u].deletion = "login" \/ ~account[u].login => account[u].purged

\* Writing the row of r leaves an owner.
LeavesOwner(r) ==
    \/ r.op = "invite"
    \/ Owners \ {r.id} # {}
    \/ r.op = "change" /\ r.row.role = "owner" /\ r.row.status = "active"

(* Without overlaps there is one request at a time, so what it has read      *)
(* still holds when it writes.                                                *)
AloneSafe ==
    ~overlapped =>
      /\ Owners # {}
      /\ \A p, q \in MemberSlots : request[p].pc # "idle" /\ request[q].pc # "idle" => p = q
      /\ \A q \in MemberSlots : request[q].pc = "write" => LeavesOwner(request[q])

MemberInv ==
    /\ MemberSane /\ PurgedFirst /\ AloneSafe /\ RolesGranted
    /\ \A q \in MemberSlots : CallSane(request[q]) /\ Backed(grantsMade, request[q])

LEMMA NoRequestTyped ==
    NoRequest \in MemberRequests /\ NoRequest.pc = "idle" /\ NoRequest.op = None
BY DEF NoRequest, MemberRequests, RequestPcs, RequestOps

LEMMA MemberInitInv == MemberInit => MemberInv
<1> SUFFICES ASSUME MemberInit PROVE MemberInv
  OBVIOUS
<1>1. \A q \in MemberSlots : request[q] = NoRequest
  BY DEF MemberInit
<1>2. [user |-> Creator, role |-> "owner", status |-> "active", email |-> None] \in MemberRow
  BY MemberAssumption DEF MemberRow, Roles
<1>3. MemberSane
  <2>1. rowOf \in [RowIds -> MemberRow \cup {None}] /\ \A i \in RowIds : rowOf[i] # None => i = Creator
    BY <1>2 DEF MemberInit
  <2>2. invites \in 0 .. MaxInvites /\ overlapped \in BOOLEAN /\ account \in [Members -> Accounts]
    <3>1. 0 \in 0 .. MaxInvites
      BY MemberAssumption
    <3>2. account \in [Members -> Accounts]
      BY DEF MemberInit, Accounts
    <3> QED BY <3>1, <3>2 DEF MemberInit
  <2>3. request \in [MemberSlots -> MemberRequests]
    BY NoRequestTyped DEF MemberInit
  <2> QED BY <2>1, <2>2, <2>3 DEF MemberSane, UsedRowIds
<1>4. Creator \in Owners
  BY <1>2, MemberAssumption DEF MemberInit, Owners, RowIds
<1>5. PurgedFirst
  BY DEF MemberInit, PurgedFirst
<1>6. \A q \in MemberSlots : CallSane(request[q]) /\ Backed(grantsMade, request[q])
  BY <1>1, NoRequestTyped DEF CallSane, Backed
<1>7. AloneSafe
  BY <1>1, <1>4, NoRequestTyped DEF AloneSafe
<1>8. RolesGranted
  <2>1. Granted(grantsMade, Creator, "owner")
    BY DEF MemberInit, Granted
  <2>2. \A i \in RowIds : rowOf[i] # None => Holder(rowOf[i]) = Creator /\ rowOf[i].role = "owner"
    BY DEF MemberInit, Holder
  <2> QED BY <2>1, <2>2 DEF RolesGranted
<1> QED BY <1>3, <1>5, <1>6, <1>7, <1>8 DEF MemberInv

(* A step that leaves the rows and the accounts: one request moves on.       *)
LEMMA RequestStep ==
    ASSUME MemberInv, NEW q \in MemberSlots, NEW new \in MemberRequests,
           request' = [request EXCEPT ![q] = new], UNCHANGED <<rowOf, invites, account>>,
           grantsMade \subseteq grantsMade', Backed(grantsMade', new),
           CallSane(new), new.pc = "write" => LeavesOwner(new) \/ overlapped',
           overlapped' \in BOOLEAN, overlapped => overlapped',
           overlapped' \/ new.pc = "idle" \/ \A p \in MemberSlots \ {q} : request[p].pc = "idle"
    PROVE  MemberInv'
<1>1. request'[q] = new /\ \A p \in MemberSlots \ {q} : request'[p] = request[p]
  BY DEF MemberInv, MemberSane
<1>2. UsedRowIds' = UsedRowIds /\ Owners' = Owners
  BY DEF UsedRowIds, Owners
<1>3. MemberSane' /\ PurgedFirst'
  BY DEF MemberInv, MemberSane, PurgedFirst, UsedRowIds
<1>4. \A p \in MemberSlots : CallSane(request'[p])
  BY <1>1 DEF MemberInv
<1>7. RolesGranted'
  <2> SUFFICES ASSUME NEW i \in RowIds, rowOf[i] # None PROVE Granted(grantsMade', Holder(rowOf[i]), rowOf[i].role)
    BY DEF RolesGranted
  <2>1. Granted(grantsMade, Holder(rowOf[i]), rowOf[i].role)
    BY DEF MemberInv, RolesGranted
  <2> QED BY <2>1 DEF Granted, Holder
<1>8. \A p \in MemberSlots : Backed(grantsMade, request[p])'
  <2> SUFFICES ASSUME NEW p \in MemberSlots \ {q} PROVE Backed(grantsMade', request'[p])
    BY <1>1
  <2>1. Backed(grantsMade, request[p]) /\ request'[p] = request[p]
    BY <1>1 DEF MemberInv
  <2> QED BY <2>1 DEF Backed, Granted
<1>5. \A p \in MemberSlots : CallSane(request[p])'
  BY <1>2, <1>4 DEF CallSane
<1>6. AloneSafe'
  <2> SUFFICES ASSUME ~overlapped' PROVE AloneSafe'
    BY DEF AloneSafe
  <2>1. AloneSafe /\ ~overlapped
    BY DEF MemberInv
  <2>2. \A p \in MemberSlots : request'[p].pc = "write" => LeavesOwner(request'[p])
    BY <1>1, <2>1 DEF AloneSafe
  <2>3. \A p \in MemberSlots : (request[p].pc = "write" => LeavesOwner(request[p]))'
    BY <1>2, <2>2 DEF LeavesOwner
  <2>4. \A p, r \in MemberSlots : request'[p].pc # "idle" /\ request'[r].pc # "idle" => p = r
    BY <1>1, <2>1 DEF AloneSafe
  <2> QED BY <1>2, <2>1, <2>3, <2>4 DEF AloneSafe
<1> QED BY <1>3, <1>5, <1>6, <1>7, <1>8 DEF MemberInv

\* A request that is under way alone has no other beside it.
LEMMA OthersIdle ==
    ASSUME MemberInv, NEW q \in MemberSlots, request[q].pc # "idle"
    PROVE  overlapped \/ \A p \in MemberSlots \ {q} : request[p].pc = "idle"
BY DEF MemberInv, AloneSafe

\* A request ends without a write.
LEMMA EndRequestStep ==
    ASSUME MemberInv, NEW q \in MemberSlots, FinishRequest(q),
           UNCHANGED <<rowOf, invites, account, grantsMade, overlapped>>
    PROVE  MemberInv'
<1>1. CallSane(NoRequest) /\ Backed(grantsMade', NoRequest)
  BY NoRequestTyped DEF CallSane, Backed
<1>2. overlapped' \in BOOLEAN
  BY DEF MemberInv, MemberSane
<1> QED BY <1>1, <1>2, NoRequestTyped, RequestStep DEF FinishRequest

LEMMA BeginSteps ==
    ASSUME MemberInv, NEW q \in MemberSlots, BeginRequest(q) \/ BeginAccept(q)
    PROVE  MemberInv'
<1> DEFINE over == overlapped \/ \E other \in MemberSlots : request[other].pc # "idle"
<1>1. /\ overlapped' = over /\ UNCHANGED <<rowOf, invites, account>> /\ grantsMade \subseteq grantsMade'
      /\ over \in BOOLEAN /\ (overlapped => over)
      /\ over \/ \A p \in MemberSlots \ {q} : request[p].pc = "idle"
  BY DEF BeginRequest, BeginAccept, MemberInv, MemberSane
<1> HIDE DEF over
<1>2. CASE BeginRequest(q)
  <2> DEFINE Asked(actor, op, target, newRole, id) ==
        /\ request[q].pc = "idle" /\ calls < MaxCalls
        /\ IF op = "remove" THEN tenantRoleAtLeast(rowOf[id].role, "admin") /\ newRole = "viewer"
           ELSE MayGrant(rowOf[id].role, newRole)
        /\ op = "invite" => invites < MaxInvites
        /\ calls' = calls + 1
        /\ SetRequest(q, [NoRequest EXCEPT !.pc = "read", !.op = op, !.actor = actor,
                   !.role = rowOf[id].role, !.target = target, !.newRole = newRole])
        /\ overlapped' = (overlapped \/ \E other \in MemberSlots : request[other].pc # "idle")
        /\ grantsMade' = IF op = "remove" THEN grantsMade
                         ELSE grantsMade \cup {[to |-> target, role |-> newRole, by |-> rowOf[id].role]}
        /\ UNCHANGED <<rowOf, invites, account, finals, faults>>
  <2>1. PICK actor \in Members, op \in {"invite", "change", "remove"}, target \in Members, newRole \in Roles :
          \E id \in ActiveIds(actor) : Asked(actor, op, target, newRole, id)
    BY <1>2 DEF BeginRequest
  <2>12. PICK id \in ActiveIds(actor) : Asked(actor, op, target, newRole, id)
    BY <2>1
  <2>2. /\ op # "remove" => /\ MayGrant(rowOf[id].role, newRole)
                            /\ [to |-> target, role |-> newRole, by |-> rowOf[id].role] \in grantsMade'
        /\ SetRequest(q, [NoRequest EXCEPT !.pc = "read", !.op = op, !.actor = actor,
                 !.role = rowOf[id].role, !.target = target, !.newRole = newRole])
    BY <2>12
  <2> HIDE DEF Asked
  <2>3. rowOf[id].role \in Roles
    BY DEF ActiveIds, MemberInv, MemberSane, MemberRow
  <2> DEFINE role == rowOf[id].role
             new == [NoRequest EXCEPT !.pc = "read", !.op = op, !.actor = actor,
                 !.role = role, !.target = target, !.newRole = newRole]
  <2>4. request' = [request EXCEPT ![q] = new]
    BY <2>2 DEF SetRequest
  <2> HIDE DEF role
  <2>5. /\ new \in MemberRequests /\ new.pc = "read" /\ new.op = op
        /\ new.actor = actor /\ new.target = target /\ new.newRole = newRole
    BY <2>3 DEF NoRequest, MemberRequests, RequestPcs, RequestOps, role
  <2> HIDE DEF new
  <2>6. CallSane(new)
    BY <2>5, MemberAssumption DEF CallSane, Roles
  <2>7. Backed(grantsMade', new)
    <3>1. ASSUME op # "remove" PROVE Granted(grantsMade', target, newRole)
      <4> DEFINE g == [to |-> target, role |-> newRole, by |-> role]
      <4>1. g \in grantsMade' /\ MayGrant(role, newRole) /\ role \in Roles
        BY <2>2, <2>3, <3>1 DEF role
      <4>2. role \in (IF newRole = "owner" THEN {"owner"} ELSE {"admin", "owner"})
        BY <4>1 DEF MayGrant, tenantRoleAtLeast, Rank, Roles
      <4>3. g.to = target /\ g.role = newRole /\ g.by = role
        OBVIOUS
      <4> HIDE DEF g
      <4> QED BY <4>1, <4>2, <4>3 DEF Granted
    <3> QED BY <2>5, <3>1 DEF Backed
  <2> QED BY <1>1, <2>4, <2>5, <2>6, <2>7, RequestStep
<1>3. CASE BeginAccept(q)
  <2>1. PICK actor \in Members :
            SetRequest(q, [NoRequest EXCEPT !.pc = "read", !.op = "accept", !.actor = actor, !.target = actor])
    BY <1>3 DEF BeginAccept
  <2> DEFINE new == [NoRequest EXCEPT !.pc = "read", !.op = "accept", !.actor = actor, !.target = actor]
  <2>2. request' = [request EXCEPT ![q] = new]
    BY <2>1 DEF SetRequest
  <2>3. new \in MemberRequests /\ new.pc = "read" /\ new.op = "accept" /\ new.actor = actor /\ new.target = actor
    BY DEF NoRequest, MemberRequests, RequestPcs, RequestOps
  <2> HIDE DEF new
  <2>4. CallSane(new) /\ Backed(grantsMade', new)
    BY <2>3, MemberAssumption DEF CallSane, Backed
  <2> QED BY <1>1, <2>2, <2>3, <2>4, RequestStep
<1> QED BY <1>2, <1>3

LEMMA ReadStatementSteps ==
    ASSUME MemberInv, NEW q \in MemberSlots, ReadInvite(q) \/ ReadPending(q) \/ ReadTarget(q)
    PROVE  MemberInv'
<1> DEFINE r == request[q]
<1>1. /\ r \in MemberRequests /\ CallSane(r) /\ Backed(grantsMade, r) /\ r.pc = "read"
      /\ UNCHANGED <<rowOf, invites, overlapped, grantsMade, account>>
      /\ overlapped' \in BOOLEAN
  BY DEF MemberInv, MemberSane, ReadInvite, ReadPending, ReadTarget
<1>2. overlapped' \/ \A p \in MemberSlots \ {q} : request[p].pc = "idle"
  BY <1>1, OthersIdle
<1>3. ASSUME FinishRequest(q) PROVE MemberInv'
  BY <1>1, <1>3, EndRequestStep
<1>4. CASE ReadInvite(q) /\ ~FinishRequest(q)
  <2> DEFINE new == [r EXCEPT !.pc = "write"]
  <2>1. request' = [request EXCEPT ![q] = new] /\ r.op = "invite"
    BY <1>4 DEF ReadInvite, SetRequest
  <2>2. /\ new \in MemberRequests /\ new.pc = "write" /\ new.op = "invite"
        /\ new.target = r.target /\ new.newRole = r.newRole
    BY <1>1, <2>1 DEF MemberRequests, RequestPcs
  <2> HIDE DEF new
  <2>3. CallSane(new) /\ LeavesOwner(new)
    BY <1>1, <2>1, <2>2 DEF CallSane, LeavesOwner
  <2>4. Backed(grantsMade', new)
    BY <1>1, <2>1, <2>2 DEF Backed, Granted
  <2> QED BY <1>1, <1>2, <2>1, <2>2, <2>3, <2>4, RequestStep
<1>5. CASE ReadPending(q) /\ ~FinishRequest(q)
  <2>1. PICK id \in PendingIds(r.actor) :
            SetRequest(q, [r EXCEPT !.pc = "write", !.id = id,
                    !.row = [rowOf[id] EXCEPT !.user = r.actor, !.status = "active", !.email = None]])
    BY <1>5 DEF ReadPending
  <2> DEFINE row == [rowOf[id] EXCEPT !.user = r.actor, !.status = "active", !.email = None]
             new == [r EXCEPT !.pc = "write", !.id = id, !.row = row]
  <2>2. request' = [request EXCEPT ![q] = new] /\ r.op = "accept" /\ r.actor \in Members
    BY <1>1, <1>5, <2>1 DEF ReadPending, SetRequest, CallSane
  <2>3. id \in RowIds /\ rowOf[id] \in MemberRow /\ rowOf[id].status = "invited" /\ id \in UsedRowIds
    BY DEF PendingIds, MemberInv, MemberSane
  <2>4. row \in MemberRow
    BY <2>2, <2>3 DEF MemberRow
  <2>9. Granted(grantsMade', Holder(row), row.role)
    <3>1. rowOf[id] # None /\ rowOf[id].email = r.actor
      BY DEF PendingIds
    <3>2. Granted(grantsMade, r.actor, rowOf[id].role)
      BY <2>3, <3>1 DEF MemberInv, RolesGranted, Holder
    <3>3. Holder(row) = r.actor /\ row.role = rowOf[id].role
      BY <2>3 DEF Holder, MemberRow
    <3> QED BY <1>1, <3>2, <3>3 DEF Granted
  <2> HIDE DEF row
  <2>5. /\ new \in MemberRequests /\ new.pc = "write" /\ new.op = "accept" /\ new.id = id
        /\ new.target = r.target /\ new.actor = r.actor /\ new.row = row
    BY <1>1, <2>2, <2>3, <2>4 DEF MemberRequests, RequestPcs
  <2> HIDE DEF new
  <2>6. CallSane(new)
    BY <1>1, <2>2, <2>3, <2>4, <2>5 DEF CallSane
  <2>7. id \notin Owners
    BY <2>3 DEF Owners
  <2>8. LeavesOwner(new) \/ overlapped'
    BY <1>1, <2>5, <2>7 DEF LeavesOwner, MemberInv, AloneSafe
  <2>10. Backed(grantsMade', new)
    BY <2>5, <2>9 DEF Backed
  <2> QED BY <1>1, <1>2, <2>2, <2>5, <2>6, <2>8, <2>10, RequestStep
<1>6. CASE ReadTarget(q) /\ ~FinishRequest(q)
  <2>1. PICK id \in ActiveIds(r.target) :
            SetRequest(q, [r EXCEPT !.pc = IF Demotes(q, rowOf[id]) THEN "count" ELSE "write",
                    !.id = id, !.row = [rowOf[id] EXCEPT !.role = r.newRole]])
    BY <1>6 DEF ReadTarget
  <2> DEFINE row == [rowOf[id] EXCEPT !.role = r.newRole]
             pc == IF Demotes(q, rowOf[id]) THEN "count" ELSE "write"
             new == [r EXCEPT !.pc = pc, !.id = id, !.row = row]
  <2>2. request' = [request EXCEPT ![q] = new] /\ r.op \in {"change", "remove"} /\ r.newRole \in Roles
    BY <1>1, <1>6, <2>1 DEF ReadTarget, SetRequest, CallSane
  <2>3. id \in RowIds /\ rowOf[id] \in MemberRow /\ rowOf[id].status = "active" /\ id \in UsedRowIds
    BY DEF ActiveIds, MemberInv, MemberSane
  <2>4. row \in MemberRow /\ row.status = "active" /\ row.role = r.newRole
    BY <2>2, <2>3 DEF MemberRow
  <2>5. pc \in {"count", "write"}
    OBVIOUS
  <2>11. r.op = "change" => Granted(grantsMade', r.target, r.newRole) /\ Granted(grantsMade', Holder(row), row.role)
    <3>1. r.op = "change" => Granted(grantsMade, r.target, r.newRole)
      BY <1>1 DEF Backed
    <3>2. Holder(row) = r.target /\ row.role = r.newRole
      BY <2>3 DEF Holder, MemberRow, ActiveIds
    <3> QED BY <1>1, <3>1, <3>2 DEF Granted
  <2>6. pc = "write" => rowOf[id].role # "owner" \/ (r.op = "change" /\ r.newRole = "owner")
    BY <2>2 DEF Demotes
  <2> HIDE DEF row, pc
  <2>7. /\ new \in MemberRequests /\ new.pc = pc /\ new.op = r.op /\ new.id = id
        /\ new.target = r.target /\ new.newRole = r.newRole /\ new.row = row
    BY <1>1, <2>2, <2>3, <2>4, <2>5 DEF MemberRequests, RequestPcs
  <2> HIDE DEF new
  <2>8. CallSane(new)
    BY <1>1, <2>2, <2>3, <2>4, <2>5, <2>7 DEF CallSane
  <2>9. rowOf[id].role # "owner" => id \notin Owners
    BY DEF Owners
  <2>10. new.pc = "write" => LeavesOwner(new) \/ overlapped'
    BY <1>1, <2>4, <2>6, <2>7, <2>9 DEF LeavesOwner, MemberInv, AloneSafe
  <2>12. Backed(grantsMade', new)
    BY <2>2, <2>7, <2>11 DEF Backed
  <2> QED BY <1>1, <1>2, <2>2, <2>7, <2>8, <2>10, <2>12, RequestStep
<1> QED BY <1>1, <1>3, <1>4, <1>5, <1>6

\* One owner cannot be two.
LEMMA AnotherOwner ==
    ASSUME ~LastOwner, NEW i
    PROVE  Owners \ {i} # {}
<1> SUFFICES ASSUME Owners \subseteq {i} PROVE FALSE
  OBVIOUS
<1>1. IsFiniteSet({i}) /\ Cardinality({i}) = 1
  BY FS_Singleton
<1>2. IsFiniteSet(Owners) /\ Cardinality(Owners) <= 1
  BY <1>1, FS_Subset
<1> QED BY <1>2 DEF LastOwner

LEMMA CountStep ==
    ASSUME MemberInv, NEW q \in MemberSlots, CountActiveOwners(q)
    PROVE  MemberInv'
<1> DEFINE r == request[q]
           new == [r EXCEPT !.pc = "write"]
<1>1. /\ r \in MemberRequests /\ CallSane(r) /\ Backed(grantsMade, r) /\ r.pc = "count"
      /\ UNCHANGED <<rowOf, invites, overlapped, grantsMade, account>>
      /\ overlapped' \in BOOLEAN
  BY DEF MemberInv, MemberSane, CountActiveOwners
<1>2. overlapped' \/ \A p \in MemberSlots \ {q} : request[p].pc = "idle"
  BY <1>1, OthersIdle
<1>3. CASE FinishRequest(q)
  BY <1>1, <1>3, EndRequestStep
<1>4. CASE ~FinishRequest(q)
  <2>1. request' = [request EXCEPT ![q] = new] /\ ~LastOwner
    BY <1>4 DEF CountActiveOwners, SetRequest
  <2>2. /\ new \in MemberRequests /\ new.pc = "write" /\ new.op = r.op /\ new.id = r.id
        /\ new.target = r.target /\ new.newRole = r.newRole /\ new.row = r.row /\ new.actor = r.actor
    BY <1>1 DEF MemberRequests, RequestPcs
  <2> HIDE DEF new
  <2>3. CallSane(new) /\ LeavesOwner(new)
    BY <1>1, <2>1, <2>2, AnotherOwner DEF CallSane, LeavesOwner
  <2>4. Backed(grantsMade', new)
    BY <1>1, <2>2 DEF Backed, Granted, Holder
  <2> QED BY <1>1, <1>2, <2>1, <2>2, <2>3, <2>4, RequestStep
<1> QED BY <1>3, <1>4

(* The write: an invitation takes a fresh id, every other one a row it read. *)
LEMMA WriteRowStep ==
    ASSUME MemberInv, NEW q \in MemberSlots, WriteRow(q)
    PROVE  MemberInv'
<1> DEFINE r == request[q]
           invited == [user |-> None, role |-> r.newRole, status |-> "invited", email |-> r.target]
<1>1. /\ r \in MemberRequests /\ CallSane(r) /\ Backed(grantsMade, r) /\ r.pc = "write" /\ FinishRequest(q)
      /\ UNCHANGED <<overlapped, grantsMade, account>>
      /\ r.op \in {"invite", "accept", "change", "remove"}
  BY DEF MemberInv, MemberSane, WriteRow, CallSane
<1>2. /\ request' \in [MemberSlots -> MemberRequests] /\ request'[q] = NoRequest
      /\ \A p \in MemberSlots \ {q} : request'[p] = request[p]
  BY NoRequestTyped DEF FinishRequest, MemberInv, MemberSane, WriteRow
<1>3. invites \in Nat /\ invites + 1 \notin UsedRowIds
  BY MemberAssumption DEF MemberInv, MemberSane, UsedRowIds
<1>4. ASSUME r.op = "invite"
      PROVE  /\ invites' = invites + 1 /\ rowOf' = [rowOf EXCEPT ![invites + 1] = invited]
             /\ invites + 1 \in RowIds /\ invites' \in 0 .. MaxInvites
             /\ invited \in MemberRow /\ invited.status = "invited"
  <2>1. invites < MaxInvites /\ invites' = invites + 1 /\ rowOf' = [rowOf EXCEPT ![invites + 1] = invited]
    BY <1>4 DEF WriteRow
  <2>2. invites + 1 \in RowIds /\ invites' \in 0 .. MaxInvites
    BY <1>3, <2>1, MemberAssumption DEF RowIds, InviteIds
  <2>3. invited \in MemberRow
    BY <1>1, <1>4 DEF MemberRow, CallSane
  <2> QED BY <2>1, <2>2, <2>3
<1>5. ASSUME r.op = "remove"
      PROVE  rowOf' = [rowOf EXCEPT ![r.id] = None] /\ UNCHANGED invites
  BY <1>5 DEF WriteRow
<1>6. ASSUME r.op \in {"accept", "change"}
      PROVE  rowOf' = [rowOf EXCEPT ![r.id] = r.row] /\ UNCHANGED invites /\ r.row \in MemberRow
  BY <1>1, <1>6 DEF WriteRow, CallSane
<1>7. r.op # "invite" => r.id \in UsedRowIds /\ r.id \in RowIds
  <2>1. r.op # "invite" => r.id \in UsedRowIds
    BY <1>1 DEF CallSane
  <2>2. invites \in 0 .. MaxInvites /\ MaxInvites \in Nat
    BY MemberAssumption DEF MemberInv, MemberSane
  <2>3. 1 .. invites \subseteq 1 .. MaxInvites
    BY <2>2
  <2>4. UsedRowIds \subseteq RowIds
    BY <2>3 DEF UsedRowIds, RowIds, InviteIds
  <2> QED BY <2>1, <2>4
<1>8. \A i \in RowIds : rowOf[i] # None => i \in UsedRowIds
  BY DEF MemberInv, MemberSane
<1>9. rowOf \in [RowIds -> MemberRow \cup {None}]
  BY DEF MemberInv, MemberSane
<1> HIDE DEF invited
<1>10. UsedRowIds \subseteq UsedRowIds' /\ (r.op = "invite" => invites + 1 \in UsedRowIds')
  BY <1>1, <1>3, <1>4, <1>5, <1>6 DEF UsedRowIds
<1>11. MemberSane'
  <2>1. rowOf' \in [RowIds -> MemberRow \cup {None}]
    BY <1>1, <1>4, <1>5, <1>6, <1>7, <1>9
  <2>2. \A i \in RowIds : rowOf'[i] # None => i \in UsedRowIds'
    BY <1>1, <1>4, <1>5, <1>6, <1>7, <1>8, <1>9, <1>10
  <2>3. invites' \in 0 .. MaxInvites
    BY <1>1, <1>4, <1>5, <1>6 DEF MemberInv, MemberSane
  <2> QED BY <1>1, <1>2, <2>1, <2>2, <2>3 DEF MemberInv, MemberSane
<1>12. PurgedFirst'
  BY <1>1 DEF MemberInv, PurgedFirst
<1>15. RolesGranted'
  <2>1. \A u, role : Granted(grantsMade, u, role) => Granted(grantsMade', u, role)
    BY <1>1 DEF Granted
  <2>2. r.op = "invite" => Granted(grantsMade, Holder(invited), invited.role) /\ invited # None
    <3>1. r.op = "invite" => Granted(grantsMade, r.target, r.newRole)
      BY <1>1 DEF Backed
    <3> QED BY <3>1, <1>4, MemberAssumption DEF Holder, invited
  <2>3. r.op \in {"accept", "change"} => Granted(grantsMade, Holder(r.row), r.row.role)
    BY <1>1 DEF Backed
  <2>4. ASSUME NEW i \in RowIds, rowOf'[i] # None
        PROVE  \/ rowOf'[i] = rowOf[i]
               \/ rowOf'[i] = invited /\ r.op = "invite"
               \/ rowOf'[i] = r.row /\ r.op \in {"accept", "change"}
    BY <1>1, <1>4, <1>5, <1>6, <1>7, <1>9, <2>4
  <2>5. \A i \in RowIds : rowOf[i] # None => Granted(grantsMade, Holder(rowOf[i]), rowOf[i].role)
    BY DEF MemberInv, RolesGranted
  <2>6. ASSUME NEW i \in RowIds, rowOf'[i] # None
        PROVE  \E g \in grantsMade : /\ g.to = Holder(rowOf'[i]) /\ g.role = rowOf'[i].role
                 /\ g.by \in (IF rowOf'[i].role = "owner" THEN {"owner"} ELSE {"admin", "owner"})
    BY <2>2, <2>3, <2>4, <2>5, <2>6 DEF Granted
  <2> QED BY <1>1, <2>6 DEF RolesGranted, Granted, Holder
<1>16. \A p \in MemberSlots : Backed(grantsMade, request[p])'
  <2> SUFFICES ASSUME NEW p \in MemberSlots PROVE Backed(grantsMade', request'[p])
    OBVIOUS
  <2>1. CASE p = q
    BY <1>2, <2>1, NoRequestTyped DEF Backed
  <2>2. CASE p # q
    <3>1. Backed(grantsMade, request[p]) /\ request'[p] = request[p]
      BY <1>2, <2>2 DEF MemberInv
    <3> QED BY <1>1, <3>1 DEF Backed, Granted
  <2> QED BY <2>1, <2>2
<1>13. \A p \in MemberSlots : CallSane(request[p])'
  <2>1. CallSane(NoRequest)'
    BY NoRequestTyped DEF CallSane
  <2>2. ASSUME NEW p \in MemberSlots \ {q} PROVE CallSane(request[p])'
    <3>1. CallSane(request[p]) /\ request'[p] = request[p]
      BY <1>2 DEF MemberInv
    <3> QED BY <1>10, <3>1 DEF CallSane
  <2>3. CallSane(request[q])'
    BY <1>2, NoRequestTyped DEF CallSane
  <2> QED BY <2>2, <2>3
<1>14. AloneSafe'
  <2> SUFFICES ASSUME ~overlapped' PROVE AloneSafe'
    BY DEF AloneSafe
  <2>1. AloneSafe /\ ~overlapped /\ LeavesOwner(r) /\ Owners # {}
    BY <1>1 DEF MemberInv, AloneSafe
  <2>2. \A p \in MemberSlots : request'[p].pc = "idle"
    BY <1>1, <1>2, <2>1, NoRequestTyped DEF AloneSafe
  <2>3. Owners' # {}
    <3>1. CASE r.op = "invite"
      <4>1. PICK i \in Owners : TRUE
        BY <2>1
      <4>2. rowOf'[i] = rowOf[i] /\ i \in RowIds /\ rowOf[i] # None
        BY <1>3, <1>4, <1>8, <1>9, <3>1 DEF Owners
      <4>3. i \in Owners'
        BY <4>2 DEF Owners
      <4> QED BY <4>3
    <3>2. CASE Owners \ {r.id} # {} /\ r.op # "invite"
      <4>1. PICK i \in Owners : i # r.id
        BY <3>2
      <4>2. rowOf'[i] = rowOf[i] /\ i \in RowIds
        BY <1>1, <1>5, <1>6, <1>9, <3>2, <4>1 DEF Owners
      <4>3. i \in Owners'
        BY <4>2 DEF Owners
      <4> QED BY <4>3
    <3>3. CASE r.op = "change" /\ r.row.role = "owner" /\ r.row.status = "active"
      <4>1. rowOf'[r.id] = r.row /\ r.id \in RowIds /\ r.row # None
        BY <1>6, <1>7, <1>9, <3>3, MemberAssumption
      <4>2. r.id \in Owners'
        BY <3>3, <4>1 DEF Owners
      <4> QED BY <4>2
    <3> QED BY <2>1, <3>1, <3>2, <3>3 DEF LeavesOwner
  <2> QED BY <2>2, <2>3 DEF AloneSafe
<1> QED BY <1>11, <1>12, <1>13, <1>14, <1>15, <1>16 DEF MemberInv

(* Deleting an account does not touch the rows or the requests. *)
LEMMA DeletionSteps ==
    ASSUME MemberInv, NEW u \in Members, DeleteAccount(u) \/ DeletionStep(u) \/ WriteUserData(u)
    PROVE  MemberInv'
<1>1. UNCHANGED <<rowOf, invites, request, overlapped, grantsMade>>
  BY DEF DeleteAccount, DeletionStep, WriteUserData
<1>2. account \in [Members -> Accounts] /\ account[u] \in Accounts
  BY DEF MemberInv, MemberSane
<1>3. PICK new : /\ account' = [account EXCEPT ![u] = new] /\ new \in Accounts
                 /\ new.deletion = "login" \/ ~new.login => new.purged
  <2> DEFINE Fits(new) == /\ account' = [account EXCEPT ![u] = new] /\ new \in Accounts
                          /\ new.deletion = "login" \/ ~new.login => new.purged
  <2>1. account[u].deletion = "login" \/ ~account[u].login => account[u].purged
    BY DEF MemberInv, PurgedFirst
  <2>2. CASE DeleteAccount(u)
    <3>1. Fits([account[u] EXCEPT !.deletion = "purge"])
      BY <1>2, <2>1, <2>2 DEF DeleteAccount, Accounts
    <3> QED BY <3>1
  <2>3. CASE DeletionStep(u) /\ account' = [account EXCEPT ![u] = DeletionOrder(@)]
    <3>1. CASE account[u].deletion = "purge"
      <4>1. Fits([account[u] EXCEPT !.data = FALSE, !.purged = TRUE, !.deletion = "login"])
        BY <1>2, <2>3, <3>1 DEF DeletionOrder, Accounts
      <4> QED BY <4>1
    <3>2. CASE account[u].deletion # "purge"
      <4>1. account[u].deletion = "login"
        BY <1>2, <2>3, <3>2 DEF DeletionStep, Accounts
      <4>2. Fits([account[u] EXCEPT !.login = FALSE, !.deletion = "idle"])
        BY <1>2, <2>1, <2>3, <4>1 DEF DeletionOrder, Accounts
      <4> QED BY <4>2
    <3> QED BY <3>1, <3>2
  <2>4. CASE DeletionStep(u) /\ account' = [account EXCEPT ![u].deletion = "idle"]
    <3>1. Fits([account[u] EXCEPT !.deletion = "idle"])
      BY <1>2, <2>1, <2>4 DEF Accounts
    <3> QED BY <3>1
  <2>5. CASE WriteUserData(u)
    <3>1. Fits([account[u] EXCEPT !.data = TRUE])
      BY <1>2, <2>1, <2>5 DEF WriteUserData, Accounts
    <3> QED BY <3>1
  <2> QED BY <2>2, <2>3, <2>4, <2>5 DEF DeletionStep
<1>4. account' \in [Members -> Accounts] /\ PurgedFirst'
  BY <1>2, <1>3 DEF MemberInv, PurgedFirst
<1>5. UsedRowIds' = UsedRowIds /\ Owners' = Owners
  BY <1>1 DEF UsedRowIds, Owners
<1>6. RolesGranted' /\ \A q \in MemberSlots : Backed(grantsMade, request[q])'
  BY <1>1 DEF MemberInv, RolesGranted, Backed, Granted, Holder
<1> QED BY <1>1, <1>4, <1>5, <1>6 DEF MemberInv, MemberSane, CallSane, AloneSafe, LeavesOwner

LEMMA MemberNextInv == ASSUME MemberInv, [MemberNext]_memberVars PROVE MemberInv'
<1>1. CASE UNCHANGED memberVars
  <2>1. UNCHANGED <<rowOf, invites, request, overlapped, grantsMade, account>>
    BY <1>1 DEF memberVars, memberState
  <2>2. UsedRowIds' = UsedRowIds /\ Owners' = Owners
    BY <2>1 DEF UsedRowIds, Owners
  <2>3. RolesGranted' /\ \A q \in MemberSlots : Backed(grantsMade, request[q])'
    BY <2>1 DEF MemberInv, RolesGranted, Backed, Granted, Holder
  <2> QED BY <2>1, <2>2, <2>3
      DEF MemberInv, MemberSane, CallSane, AloneSafe, LeavesOwner, PurgedFirst
<1>2. ASSUME NEW q \in MemberSlots, RequestFails(q) PROVE MemberInv'
  BY <1>2, EndRequestStep DEF RequestFails
<1> QED BY <1>1, <1>2, BeginSteps, ReadStatementSteps, CountStep, WriteRowStep, DeletionSteps DEF MemberNext

LEMMA MemberInvSound == ASSUME MemberInv PROVE MemberTypeOK /\ AccountsSound
BY DEF MemberInv, MemberSane, AloneSafe, PurgedFirst, MemberTypeOK, AccountsSound, OwnerKept, DeletionRepeatable,
       MemberRequests, RequestPcs

(* For any users, requests in flight, invitations and failures: while        *)
(* requests do not overlap the tenant keeps an active owner; whatever         *)
(* overlaps, every role was asked for by a caller who may grant it; and a     *)
(* login goes only after a purge.                                             *)
THEOREM AccountsKept == MemberSpec => [](MemberTypeOK /\ AccountsSound)
<1>1. MemberInit => MemberInv
  BY MemberInitInv
<1>2. MemberInv /\ [MemberNext]_memberVars => MemberInv'
  BY MemberNextInv
<1>3. MemberInv => MemberTypeOK /\ AccountsSound
  BY MemberInvSound
<1> QED BY <1>1, <1>2, <1>3, PTL DEF MemberSpec

-----------------------------------------------------------------------------
(* The web gateway's session. *)

JarTokens == (1 .. MaxLogins) \cup {None}
Jars == [access : JarTokens, isFresh : BOOLEAN, refresh : JarTokens, state : JarTokens]
BffPcs == {"idle", "refresh", "again", "validate", "call", "answer", "denied"}
BffRequests == [pc : BffPcs, kind : {None, "bff", "session"}, access : JarTokens, isFresh : BOOLEAN,
                refresh : JarTokens, refreshed : BOOLEAN, status : {None, "ok", "401", "lost"},
                applied : {0, 1}]

SessionSane ==
  /\ jar \in Jars /\ alive \subseteq 1 .. MaxLogins /\ logins \in Nat
  /\ bff \in [BffSlots -> BffRequests] /\ cause \in BOOLEAN
  /\ signingKey \in Nat /\ faults \in Nat

\* The access and the refresh token come and go together.
JarWhole == jar.access = None <=> jar.refresh = None

(* The API has acted on a request only when its answer is known, a refresh   *)
(* needs a token to refresh with, and without a reason to lose the session    *)
(* no request in flight will clear the cookies or set those of a sign-in that *)
(* is over.                                                                   *)
BffSane(b, reason, living) ==
  /\ b.pc \notin {"answer", "denied"} => b.applied = 0
  /\ b.refreshed => b.refresh # None
  /\ b.pc # "idle" /\ ~reason =>
       b.refresh \in living /\ b.pc # "denied" /\ ~(b.pc = "answer" /\ b.status = "401")

SessionInv ==
  /\ SessionSane /\ JarWhole /\ SessionKept
  /\ \A r \in BffSlots : BffSane(bff[r], cause, alive)

LEMMA NoBffTyped == NoBff \in BffRequests /\ NoBff.applied = 0 /\ ~NoBff.refreshed /\ NoBff.pc = "idle"
  BY DEF NoBff, BffRequests, BffPcs, JarTokens

LEMMA SetJarFields ==
  ASSUME NEW cookies, NEW s
  PROVE  /\ SetJar(cookies, s).access = s.access /\ SetJar(cookies, s).refresh = s.refresh
         /\ SetJar(cookies, s).isFresh = s.isFresh /\ SetJar(cookies, s).state = cookies.state
         /\ s.access \in JarTokens /\ s.refresh \in JarTokens /\ s.isFresh \in BOOLEAN /\ cookies.state \in JarTokens
              => SetJar(cookies, s) \in Jars
  BY DEF SetJar, Jars

LEMMA JarsSet ==
  /\ \A c \in Jars \cup {[state |-> None]} :
       /\ SetJar(c, NoJar) \in Jars /\ SetJar(c, NoJar).refresh = None /\ SetJar(c, NoJar).access = None
  /\ \A c \in Jars \cup {[state |-> None]}, t \in 1 .. MaxLogins :
       /\ SetJar(c, TokensOf(t)) \in Jars
       /\ SetJar(c, TokensOf(t)).refresh = t /\ SetJar(c, TokensOf(t)).access = t
<1>1. \A c \in Jars \cup {[state |-> None]} : c.state \in JarTokens
  BY DEF Jars, JarTokens
<1>2. NoJar.access = None /\ NoJar.refresh = None /\ NoJar.isFresh = FALSE /\ None \in JarTokens
  BY DEF NoJar, JarTokens
<1>3. \A t \in 1 .. MaxLogins : /\ TokensOf(t).access = t /\ TokensOf(t).refresh = t
                                /\ TokensOf(t).isFresh = TRUE /\ t \in JarTokens
  BY DEF TokensOf, JarTokens
<1>4. ASSUME NEW c \in Jars \cup {[state |-> None]}
      PROVE  SetJar(c, NoJar) \in Jars /\ SetJar(c, NoJar).refresh = None /\ SetJar(c, NoJar).access = None
  BY <1>1, <1>2, SetJarFields
<1>5. ASSUME NEW c \in Jars \cup {[state |-> None]}, NEW t \in 1 .. MaxLogins
      PROVE  /\ SetJar(c, TokensOf(t)) \in Jars
             /\ SetJar(c, TokensOf(t)).refresh = t /\ SetJar(c, TokensOf(t)).access = t
  <2>1. c.state \in JarTokens /\ TokensOf(t).access = t /\ TokensOf(t).refresh = t
        /\ TokensOf(t).isFresh \in BOOLEAN /\ t \in JarTokens
    BY <1>1, <1>3
  <2> HIDE DEF TokensOf
  <2> QED BY <2>1, SetJarFields
<1> QED BY <1>4, <1>5

LEMMA TokenIsNamed == \A t \in 1 .. MaxLogins : t # None
<1>1. 1 .. MaxLogins \subseteq Nat
  BY SessionAssumption
<1> QED BY <1>1, SessionAssumption

LEMMA SessionInitInv == ASSUME SessionInit PROVE SessionInv
<1>1. jar \in Jars /\ jar.access = None /\ jar.refresh = None
  BY JarsSet DEF SessionInit
<1>2. \A r \in BffSlots : bff[r] = NoBff
  BY DEF SessionInit
<1>3. \A r \in BffSlots : BffSane(bff[r], cause, alive)
  BY <1>2, NoBffTyped DEF BffSane
<1>4. SessionSane
  BY <1>1, NoBffTyped DEF SessionInit, SessionSane, BoundsInit
<1> QED BY <1>1, <1>3, <1>4 DEF SessionInv, JarWhole, SessionKept, SessionInit

(* A step of one request that leaves the jar alone. *)
LEMMA BffStep ==
  ASSUME SessionInv, NEW r \in BffSlots, NEW new \in BffRequests, SetBff(r, new),
         UNCHANGED <<jar, alive, logins, signingKey>>, cause' \in BOOLEAN, cause => cause',
         faults' \in Nat, BffSane(new, cause', alive)
  PROVE  SessionInv'
<1>1. bff' \in [BffSlots -> BffRequests] /\ bff'[r] = new /\ \A s \in BffSlots \ {r} : bff'[s] = bff[s]
  BY DEF SetBff, SessionInv, SessionSane
<1>2. \A s \in BffSlots : BffSane(bff'[s], cause', alive')
  BY <1>1 DEF BffSane, SessionInv
<1> QED BY <1>1, <1>2 DEF SessionInv, SessionSane, JarWhole, SessionKept

(* A step that changes the jar, and no request in flight. *)
LEMMA JarStep ==
  ASSUME SessionInv, UNCHANGED bff, jar' \in Jars, alive' \subseteq 1 .. MaxLogins, logins' \in Nat,
         cause' \in BOOLEAN, signingKey' \in Nat, faults' \in Nat, JarWhole', SessionKept',
         cause' \/ \A r \in BffSlots : BffSane(bff[r], cause', alive')
  PROVE  SessionInv'
<1>1. \A r \in BffSlots : BffSane(bff[r], cause', alive')
  BY DEF SessionInv, BffSane
<1> QED BY <1>1 DEF SessionInv, SessionSane

LEMMA SignInSteps ==
  /\ SessionInv /\ (BeginAuthorization \/ RotateKey \/ Logout) => SessionInv'
  /\ \A t \in 1 .. MaxLogins : SessionInv /\ Callback(t) => SessionInv'
<1>1. ASSUME SessionInv, BeginAuthorization PROVE SessionInv'
  <2>1. logins < MaxLogins /\ logins' = logins + 1 /\ jar' = [jar EXCEPT !.state = logins + 1]
    BY <1>1 DEF BeginAuthorization
  <2>2. logins + 1 \in JarTokens
    BY <1>1, <2>1, SessionAssumption DEF SessionInv, SessionSane, JarTokens
  <2>3. jar' \in Jars /\ jar'.access = jar.access /\ jar'.refresh = jar.refresh
    BY <1>1, <2>1, <2>2 DEF SessionInv, SessionSane, Jars
  <2> QED
    BY <1>1, <2>1, <2>3, JarStep
    DEF BeginAuthorization, SessionInv, SessionSane, JarWhole, SessionKept, boundVars
<1>2. ASSUME SessionInv, RotateKey PROVE SessionInv'
  BY <1>2, JarStep, SessionAssumption
  DEF RotateKey, SessionInv, SessionSane, JarWhole, SessionKept, boundVars
<1>3. ASSUME SessionInv, Logout PROVE SessionInv'
  <2>0. alive \subseteq 1 .. MaxLogins /\ faults \in Nat
    BY <1>3 DEF SessionInv, SessionSane
  <2>a. jar' = SetJar(jar, NoJar) /\ cause' = TRUE
    BY <1>3, Zenon DEF Logout
  <2>b. alive' \subseteq alive /\ faults' \in {faults, faults + 1}
    BY <1>3 DEF Logout
  <2>c. UNCHANGED <<logins, signingKey, bff>>
    BY <1>3 DEF Logout
  <2>1. /\ jar' = SetJar(jar, NoJar) /\ cause' = TRUE /\ UNCHANGED <<logins, signingKey, bff>>
        /\ alive' \subseteq 1 .. MaxLogins /\ faults' \in Nat
    BY <2>0, <2>a, <2>b, <2>c
  <2>2. jar' \in Jars /\ jar'.access = None /\ jar'.refresh = None
    BY <1>3, <2>1, JarsSet DEF SessionInv, SessionSane
  <2> QED BY <1>3, <2>1, <2>2, JarStep DEF SessionInv, SessionSane, JarWhole, SessionKept
<1>4. ASSUME SessionInv, NEW t \in 1 .. MaxLogins, Callback(t) PROVE SessionInv'
  <2>1. UNCHANGED <<logins, signingKey, bff>>
    BY <1>4 DEF Callback
  <2>2. CASE /\ jar' = SetJar([state |-> None], TokensOf(t)) /\ alive' = alive \cup {t}
             /\ cause' = (\E r \in BffSlots : Stale(r)) /\ UNCHANGED faults
    <3>1. jar' \in Jars /\ jar'.access = t /\ jar'.refresh = t
      BY <2>2, JarsSet
    <3>2. t # None
      BY TokenIsNamed
    <3>3. cause' \/ \A r \in BffSlots : BffSane(bff[r], cause', alive')
      BY <1>4, <2>2 DEF SessionInv, BffSane, Stale
    <3>4. JarWhole' /\ SessionKept'
      BY <2>2, <3>1, <3>2 DEF JarWhole, SessionKept
    <3> QED BY <1>4, <2>1, <2>2, <3>1, <3>3, <3>4, JarStep DEF SessionInv, SessionSane
  <2>3. CASE /\ jar' = SetJar([state |-> None], NoJar) /\ cause' = TRUE /\ UNCHANGED alive
             /\ faults' \in Nat
    <3>1. jar' \in Jars /\ jar'.access = None /\ jar'.refresh = None
      BY <2>3, JarsSet
    <3> QED BY <1>4, <2>1, <2>3, <3>1, JarStep DEF SessionInv, SessionSane, JarWhole, SessionKept
  <2>4. faults \in Nat
    BY <1>4 DEF SessionInv, SessionSane
  <2>5. \/ /\ jar' = SetJar([state |-> None], TokensOf(t)) /\ alive' = alive \cup {t}
           /\ cause' = (\E r \in BffSlots : Stale(r)) /\ UNCHANGED faults
        \/ jar' = SetJar([state |-> None], NoJar) /\ cause' = TRUE /\ UNCHANGED alive
    BY <1>4, Zenon DEF Callback
  <2>6. faults' \in Nat
    <3>1. faults' \in {faults, faults + 1}
      BY <1>4, Zenon DEF Callback
    <3> QED BY <2>4, <3>1
  <2> QED BY <2>2, <2>3, <2>5, <2>6
<1> QED BY <1>1, <1>2, <1>3, <1>4

LEMMA ExpiryStep ==
  ASSUME SessionInv, NEW holder, AccessExpires(holder)
  PROVE  SessionInv'
<1>1. UNCHANGED <<alive, logins, signingKey, cause, faults>>
  BY DEF AccessExpires, keycloakVars, boundVars
<1>2. CASE jar' = [jar EXCEPT !.isFresh = FALSE] /\ UNCHANGED bff
  <2>1. jar' \in Jars /\ jar'.access = jar.access /\ jar'.refresh = jar.refresh
    BY <1>2 DEF SessionInv, SessionSane, Jars
  <2> QED BY <1>1, <1>2, <2>1, JarStep DEF SessionInv, SessionSane, JarWhole, SessionKept
<1>3. ASSUME NEW r \in BffSlots, ~bff[r].refreshed, bff' = [bff EXCEPT ![r].isFresh = FALSE], UNCHANGED jar
      PROVE  SessionInv'
  <2> DEFINE new == [bff[r] EXCEPT !.isFresh = FALSE]
  <2>1. bff[r] \in BffRequests /\ BffSane(bff[r], cause, alive)
    BY DEF SessionInv, SessionSane
  <2>2. /\ new \in BffRequests /\ new.pc = bff[r].pc /\ new.applied = bff[r].applied
        /\ new.refreshed = bff[r].refreshed /\ new.status = bff[r].status /\ new.refresh = bff[r].refresh
    BY <2>1 DEF BffRequests
  <2>3. SetBff(r, new)
    BY <1>3 DEF SetBff, SessionInv, SessionSane
  <2> HIDE DEF new
  <2>4. BffSane(new, cause', alive)
    BY <1>1, <1>3, <2>1, <2>2 DEF BffSane
  <2> QED BY <1>1, <1>3, <2>2, <2>3, <2>4, BffStep DEF SessionInv, SessionSane
<1> QED BY <1>2, <1>3 DEF AccessExpires

LEMMA SendStep ==
  ASSUME SessionInv, NEW r \in BffSlots, NEW kind \in {"bff", "session"}, SendRequest(r, kind)
  PROVE  SessionInv'
<1> DEFINE pc == IF ~jar.isFresh /\ jar.refresh # None THEN "refresh"
                 ELSE IF jar.access = None THEN "denied" ELSE Proceed(kind)
           new == [NoBff EXCEPT !.pc = pc, !.kind = kind, !.access = jar.access, !.isFresh = jar.isFresh,
                                !.refresh = jar.refresh]
<1>1. SetBff(r, new) /\ UNCHANGED <<jar, alive, logins, signingKey, cause, faults>>
  BY DEF SendRequest, keycloakVars
<1>2. pc \in {"refresh", "denied", "validate", "call"} /\ (pc = "denied" => jar.refresh = None)
  BY DEF SessionInv, JarWhole, Proceed
<1>6. ~cause => jar.refresh \in alive /\ jar.refresh # None
  BY TokenIsNamed DEF SessionInv, SessionSane, SessionKept
<1>3. jar.access \in JarTokens /\ jar.isFresh \in BOOLEAN /\ jar.refresh \in JarTokens
  BY DEF SessionInv, SessionSane, Jars
<1> HIDE DEF pc
<1>4. new \in BffRequests /\ new.pc = pc /\ new.applied = 0 /\ ~new.refreshed /\ new.refresh = jar.refresh
  BY <1>2, <1>3, NoBffTyped DEF BffRequests, BffPcs, NoBff
<1> HIDE DEF new
<1>5. BffSane(new, cause', alive)
  BY <1>1, <1>2, <1>4, <1>6 DEF BffSane
<1> QED BY <1>1, <1>4, <1>5, BffStep DEF SessionInv, SessionSane

LEMMA RefreshStep ==
  ASSUME SessionInv, NEW r \in BffSlots, RefreshTokenSet(r)
  PROVE  SessionInv'
<1> DEFINE b == bff[r]
           renewed == [b EXCEPT !.pc = Proceed(b.kind), !.access = b.refresh, !.isFresh = TRUE,
                                !.refreshed = TRUE]
           refused == [b EXCEPT !.pc = "denied"]
<1>1. b \in BffRequests /\ BffSane(b, cause, alive) /\ b.pc \in {"refresh", "again"}
      /\ UNCHANGED <<jar, alive, logins, signingKey>>
  BY DEF SessionInv, SessionSane, RefreshTokenSet, keycloakVars
<1>2. Proceed(b.kind) \in {"validate", "call"} /\ b.refresh \in JarTokens
  BY <1>1 DEF Proceed, BffRequests
<1>3. /\ renewed \in BffRequests /\ renewed.pc \in {"validate", "call"} /\ renewed.applied = b.applied
      /\ renewed.isFresh /\ renewed.refresh = b.refresh
  BY <1>1, <1>2 DEF BffRequests, BffPcs
<1>4. /\ refused \in BffRequests /\ refused.pc = "denied" /\ refused.applied = b.applied
      /\ refused.refreshed = b.refreshed /\ refused.isFresh = b.isFresh /\ refused.refresh = b.refresh
  BY <1>1 DEF BffRequests, BffPcs
<1>5. KeyFound
  BY DEF KeyFound, PublishedKey
<1>6. \/ b.refresh \in alive /\ SetBff(r, renewed) /\ UNCHANGED <<faults, cause>>
      \/ /\ b.refresh \in alive => faults' = faults + 1
         /\ b.refresh \notin alive => faults' = faults
         /\ cause' = (cause \/ b.refresh \notin alive \/ faults' # faults)
         /\ SetBff(r, refused)
  BY <1>5 DEF RefreshTokenSet
<1> HIDE DEF renewed, refused
<1>7. CASE b.refresh \in alive /\ SetBff(r, renewed) /\ UNCHANGED <<faults, cause>>
  <2>1. b.refresh # None
    BY <1>7, TokenIsNamed DEF SessionInv, SessionSane
  <2>2. BffSane(renewed, cause', alive)
    BY <1>1, <1>3, <1>7, <2>1 DEF BffSane
  <2> QED BY <1>1, <1>3, <1>7, <2>2, BffStep DEF SessionInv, SessionSane
<1>8. CASE /\ b.refresh \in alive => faults' = faults + 1
           /\ b.refresh \notin alive => faults' = faults
           /\ cause' = (cause \/ b.refresh \notin alive \/ faults' # faults)
           /\ SetBff(r, refused)
  <2>0. faults' \in Nat /\ (b.refresh \in alive => faults' # faults)
    BY <1>8 DEF SessionInv, SessionSane
  <2>1. cause' = TRUE
    BY <1>8, <2>0, Zenon
  <2>2. BffSane(refused, cause', alive)
    BY <1>1, <1>4, <2>1 DEF BffSane
  <2> QED BY <1>1, <1>4, <1>8, <2>0, <2>1, <2>2, BffStep
<1> QED BY <1>6, <1>7, <1>8

LEMMA ValidateStep ==
  ASSUME SessionInv, NEW r \in BffSlots, ValidateSession(r)
  PROVE  SessionInv'
<1> DEFINE b == bff[r]
           answered(status) == [b EXCEPT !.pc = "answer", !.status = status]
<1>1. b \in BffRequests /\ BffSane(b, cause, alive) /\ b.pc = "validate" /\ UNCHANGED <<jar, alive, logins, signingKey>>
  BY DEF SessionInv, SessionSane, ValidateSession, keycloakVars
<1>2. PICK status \in {"ok", "401"} :
        /\ SetBff(r, answered(status)) /\ cause' \in BOOLEAN /\ (cause => cause')
        /\ (status = "401" => cause') /\ faults' \in Nat
  <2> DEFINE valid == b.isFresh /\ KeyFound
  <2>1. \/ /\ SetBff(r, answered(IF valid THEN "ok" ELSE "401"))
           /\ cause' = (cause \/ ~valid) /\ UNCHANGED faults
        \/ SetBff(r, answered("401")) /\ cause' = TRUE /\ faults' = faults + 1
    BY DEF ValidateSession
  <2>2. cause \in BOOLEAN /\ faults \in Nat
    BY DEF SessionInv, SessionSane
  <2> HIDE DEF valid, answered, b
  <2>3. CASE SetBff(r, answered(IF valid THEN "ok" ELSE "401")) /\ cause' = (cause \/ ~valid) /\ UNCHANGED faults
    <3>1. CASE valid
      BY <2>2, <2>3, <3>1
    <3>2. CASE ~valid
      BY <2>2, <2>3, <3>2
    <3> QED BY <3>1, <3>2
  <2>4. CASE SetBff(r, answered("401")) /\ cause' = TRUE /\ faults' = faults + 1
    BY <2>2, <2>4
  <2> QED BY <2>1, <2>3, <2>4
<1> DEFINE new == answered(status)
<1>3. /\ new \in BffRequests /\ new.pc = "answer" /\ new.applied = b.applied /\ new.status = status
      /\ new.refreshed = b.refreshed /\ new.isFresh = b.isFresh /\ new.refresh = b.refresh
  BY <1>1 DEF BffRequests, BffPcs
<1>4. SetBff(r, new)
  BY <1>2
<1> HIDE DEF new
<1>5. BffSane(new, cause', alive)
  BY <1>1, <1>2, <1>3 DEF BffSane
<1> QED BY <1>1, <1>2, <1>3, <1>4, <1>5, BffStep

LEMMA CallStep ==
  ASSUME SessionInv, NEW r \in BffSlots, CallApi(r)
  PROVE  SessionInv'
<1> DEFINE b == bff[r]
<1>1. b \in BffRequests /\ BffSane(b, cause, alive) /\ b.pc = "call" /\ b.applied = 0
      /\ UNCHANGED <<jar, alive, logins, signingKey>>
  BY DEF SessionInv, SessionSane, CallApi, keycloakVars, BffSane
<1>2. PICK status \in {"ok", "401", "lost"}, acted \in BOOLEAN :
        LET answer401 == status = "401" \/ (status = "lost" /\ b.status = "401")
        IN /\ status = "401" => ~acted
           /\ faults' \in Nat
           /\ SetBff(r, [b EXCEPT !.pc = IF Retries(r, status) THEN "again" ELSE "answer",
                          !.status = IF answer401 THEN "401" ELSE status,
                          !.applied = b.applied + (IF acted THEN 1 ELSE 0)])
           /\ cause' = (cause \/ (answer401 /\ ~Retries(r, status)))
  <2>1. faults \in Nat
    BY DEF SessionInv, SessionSane
  <2>2. \A status \in {"ok", "401", "lost"} :
          (IF status = "lost" THEN faults < MaxFaults /\ faults' = faults + 1 ELSE UNCHANGED faults)
            => faults' \in Nat
    BY <2>1
  <2> QED BY <2>2, Zenon DEF CallApi
<1> DEFINE answer401 == status = "401" \/ (status = "lost" /\ b.status = "401")
           pc == IF Retries(r, status) THEN "again" ELSE "answer"
           known == IF answer401 THEN "401" ELSE status
           applied == b.applied + (IF acted THEN 1 ELSE 0)
           new == [b EXCEPT !.pc = pc, !.status = known, !.applied = applied]
<1>3. /\ pc \in {"again", "answer"} /\ known \in {"ok", "401", "lost"} /\ applied \in {0, 1}
      /\ (pc = "again" => applied = 0) /\ SetBff(r, new)
  BY <1>1, <1>2 DEF Retries
<1>4. pc = "answer" /\ known = "401" => cause'
  BY <1>1, <1>2
<1>8. cause' = (cause \/ (answer401 /\ ~Retries(r, status)))
  BY <1>2
<1> HIDE DEF pc, known, applied
<1>5. /\ new \in BffRequests /\ new.pc = pc /\ new.applied = applied /\ new.status = known
      /\ new.refreshed = b.refreshed /\ new.isFresh = b.isFresh /\ new.refresh = b.refresh
  BY <1>1, <1>3 DEF BffRequests, BffPcs
<1> HIDE DEF new
<1>7. cause' \in BOOLEAN /\ (cause => cause')
  BY <1>8 DEF SessionInv, SessionSane
<1>6. BffSane(new, cause', alive)
  BY <1>1, <1>3, <1>4, <1>5, <1>7 DEF BffSane
<1> QED BY <1>1, <1>2, <1>3, <1>5, <1>6, <1>7, BffStep

LEMMA DeliverStep ==
  ASSUME SessionInv, NEW r \in BffSlots, DeliverAnswer(r)
  PROVE  SessionInv'
<1> DEFINE b == bff[r]
<1>1. b \in BffRequests /\ BffSane(b, cause, alive) /\ UNCHANGED <<alive, logins, signingKey, faults, cause>>
      /\ SetBff(r, NoBff) /\ jar \in Jars
  BY DEF SessionInv, SessionSane, DeliverAnswer, keycloakVars, boundVars
<1>2. \/ jar' = SetJar(jar, NoJar) /\ cause
      \/ /\ jar' = SetJar(jar, TokensOf(b.refresh)) /\ b.refresh \in 1 .. MaxLogins
         /\ cause \/ b.refresh \in alive
      \/ jar' = jar
  <2>1. CASE b.pc = "denied" \/ b.status = "401"
    BY <1>1, <2>1 DEF DeliverAnswer, BffSane
  <2>2. b.refreshed => b.refresh \in 1 .. MaxLogins
    BY <1>1 DEF BffSane, BffRequests, JarTokens
  <2>3. cause \/ b.refresh \in alive
    BY <1>1 DEF DeliverAnswer, BffSane
  <2> QED BY <2>1, <2>2, <2>3 DEF DeliverAnswer
<1>3. jar' \in Jars /\ JarWhole' /\ SessionKept'
  <2>1. CASE jar' = SetJar(jar, NoJar) /\ cause
    BY <1>1, <2>1, JarsSet DEF JarWhole, SessionKept
  <2>2. CASE /\ jar' = SetJar(jar, TokensOf(b.refresh)) /\ b.refresh \in 1 .. MaxLogins
             /\ cause \/ b.refresh \in alive
    <3>1. jar' \in Jars /\ jar'.refresh = b.refresh /\ jar'.access = b.refresh
      BY <1>1, <2>2, JarsSet
    <3>2. b.refresh # None
      BY <2>2, TokenIsNamed
    <3> QED BY <1>1, <2>2, <3>1, <3>2 DEF JarWhole, SessionKept
  <2>3. CASE jar' = jar
    BY <1>1, <2>3 DEF JarWhole, SessionKept, SessionInv
  <2> QED BY <1>2, <2>1, <2>2, <2>3
<1>4. bff' \in [BffSlots -> BffRequests] /\ bff'[r] = NoBff /\ \A s \in BffSlots \ {r} : bff'[s] = bff[s]
  BY <1>1, NoBffTyped DEF SetBff, SessionInv, SessionSane
<1>5. \A s \in BffSlots : BffSane(bff'[s], cause', alive')
  BY <1>1, <1>4, NoBffTyped DEF BffSane, SessionInv
<1>6. cause' \in BOOLEAN
  BY <1>1 DEF SessionInv, SessionSane
<1> QED BY <1>1, <1>3, <1>4, <1>5, <1>6 DEF SessionInv, SessionSane

LEMMA SessionNextInv == ASSUME SessionInv, [SessionNext]_sessionVars PROVE SessionInv'
<1>1. CASE UNCHANGED sessionVars
  BY <1>1
  DEF sessionVars, sessionState, boundVars, SessionInv, SessionSane, JarWhole, SessionKept, BffSane
<1>2. CASE SessionNext
  BY <1>2, SignInSteps, ExpiryStep, SendStep, RefreshStep, ValidateStep, CallStep, DeliverStep
  DEF SessionNext
<1> QED BY <1>1, <1>2

LEMMA SessionInvSound == ASSUME SessionInv PROVE SessionTypeOK /\ SessionSound
BY DEF SessionInv, SessionSane, SessionTypeOK, SessionSound, AppliedOnce, Jars, JarTokens, BffRequests, BffPcs

(* For any requests in flight, sign-ins, keys and failures: the API acts on   *)
(* a request at most once, and since its last sign-in a browser loses the     *)
(* session, or has it replaced by one that is over, only with a reason.       *)
THEOREM SessionsKept == SessionSpec => [](SessionTypeOK /\ SessionSound)
<1>1. SessionInit => SessionInv
  BY SessionInitInv
<1>2. SessionInv /\ [SessionNext]_sessionVars => SessionInv'
  BY SessionNextInv
<1>3. SessionInv => SessionTypeOK /\ SessionSound
  BY SessionInvSound
<1> QED BY <1>1, <1>2, <1>3, PTL DEF SessionSpec

-----------------------------------------------------------------------------
(* Startup, readiness and the start of a login. *)

EnvFields == DOMAIN ValidEnv
Environs == {e \in [EnvFields -> UNION {Values[f] : f \in EnvFields}] :
               \A f \in EnvFields : e[f] \in Values[f]}

\* What validateServerConfig found in the environment, the clock aside.
Validated(env) ==
  /\ KeysValid(env)
  /\ Production(env) => SteelValid(env) /\ LeasesValid(env)

\* The key every server of a deployment that is no test wraps with.
DeployedKey == EncryptorFromEnv(deployed, None)

GateSane ==
  /\ deployed \in Deployments /\ clock \in 0 .. MaxTime /\ beat \in -FreshBeat .. MaxTime
  /\ booted \in [Servers -> {None, deployed}] /\ DOMAIN procKey = Servers
  /\ steelUp \in BOOLEAN /\ routed \in BOOLEAN /\ page.ready \in BOOLEAN
  /\ page.at \in 0 .. clock

\* A process that runs has passed validation and wraps with the deployment's key.
BootedValid ==
  \A s \in Servers :
    /\ booted[s] # None => Validated(deployed) /\ (~Testing(deployed) => procKey[s] = DeployedKey)
    /\ procKey[s] # None => booted[s] # None

\* In production every handle is sealed with the pinned key.
PinnedHandle == [format |-> "v2", wrapped |-> <<DeployedKey, "pinned key">>]

HandlesSealed == Production(deployed) /\ handles # {} => Validated(deployed) /\ handles = {PinnedHandle}

\* What the page shows was true when it was loaded.
PageCurrent == page.ready /\ page.at = clock => LiveScannerAllowed(deployed)

\* A claim is held within the bound of its call.
LeaseBounded ==
  lease # None =>
    /\ Validated(deployed) /\ lease.env = deployed /\ lease.start \in Nat
    /\ lease.claim = lease.start + deployed.claim
    /\ lease.by = "sweep" /\ lease.isFirst => lease.intent = lease.start + deployed.revocation
    /\ clock < lease.start + deployed.apiTimeout + Reserve

GateInv ==
  GateSane /\ BootedValid /\ HandlesSealed /\ PageCurrent /\ LoginOfferedStarts /\ LeaseBounded

LEMMA ValidEnvTyped == \A f \in EnvFields : ValidEnv[f] \in Values[f]
<1>1. EnvFields = {"kind", "hostedForm", "linkProvider", "live", "legal", "kms", "local",
                  "endpoint", "context", "cursorKey", "database", "redis", "keycloak", "dispatch",
                  "steelRequired", "steelMode", "apiKey", "apiUrl", "origins", "session", "readMax",
                  "releases", "apiTimeout", "claim", "revocation", "unsafe", "baseUrl", "issued",
                  "notBefore", "expires", "signed", "claims", "limits"}
  BY DEF ValidEnv, EnvFields
<1>2. /\ ValidEnv["kind"] \in Values["kind"] /\ ValidEnv["hostedForm"] \in Values["hostedForm"]
        /\ ValidEnv["linkProvider"] \in Values["linkProvider"] /\ ValidEnv["live"] \in Values["live"]
        /\ ValidEnv["legal"] \in Values["legal"] /\ ValidEnv["kms"] \in Values["kms"]
        /\ ValidEnv["local"] \in Values["local"] /\ ValidEnv["endpoint"] \in Values["endpoint"]
  BY DEF ValidEnv, Values
<1>3. /\ ValidEnv["context"] \in Values["context"] /\ ValidEnv["cursorKey"] \in Values["cursorKey"]
        /\ ValidEnv["database"] \in Values["database"] /\ ValidEnv["redis"] \in Values["redis"]
        /\ ValidEnv["keycloak"] \in Values["keycloak"] /\ ValidEnv["dispatch"] \in Values["dispatch"]
        /\ ValidEnv["steelRequired"] \in Values["steelRequired"] /\ ValidEnv["steelMode"] \in Values["steelMode"]
  BY DEF ValidEnv, Values
<1>4. /\ ValidEnv["apiKey"] \in Values["apiKey"] /\ ValidEnv["apiUrl"] \in Values["apiUrl"]
        /\ ValidEnv["origins"] \in Values["origins"] /\ ValidEnv["session"] \in Values["session"]
        /\ ValidEnv["readMax"] \in Values["readMax"] /\ ValidEnv["releases"] \in Values["releases"]
        /\ ValidEnv["apiTimeout"] \in Values["apiTimeout"] /\ ValidEnv["claim"] \in Values["claim"]
  BY DEF ValidEnv, Values
<1>5. /\ ValidEnv["revocation"] \in Values["revocation"] /\ ValidEnv["unsafe"] \in Values["unsafe"]
        /\ ValidEnv["baseUrl"] \in Values["baseUrl"] /\ ValidEnv["issued"] \in Values["issued"]
        /\ ValidEnv["notBefore"] \in Values["notBefore"] /\ ValidEnv["expires"] \in Values["expires"]
        /\ ValidEnv["signed"] \in Values["signed"] /\ ValidEnv["claims"] \in Values["claims"]
  BY DEF ValidEnv, Values
<1>6. /\ ValidEnv["limits"] \in Values["limits"]
  BY DEF ValidEnv, Values
<1> QED BY <1>1, <1>2, <1>3, <1>4, <1>5, <1>6

LEMMA FieldsOfEnv ==
  /\ {"apiTimeout", "claim", "revocation", "kms", "local", "kind"} \subseteq EnvFields
  /\ Values["apiTimeout"] = {1, 2} /\ Values["claim"] = {1, 2, 3} /\ Values["revocation"] = {1, 2, 3}
  BY DEF EnvFields, ValidEnv, Values

LEMMA EnvChanged ==
  ASSUME NEW e \in Environs, NEW f \in EnvFields, NEW x \in Values[f]
  PROVE  [e EXCEPT ![f] = x] \in Environs
<1>1. x \in UNION {Values[g] : g \in EnvFields}
  OBVIOUS
<1> HIDE DEF EnvFields
<1> QED BY <1>1 DEF Environs

LEMMA EnvsTyped == ValidEnv \in Environs /\ DevelopmentEnv \in Environs /\ SlowSteelEnv \in Environs
<1>1. ValidEnv \in Environs
  <2>1. ValidEnv \in [EnvFields -> UNION {Values[f] : f \in EnvFields}]
    <3>1. ValidEnv = [f \in EnvFields |-> ValidEnv[f]]
      BY DEF ValidEnv, EnvFields
    <3> QED BY <3>1, ValidEnvTyped
  <2> QED BY <2>1, ValidEnvTyped DEF Environs
<1>2. {"kind", "kms", "local"} \subseteq EnvFields /\ "development" \in Values["kind"]
      /\ None \in Values["kms"] /\ "key" \in Values["local"]
  BY DEF EnvFields, ValidEnv, Values
<1> DEFINE e1 == [ValidEnv EXCEPT !["kind"] = "development"]
           e2 == [e1 EXCEPT !["kms"] = None]
           e3 == [e2 EXCEPT !["local"] = "key"]
<1>3. e1 \in Environs
  BY <1>1, <1>2, EnvChanged
<1>4. e2 \in Environs
  <2> HIDE DEF e1
  <2> QED BY <1>2, <1>3, EnvChanged
<1>5. e3 \in Environs
  <2> HIDE DEF e2
  <2> QED BY <1>2, <1>4, EnvChanged
<1>6. DevelopmentEnv = e3
  BY DEF DevelopmentEnv
<1>7. SlowSteelEnv \in Environs
  <2> DEFINE s1 == [ValidEnv EXCEPT !["apiTimeout"] = 2]
             s2 == [s1 EXCEPT !["claim"] = 3]
             s3 == [s2 EXCEPT !["revocation"] = 3]
  <2>1. s1 \in Environs
    BY <1>1, FieldsOfEnv, EnvChanged
  <2>2. s2 \in Environs
    <3> HIDE DEF s1
    <3> QED BY <2>1, FieldsOfEnv, EnvChanged
  <2>3. s3 \in Environs
    <3> HIDE DEF s2
    <3> QED BY <2>2, FieldsOfEnv, EnvChanged
  <2> QED BY <2>3 DEF SlowSteelEnv
<1> QED BY <1>1, <1>5, <1>6, <1>7

LEMMA DeploymentsTyped == \A e \in Deployments : e \in Environs /\ e # None
<1>1. ASSUME NEW e \in Environs, NEW f \in EnvFields PROVE Changed(e, f) \subseteq Environs
  BY <1>1, EnvChanged DEF Changed
<1>2. DOMAIN ValidEnv = EnvFields /\ {"apiTimeout", "claim", "revocation"} \subseteq EnvFields
  BY FieldsOfEnv DEF EnvFields
<1> QED BY <1>1, <1>2, EnvsTyped, GateAssumption DEF Deployments

LEMMA GateInitInv == ASSUME GateInit PROVE GateInv
<1>1. deployed \in Deployments
  BY DEF GateInit
<1>2. /\ booted = [s \in Servers |-> None] /\ procKey = [s \in Servers |-> None]
      /\ clock = 0 /\ beat = -3 /\ steelUp = TRUE /\ routed = FALSE
      /\ page = [ready |-> FALSE, at |-> 0] /\ answer = None /\ handles = {} /\ lease = None
  BY DEF GateInit, FreshBeat
<1>3. GateSane
  <2>1. clock \in 0 .. MaxTime /\ beat \in -FreshBeat .. MaxTime
    BY <1>2, GateAssumption DEF FreshBeat
  <2>2. page.at \in 0 .. clock /\ page.ready = FALSE
    BY <1>2
  <2>3. booted \in [Servers -> {None, deployed}] /\ DOMAIN procKey = Servers
    BY <1>2
  <2> QED BY <1>1, <1>2, <2>1, <2>2, <2>3 DEF GateSane
<1> QED BY <1>2, <1>3 DEF GateInv, BootedValid, HandlesSealed, PageCurrent, LoginOfferedStarts, LeaseBounded

(* The encryptor of a deployment that is no test does not depend on chance.  *)
LEMMA KeyIsDeployed ==
  ASSUME NEW env, NEW draw, KeysValid(env), ~Testing(env)
  PROVE  EncryptorFromEnv(env, draw) = EncryptorFromEnv(env, None)
<1>1. env.kms # None \/ env.local # None
  BY DEF KeysValid
<1> QED BY <1>1 DEF EncryptorFromEnv

\* A validated production process seals with the pinned key and opens with it.
LEMMA PinnedKey ==
  ASSUME Production(deployed), KeysValid(deployed)
  PROVE  /\ Seal(DeployedKey) = PinnedHandle /\ Opens(DeployedKey, PinnedHandle)
         /\ ~Testing(deployed)
<1>1. deployed.kms = "arn" /\ deployed.kms # None
  BY GateAssumption DEF KeysValid, KeyIdValid
<1>2. DeployedKey = <<"aws-kms", deployed.kms, deployed.context>>
  BY <1>1 DEF DeployedKey, EncryptorFromEnv
<1>3. Target(DeployedKey) = "pinned key" /\ DeployedKey[1] # "local"
  BY <1>1, <1>2 DEF Target
<1> QED BY <1>3 DEF Seal, Opens, SealKms, OpenKms, PinnedHandle, Production, Testing

LEMMA ConfigValidated ==
  ASSUME NEW env, ValidateServerConfig(env)
  PROVE  Validated(env)
  BY DEF ValidateServerConfig, Validated

(* A configuration that passed validation also builds the Steel provider.    *)
LEMMA ValidatedBuilds ==
  ASSUME NEW env, Validated(env), Production(env)
  PROVE  ProviderBuilt(env)
  BY GateAssumption DEF Validated, SteelValid, ViewerOriginsValid, ProviderBuilt, ResolveSteelMode

LEMMA DurationsTyped ==
  ASSUME GateSane
  PROVE  deployed.apiTimeout \in Nat /\ deployed.claim \in Nat /\ deployed.revocation \in Nat
<1>1. \A f \in EnvFields : deployed[f] \in Values[f]
  BY DeploymentsTyped DEF GateSane, Environs
<1>2. deployed["apiTimeout"] \in {1, 2} /\ deployed["claim"] \in {1, 2, 3} /\ deployed["revocation"] \in {1, 2, 3}
  BY <1>1, FieldsOfEnv
<1> QED BY <1>2

(* The parts of the invariant that hold as long as the state they are about  *)
(* does.                                                                     *)
LEMMA Unmoved ==
  ASSUME GateInv, UNCHANGED deployed
  PROVE  /\ UNCHANGED <<booted, procKey>> => BootedValid'
         /\ UNCHANGED handles => HandlesSealed'
         /\ UNCHANGED <<page, clock>> => PageCurrent'
         /\ UNCHANGED <<page, answer>> => LoginOfferedStarts'
         /\ UNCHANGED <<lease, clock>> => LeaseBounded'
<1>1. /\ Validated(deployed)' = Validated(deployed) /\ DeployedKey' = DeployedKey
      /\ Testing(deployed)' = Testing(deployed) /\ Production(deployed)' = Production(deployed)
      /\ UNCHANGED clock => LiveScannerAllowed(deployed)' = LiveScannerAllowed(deployed)
  BY DEF Validated, KeysValid, KeyIdValid, ContextValid, Production, SteelValid, ViewerOriginsValid, LeasesValid,
         DeployedKey, EncryptorFromEnv, Testing, LiveScannerAllowed, ApprovalVerified, BundleSigned,
         ClaimsComplete, WindowHolds, LimitsRespected
<1>2. PinnedHandle' = PinnedHandle
  BY <1>1 DEF PinnedHandle
<1> QED BY <1>1, <1>2 DEF GateInv, BootedValid, HandlesSealed, PageCurrent, LoginOfferedStarts, LeaseBounded

LEMMA BootStep == ASSUME GateInv, NEW s \in Servers, Boot(s) PROVE GateInv'
<1>1. /\ UNCHANGED <<deployed, clock, steelUp, routed, page, answer, handles, lease>>
      /\ ValidateServerConfig(deployed)
      /\ booted' = [booted EXCEPT ![s] = deployed]
      /\ procKey' = [procKey EXCEPT ![s] = EncryptorFromEnv(deployed, calls)]
      /\ beat' \in {clock, beat}
  BY DEF Boot
<1>2. Validated(deployed) /\ deployed # None
  BY <1>1, ConfigValidated, DeploymentsTyped DEF GateInv, GateSane
<1>3. ~Testing(deployed) => EncryptorFromEnv(deployed, calls) = DeployedKey
  BY <1>2, KeyIsDeployed DEF DeployedKey, Validated
<1>4. GateSane'
  BY <1>1 DEF GateInv, GateSane, FreshBeat
<1>5. BootedValid'
  <2>1. Validated(deployed)' /\ DeployedKey' = DeployedKey /\ Testing(deployed)' = Testing(deployed)
    BY <1>1, <1>2
    DEF Validated, KeysValid, KeyIdValid, ContextValid, Production, SteelValid, ViewerOriginsValid, LeasesValid,
        DeployedKey, EncryptorFromEnv, Testing
  <2>2. ASSUME NEW t \in Servers
        PROVE  /\ booted'[t] # None => (~Testing(deployed) => procKey'[t] = DeployedKey)
               /\ procKey'[t] # None => booted'[t] # None
    <3>1. CASE t = s
      BY <1>1, <1>2, <1>3, <3>1 DEF GateInv, GateSane
    <3>2. CASE t # s
      BY <1>1, <3>2 DEF GateInv, GateSane, BootedValid
    <3> QED BY <3>1, <3>2
  <2> QED BY <2>1, <2>2 DEF BootedValid
<1> QED BY <1>1, <1>4, <1>5, Unmoved DEF GateInv

LEMMA ExitStep == ASSUME GateInv, NEW s \in Servers, Exit(s) PROVE GateInv'
<1>1. /\ UNCHANGED <<deployed, clock, beat, steelUp, page, answer, handles>>
      /\ booted' = [booted EXCEPT ![s] = None] /\ procKey' = [procKey EXCEPT ![s] = None]
      /\ routed' = (routed /\ s # "api") /\ lease' \in {None, lease}
  BY DEF Exit
<1>2. GateSane'
  BY <1>1 DEF GateInv, GateSane
<1>3. BootedValid'
  <2>1. /\ Validated(deployed)' = Validated(deployed) /\ DeployedKey' = DeployedKey
        /\ Testing(deployed)' = Testing(deployed)
    BY <1>1
    DEF Validated, KeysValid, KeyIdValid, ContextValid, Production, SteelValid, ViewerOriginsValid, LeasesValid,
        DeployedKey, EncryptorFromEnv, Testing
  <2>2. \A t \in Servers :
          \/ booted'[t] = None /\ procKey'[t] = None
          \/ booted'[t] = booted[t] /\ procKey'[t] = procKey[t]
    BY <1>1 DEF GateInv, GateSane
  <2> QED BY <2>1, <2>2 DEF GateInv, BootedValid
<1>4. LeaseBounded'
  <2>1. CASE lease' = lease
    BY <1>1, <2>1, Unmoved
  <2>2. CASE lease' = None
    BY <2>2 DEF LeaseBounded
  <2> QED BY <1>1, <2>1, <2>2
<1> QED BY <1>1, <1>2, <1>3, <1>4, Unmoved DEF GateInv

LEMMA PassStep == ASSUME GateInv, Pass PROVE GateInv'
<1>1. /\ UNCHANGED <<deployed, booted, procKey, steelUp, routed, page, answer, handles, lease>>
      /\ clock < MaxTime /\ clock' = clock + 1 /\ beat' \in {beat, clock + 1}
      /\ lease # None => clock + 1 < lease.start + lease.env.apiTimeout + Reserve
  BY DEF Pass
<1>2. GateSane'
  BY <1>1, GateAssumption DEF GateInv, GateSane, FreshBeat
<1>3. PageCurrent'
  BY <1>1 DEF GateInv, GateSane, PageCurrent
<1>4. LeaseBounded'
  <2>1. Validated(deployed)' = Validated(deployed)
    BY <1>1 DEF Validated, KeysValid, KeyIdValid, ContextValid, Production, Testing, SteelValid, ViewerOriginsValid,
                LeasesValid
  <2> QED BY <1>1, <2>1 DEF GateInv, LeaseBounded
<1> QED BY <1>1, <1>2, <1>3, <1>4, Unmoved DEF GateInv

LEMMA ReadStatusSteps ==
  /\ GateInv /\ SteelOutage => GateInv'
  /\ GateInv /\ CheckReadiness => GateInv'
  /\ GateInv /\ LoadPage => GateInv'
<1>1. ASSUME GateInv, SteelOutage PROVE GateInv'
  <2>1. /\ UNCHANGED <<deployed, booted, procKey, clock, beat, routed, page, answer, handles, lease>>
        /\ steelUp' = ~steelUp
    BY <1>1 DEF SteelOutage
  <2>2. GateSane'
    BY <1>1, <2>1 DEF GateInv, GateSane
  <2> QED BY <1>1, <2>1, <2>2, Unmoved DEF GateInv
<1>2. ASSUME GateInv, CheckReadiness PROVE GateInv'
  <2>1. /\ UNCHANGED <<deployed, booted, procKey, clock, beat, steelUp, page, answer, handles, lease>>
        /\ routed' \in BOOLEAN
    BY <1>2 DEF CheckReadiness, Ready
  <2>2. GateSane'
    BY <1>2, <2>1 DEF GateInv, GateSane
  <2> QED BY <1>2, <2>1, <2>2, Unmoved DEF GateInv
<1>3. ASSUME GateInv, LoadPage PROVE GateInv'
  <2>1. /\ UNCHANGED <<deployed, booted, procKey, clock, beat, steelUp, routed, handles, lease>>
        /\ booted["api"] = deployed /\ answer' = None
        /\ page' = [ready |-> DistributorLogin(deployed), at |-> clock]
    BY <1>3 DEF LoadPage, GateInv, GateSane, Servers
  <2>2. page'.at = clock /\ page'.ready \in BOOLEAN /\ (page'.ready => LiveScannerAllowed(deployed))
    BY <2>1 DEF DistributorLogin
  <2>3. GateSane'
    BY <1>3, <2>1, <2>2 DEF GateInv, GateSane
  <2>4. LiveScannerAllowed(deployed)' = LiveScannerAllowed(deployed)
    BY <2>1 DEF LiveScannerAllowed, Production, ApprovalVerified, BundleSigned, ClaimsComplete, WindowHolds, LimitsRespected
  <2>5. PageCurrent' /\ LoginOfferedStarts'
    BY <2>1, <2>2, <2>4 DEF PageCurrent, LoginOfferedStarts
  <2> QED BY <1>3, <2>1, <2>3, <2>5, Unmoved DEF GateInv
<1> QED BY <1>1, <1>2, <1>3

LEMMA ConnectStep == ASSUME GateInv, ConnectAnswers PROVE GateInv'
<1>1. /\ UNCHANGED <<deployed, booted, procKey, clock, beat, steelUp, routed, page, lease>>
      /\ booted["api"] = deployed /\ booted["api"] # None /\ page.ready
  BY DEF ConnectAnswers, GateInv, GateSane, Servers
<1>2. \/ /\ answer' = [outcome |-> "started", at |-> clock]
         /\ handles' = handles \cup {Seal(procKey["api"])}
      \/ /\ ~(ProviderBuilt(deployed) /\ LiveScannerAllowed(deployed))
         /\ answer' = [outcome |-> "refused", at |-> clock]
         /\ UNCHANGED handles
  BY <1>1 DEF ConnectAnswers
<1>3. Validated(deployed) /\ (~Testing(deployed) => procKey["api"] = DeployedKey)
  BY <1>1 DEF GateInv, BootedValid, Servers
<1>4. HandlesSealed'
  <2>1. CASE UNCHANGED handles
    BY <1>1, <2>1, Unmoved
  <2>2. CASE handles' = handles \cup {Seal(procKey["api"])}
    <3> SUFFICES ASSUME Production(deployed) PROVE Validated(deployed)' /\ handles' = {PinnedHandle'}
      BY <1>1 DEF HandlesSealed, Production
    <3>1. Seal(procKey["api"]) = PinnedHandle
      BY <1>3, PinnedKey DEF Validated
    <3>2. handles' = {PinnedHandle}
      BY <2>2, <3>1 DEF GateInv, HandlesSealed
    <3>3. DeployedKey' = DeployedKey /\ Validated(deployed)'
      BY <1>1, <1>3
      DEF Validated, KeysValid, KeyIdValid, ContextValid, Production, SteelValid, ViewerOriginsValid, LeasesValid,
          DeployedKey, EncryptorFromEnv, Testing
    <3> QED BY <3>2, <3>3 DEF PinnedHandle
  <2> QED BY <1>2, <2>1, <2>2
<1>5. LoginOfferedStarts'
  <2> SUFFICES ASSUME Production(deployed), answer'.at = page.at PROVE answer'.outcome = "started"
    BY <1>1 DEF LoginOfferedStarts, Production
  <2>1. page.at = clock
    BY <1>2
  <2>2. ProviderBuilt(deployed) /\ LiveScannerAllowed(deployed)
    BY <1>1, <1>3, <2>1, ValidatedBuilds DEF GateInv, PageCurrent
  <2> QED BY <1>2, <2>2
<1>6. GateSane'
  BY <1>1 DEF GateInv, GateSane
<1> QED BY <1>1, <1>4, <1>5, <1>6, Unmoved DEF GateInv

LEMMA SessionClaimStep ==
  ASSUME GateInv, NEW by \in {"cancel", "request", "sweep"}, ClaimSession(by)
  PROVE  GateInv'
<1> DEFINE n == IF by = "cancel" THEN 1 ELSE ReleaseBatch
<1>1. /\ UNCHANGED <<deployed, booted, procKey, clock, beat, steelUp, routed, page, answer, handles>>
      /\ booted["api"] = deployed /\ booted["api"] # None
      /\ lease' = [by |-> by, env |-> deployed, left |-> n, isFirst |-> TRUE, start |-> clock,
                   claim |-> clock + deployed.claim, intent |-> clock + IntentLease(by, deployed)]
  BY DEF ClaimSession, GateInv, GateSane, Servers
<1>2. Validated(deployed)'
  <2>1. Validated(deployed)
    BY <1>1 DEF GateInv, BootedValid, Servers
  <2> QED BY <1>1, <2>1 DEF Validated, KeysValid, KeyIdValid, ContextValid, Production, Testing, SteelValid,
                            ViewerOriginsValid, LeasesValid
<1>3. clock \in Nat /\ deployed.apiTimeout \in Nat
  BY GateAssumption, DurationsTyped DEF GateInv, GateSane
<1>4. LeaseBounded'
  BY <1>1, <1>2, <1>3 DEF LeaseBounded, Reserve, IntentLease
<1>5. GateSane'
  BY <1>1 DEF GateInv, GateSane
<1> QED BY <1>1, <1>4, <1>5, Unmoved DEF GateInv

LEMMA NextReleaseStep == ASSUME GateInv, NextRelease PROVE GateInv'
<1> DEFINE n == lease.left - 1
           c == clock + lease.env.claim
<1>1. /\ UNCHANGED <<deployed, booted, procKey, clock, beat, steelUp, routed, page, answer, handles>>
      /\ lease # None /\ lease.env = deployed /\ Validated(deployed)
      /\ lease' = [lease EXCEPT !.left = n, !.isFirst = FALSE, !.start = clock, !.claim = c]
  BY DEF NextRelease, GateInv, LeaseBounded
<1>2. Validated(deployed)'
  BY <1>1 DEF Validated, KeysValid, KeyIdValid, ContextValid, Production, Testing, SteelValid, ViewerOriginsValid,
              LeasesValid
<1>3. clock \in Nat /\ deployed.apiTimeout \in Nat
  BY GateAssumption, DurationsTyped DEF GateInv, GateSane
<1>4. LeaseBounded'
  BY <1>1, <1>2, <1>3 DEF LeaseBounded, GateInv, Reserve
<1>5. GateSane'
  BY <1>1 DEF GateInv, GateSane
<1> QED BY <1>1, <1>4, <1>5, Unmoved DEF GateInv

LEMMA ClaimAckStep == ASSUME GateInv, AckClaim PROVE GateInv'
<1>1. /\ UNCHANGED <<deployed, booted, procKey, clock, beat, steelUp, routed, page, answer, handles>>
      /\ lease' = None
  BY DEF AckClaim
<1>2. GateSane' /\ LeaseBounded'
  BY <1>1 DEF GateInv, GateSane, LeaseBounded
<1> QED BY <1>1, <1>2, Unmoved DEF GateInv

LEMMA RepointStep == ASSUME GateInv, RepointAlias PROVE GateInv'
<1>1. UNCHANGED <<deployed, booted, procKey, clock, beat, steelUp, routed, page, answer, handles, lease>>
  BY DEF RepointAlias
<1>2. GateSane'
  BY <1>1 DEF GateInv, GateSane
<1> QED BY <1>1, <1>2, Unmoved DEF GateInv

LEMMA GateNextInv == ASSUME GateInv, [GateNext]_gateVars PROVE GateInv'
<1>1. CASE UNCHANGED gateVars
  <2>1. UNCHANGED <<deployed, booted, procKey, clock, beat, steelUp, routed, page, answer, handles, lease>>
    BY <1>1 DEF gateVars, gateState
  <2>2. GateSane'
    BY <2>1 DEF GateInv, GateSane
  <2> QED BY <2>1, <2>2, Unmoved DEF GateInv
<1>2. CASE GateNext
  BY <1>2, BootStep, ExitStep, PassStep, ReadStatusSteps, ConnectStep, SessionClaimStep, NextReleaseStep, ClaimAckStep,
     RepointStep DEF GateNext
<1> QED BY <1>1, <1>2

LEMMA GateInvSound == ASSUME GateInv PROVE GateTypeOK /\ GateSound
<1>1. LeasesCoverCalls
  <2> SUFFICES ASSUME lease # None, Production(lease.env)
               PROVE  /\ clock < lease.claim
                      /\ lease.by = "sweep" /\ lease.isFirst => clock < lease.intent
    BY DEF LeasesCoverCalls
  <2>1. LeasesValid(deployed)
    BY DEF GateInv, LeaseBounded, Validated
  <2>2. clock \in Nat
    BY GateAssumption DEF GateInv, GateSane
  <2> QED BY <2>1, <2>2, DurationsTyped DEF GateInv, LeaseBounded, LeasesValid, Reserve
<1>2. HandlesReopen
  <2> SUFFICES ASSUME Production(deployed), NEW s \in Servers, procKey[s] # None, NEW h \in handles
               PROVE  Opens(procKey[s], h)
    BY DEF HandlesReopen
  <2>1. h = PinnedHandle /\ KeysValid(deployed)
    BY DEF GateInv, HandlesSealed, Validated
  <2>2. Opens(DeployedKey, PinnedHandle) /\ ~Testing(deployed)
    BY <2>1, PinnedKey
  <2>3. procKey[s] = DeployedKey
    BY <2>2 DEF GateInv, BootedValid
  <2> QED BY <2>1, <2>2, <2>3
<1>3. GateTypeOK
  BY DeploymentsTyped DEF GateInv, GateSane, GateTypeOK, Environs, EnvFields
<1> QED BY <1>1, <1>2, <1>3 DEF GateSound, GateInv

(* For any environment of the deployment, restarts, outages, repointed KMS    *)
(* aliases and passing of time, in production: a page never offers a login    *)
(* the policy refuses, each release's claim outlives its own bounded call, a  *)
(* sweep's lease its first one, and a sealed handle is opened by every server *)
(* that runs.                                                                 *)
THEOREM GatePromises == GateSpec => [](GateTypeOK /\ GateSound)
<1>1. GateInit => GateInv
  BY GateInitInv
<1>2. GateInv /\ [GateNext]_gateVars => GateInv'
  BY GateNextInv
<1>3. GateInv => GateTypeOK /\ GateSound
  BY GateInvSound
<1> QED BY <1>1, <1>2, <1>3, PTL DEF GateSpec

-----------------------------------------------------------------------------
(* Authentication, roles and the fixed-window limit. *)

KnownSubjects == Subjects \cup {"anonymous"}
Identities ==
  {Anonymous} \cup [sub : Subjects, roles : SUBSET SentinelRoles, authenticated : {TRUE}]
ServedRequests ==
  [pc : {"read", "limit", "audit", "grant"}, route : Routes, id : Identities]

Granting(s) == {i \in RequestSlots : requests[i].pc = "grant" /\ requests[i].id.sub = s}
ToldRefusals == [at : Nat, until : Nat]

RequestSane ==
  /\ gateTicks \in 0 .. MaxGateTicks
  /\ deployment.mode = "production" => deployment.enabled
  /\ DOMAIN windows = Keys /\ DOMAIN admissions = Keys /\ DOMAIN told = Keys
  /\ requests \in [RequestSlots -> {NoCall} \cup ServedRequests]
  /\ \A i \in RequestSlots :
       requests[i].pc \in {"limit", "audit", "grant"} => requests[i].route \in Buckets
  /\ trail \in [KnownSubjects -> Nat] /\ granted \in [KnownSubjects -> Nat]

\* Each audited request is granted at most once.
GrantsAudited == \A s \in KnownSubjects : granted[s] + Cardinality(Granting(s)) <= trail[s]

Within(A, from, to) == {x \in A : x.at >= from /\ x.at < to}
Since(A, from) == {x \in A : x.at >= from}

(* The window w of a key and the requests A it has admitted: the current     *)
(* window and the span before it hold no more than the limit each, and so no *)
(* span of a window's length holds more than twice the limit.                *)
Admitted(A) == IsFiniteSet(A) /\ \A x \in A : x.at \in Nat /\ x.at <= gateTicks
Expiring(w, A) ==
  w.expires # None => w.expires >= w.from + RateWindow /\ \A x \in A : x.at < w.expires
WindowKept(w, A) ==
  /\ w \in Windows /\ w.from <= gateTicks /\ Expiring(w, A)
  /\ Cardinality(Since(A, w.from)) <= RateLimit /\ Cardinality(Since(A, w.from)) <= w.count
  /\ Cardinality(Within(A, w.from - RateWindow, w.from)) <= RateLimit
SpansKept(A) == \A a \in Nat : Cardinality(Within(A, a, a + RateWindow)) <= 2 * RateLimit
KeyKept(w, A) == Admitted(A) /\ SpansKept(A) /\ IF w = None THEN A = {} ELSE WindowKept(w, A)

\* A refusal t names a time by which the window it was given in has ended.
RefusalKept(w, t) ==
  t # None =>
    /\ w # None /\ t.at \in Nat /\ t.until \in Nat /\ t.at <= gateTicks
    /\ w.from <= t.at => w.expires # None /\ t.at < w.expires /\ w.expires <= t.until

RequestInv ==
  /\ RequestSane /\ GrantsAudited /\ RolesExact
  /\ \A k \in Keys : KeyKept(windows[k], admissions[k]) /\ RefusalKept(windows[k], told[k])

-----------------------------------------------------------------------------
LEMMA PolicyTyped == RateLimit \in Nat /\ RateLimit >= 1 /\ RateWindow \in Nat /\ RateWindow >= 1
                     /\ MaxGateTicks \in Nat /\ TicksPerSecond \in Nat \ {0}
  BY RequestAssumption DEF ValidPolicy

LEMMA WithinFinite ==
  ASSUME NEW A, Admitted(A), NEW a, NEW b
  PROVE  /\ IsFiniteSet(Within(A, a, b)) /\ IsFiniteSet(Since(A, a))
         /\ Cardinality(Within(A, a, b)) \in Nat /\ Cardinality(Since(A, a)) \in Nat
<1>1. Within(A, a, b) \subseteq A /\ Since(A, a) \subseteq A /\ IsFiniteSet(A)
  BY DEF Within, Since, Admitted
<1>2. IsFiniteSet(Within(A, a, b)) /\ IsFiniteSet(Since(A, a))
  BY <1>1, FS_Subset
<1> QED BY <1>2, FS_CardinalityType

(* One more element adds at most one to the size of a set and its parts.     *)
LEMMA OneMore ==
  ASSUME NEW S, NEW T, IsFiniteSet(S), NEW x, T \subseteq S \cup {x}
  PROVE  /\ IsFiniteSet(T) /\ Cardinality(T) \in Nat /\ Cardinality(S) \in Nat
         /\ Cardinality(T) <= Cardinality(S) + 1
<1>1. IsFiniteSet(S \cup {x}) /\ Cardinality(S \cup {x}) = (IF x \in S THEN Cardinality(S) ELSE Cardinality(S) + 1)
  BY FS_AddElement
<1>2. IsFiniteSet(T) /\ Cardinality(T) <= Cardinality(S \cup {x})
  BY <1>1, FS_Subset
<1>3. Cardinality(T) \in Nat /\ Cardinality(S) \in Nat
  BY <1>2, FS_CardinalityType
<1> QED BY <1>1, <1>2, <1>3

LEMMA PartSmaller ==
  ASSUME NEW S, NEW T, IsFiniteSet(S), T \subseteq S
  PROVE  Cardinality(T) <= Cardinality(S) /\ Cardinality(T) \in Nat /\ Cardinality(S) \in Nat
<1>1. IsFiniteSet(T) /\ Cardinality(T) <= Cardinality(S)
  BY FS_Subset
<1> QED BY <1>1, FS_CardinalityType

LEMMA PartsAddUp ==
  ASSUME NEW S, NEW T, NEW U, IsFiniteSet(S), IsFiniteSet(T), U \subseteq S \cup T
  PROVE  /\ Cardinality(U) <= Cardinality(S) + Cardinality(T)
         /\ Cardinality(U) \in Nat /\ Cardinality(S) \in Nat /\ Cardinality(T) \in Nat
<1>1. /\ IsFiniteSet(S \cup T) /\ IsFiniteSet(S \cap T)
      /\ Cardinality(S \cup T) = Cardinality(S) + Cardinality(T) - Cardinality(S \cap T)
  BY FS_Union, FS_Intersection
<1>2. IsFiniteSet(U) /\ Cardinality(U) <= Cardinality(S \cup T)
  BY <1>1, FS_Subset
<1>3. /\ Cardinality(U) \in Nat /\ Cardinality(S) \in Nat /\ Cardinality(T) \in Nat
      /\ Cardinality(S \cap T) \in Nat
  BY <1>1, <1>2, FS_CardinalityType
<1> QED BY <1>1, <1>2, <1>3

(* Retry-After is not shorter than the time to live it is made from.         *)
LEMMA RetryAfterCovers ==
  ASSUME NEW ttl \in Nat, ttl >= 1
  PROVE  RetryAfter(ttl) \in Nat /\ RetryAfter(ttl) >= ttl
<1> DEFINE c == TicksPerSecond
           m == (ttl + c - 1) \div c
<1>1. c \in Nat /\ c >= 1
  BY PolicyTyped
<1>2. m \in Int /\ c * m <= ttl + c - 1 /\ ttl + c - 1 < c * (m + 1)
  BY <1>1, Z3
<1>3. c * (m + 1) = c * m + c
  <2> HIDE DEF m, c
  <2> QED BY <1>1, <1>2
<1>4. c * m \in Int /\ c * m >= ttl
  <2> HIDE DEF m, c
  <2> QED BY <1>1, <1>2, <1>3
<1>5. RetryAfter(ttl) = c * m
  BY DEF RetryAfter
<1> QED BY <1>4, <1>5

(* What TAKE_FIXED_WINDOW leaves has an expiry ahead.                        *)
LEMMA TakenWindow ==
  ASSUME NEW w, NEW A, KeyKept(w, A), gateTicks \in Nat
  PROVE  LET v == TakeFixedWindow(w) IN
         /\ v \in Windows /\ v.expires \in Nat /\ gateTicks < v.expires /\ v.from <= gateTicks
         /\ v.expires >= v.from + RateWindow
         /\ \A x \in A : x.at < v.expires
         /\ ~Lives(w) => v.from = gateTicks /\ v.count = 1 /\ \A x \in A : x.at < gateTicks
         /\ Lives(w) => v.from = w.from /\ v.count = w.count + 1 /\ w \in Windows
                        /\ (w.expires # None => v.expires = w.expires)
<1> DEFINE v == TakeFixedWindow(w)
<1>0. v = TakeFixedWindow(w)
  OBVIOUS
<1>1. CASE ~Lives(w)
  <2>1. v = [count |-> 1, expires |-> gateTicks + RateWindow, from |-> gateTicks]
    BY <1>1 DEF TakeFixedWindow
  <2>2. \A x \in A : x.at < gateTicks
    BY <1>1 DEF Lives, KeyKept, WindowKept, Expiring, Admitted, Windows
  <2>3. v \in Windows
    BY <2>1, PolicyTyped DEF Windows
  <2>4. /\ v.expires \in Nat /\ gateTicks < v.expires /\ v.from = gateTicks /\ v.count = 1
        /\ v.expires = v.from + RateWindow
    BY <2>1, PolicyTyped
  <2>5. \A x \in A : x.at < v.expires
    BY <2>2, <2>4 DEF KeyKept, Admitted
  <2> HIDE DEF v
  <2> QED BY <1>0, <1>1, <2>2, <2>3, <2>4, <2>5, PolicyTyped
<1>2. CASE Lives(w)
  <2>1. /\ w \in Windows /\ w.from <= gateTicks /\ w # None
        /\ w.expires # None => w.expires >= w.from + RateWindow /\ (\A x \in A : x.at < w.expires)
                               /\ gateTicks < w.expires
    BY <1>2 DEF Lives, KeyKept, WindowKept, Expiring
  <2> DEFINE e == IF w.expires = None THEN gateTicks + RateWindow ELSE w.expires
  <2>2. e \in Nat /\ gateTicks < e /\ e >= w.from + RateWindow /\ (\A x \in A : x.at < e)
        /\ (w.expires # None => e = w.expires)
    BY <2>1, PolicyTyped DEF Windows, KeyKept, Admitted
  <2>3. v = [w EXCEPT !.count = w.count + 1, !.expires = e]
    BY <1>2, <2>1 DEF TakeFixedWindow, Windows
  <2> HIDE DEF e
  <2> DEFINE c == w.count + 1
  <2>4. c \in Nat \ {0}
    BY <2>1 DEF Windows
  <2>5. v = [w EXCEPT !.count = c, !.expires = e]
    BY <2>3
  <2> HIDE DEF c, v
  <2>6. v \in Windows /\ v.expires = e /\ v.from = w.from /\ v.count = c
    BY <2>1, <2>2, <2>4, <2>5 DEF Windows
  <2> QED BY <1>0, <1>2, <2>1, <2>2, <2>6, PolicyTyped DEF c
<1> QED BY <1>1, <1>2

(* The script without an admission.                                          *)
LEMMA TakeKeeps ==
  ASSUME NEW w, NEW A, KeyKept(w, A), gateTicks \in Nat
  PROVE  LET v == TakeFixedWindow(w) IN v # None /\ KeyKept(v, A)
<1> DEFINE v == TakeFixedWindow(w)
<1>1. /\ v \in Windows /\ v.expires \in Nat /\ gateTicks < v.expires /\ v.from <= gateTicks
      /\ v.expires >= v.from + RateWindow
      /\ \A x \in A : x.at < v.expires
      /\ ~Lives(w) => v.from = gateTicks /\ v.count = 1 /\ \A x \in A : x.at < gateTicks
      /\ Lives(w) => v.from = w.from /\ v.count = w.count + 1 /\ w \in Windows
  BY TakenWindow
<1>0. v = TakeFixedWindow(w)
  OBVIOUS
<1> HIDE DEF v
<1>2. Admitted(A) /\ IsFiniteSet(A) /\ v # None
  BY <1>1, RequestAssumption DEF KeyKept, Admitted
<1>3. CASE Lives(w)
  <2>1. WindowKept(w, A)
    BY <1>3 DEF KeyKept, Lives
  <2>2. Cardinality(Since(A, v.from)) <= v.count
    BY <1>1, <1>2, <1>3, <2>1, WithinFinite DEF WindowKept, Windows
  <2>3. KeyKept(v, A)
    BY <1>1, <1>2, <1>3, <2>1, <2>2 DEF KeyKept, WindowKept, Expiring
  <2> QED BY <1>0, <1>2, <2>3
<1>4. CASE ~Lives(w)
  <2>1. Since(A, v.from) = {} /\ Cardinality({}) = 0
    <3>1. \A x \in A : ~(x.at >= v.from)
      BY <1>1, <1>2, <1>4 DEF Admitted
    <3> QED BY <3>1, FS_EmptySet DEF Since
  <2>2. Cardinality(Within(A, v.from - RateWindow, v.from)) <= RateLimit
    <3>1. CASE w = None
      <4>1. Within(A, v.from - RateWindow, v.from) = {}
        BY <3>1 DEF KeyKept, Within
      <4> QED BY <2>1, <4>1, PolicyTyped
    <3>2. CASE w # None
      <4>0. WindowKept(w, A) /\ w.expires # None /\ ~(gateTicks < w.expires)
        BY <1>4, <3>2 DEF KeyKept, Lives
      <4>1. WindowKept(w, A) /\ w.expires # None /\ gateTicks >= w.expires
        BY <4>0 DEF WindowKept, Windows
      <4>2. v.from - RateWindow >= w.from
        BY <1>1, <1>4, <4>1, PolicyTyped DEF WindowKept, Expiring, Windows
      <4>3. Within(A, v.from - RateWindow, v.from) \subseteq Since(A, w.from)
        BY <1>1, <1>2, <4>1, <4>2, PolicyTyped DEF Within, Since, Admitted, WindowKept, Windows
      <4>4. Cardinality(Since(A, w.from)) <= RateLimit /\ IsFiniteSet(Since(A, w.from))
        BY <1>2, <4>1, WithinFinite DEF WindowKept
      <4>5. /\ Cardinality(Within(A, v.from - RateWindow, v.from)) <= Cardinality(Since(A, w.from))
            /\ Cardinality(Within(A, v.from - RateWindow, v.from)) \in Nat
            /\ Cardinality(Since(A, w.from)) \in Nat
        BY <4>3, <4>4, PartSmaller
      <4> QED BY <4>4, <4>5, PolicyTyped
    <3> QED BY <3>1, <3>2
  <2>3. Cardinality(Since(A, v.from)) <= RateLimit /\ Cardinality(Since(A, v.from)) <= v.count
    BY <1>1, <1>4, <2>1, PolicyTyped
  <2>4. KeyKept(v, A)
    BY <1>1, <1>2, <2>2, <2>3 DEF KeyKept, WindowKept, Expiring
  <2> QED BY <1>0, <1>2, <2>4
<1> QED BY <1>2, <1>3, <1>4

(* One admission within the limit, in the window the script has just taken.  *)
LEMMA AdmitKeeps ==
  ASSUME NEW w, NEW A, KeyKept(w, A), gateTicks \in Nat, NEW n,
         WithinLimit(TakeFixedWindow(w).count)
  PROVE  KeyKept(TakeFixedWindow(w), A \cup {[at |-> gateTicks, n |-> n]})
<1> DEFINE v == TakeFixedWindow(w)
           x == [at |-> gateTicks, n |-> n]
           B == A \cup {x}
<1>1. /\ v \in Windows /\ v.expires \in Nat /\ gateTicks < v.expires /\ v.from <= gateTicks
      /\ \A y \in A : y.at < v.expires
      /\ ~Lives(w) => v.from = gateTicks /\ v.count = 1 /\ \A y \in A : y.at < gateTicks
      /\ Lives(w) => v.from = w.from /\ v.count = w.count + 1 /\ w \in Windows
  BY TakenWindow
<1>2. KeyKept(v, A) /\ v # None /\ v.count <= RateLimit
  BY TakeKeeps DEF WithinLimit
<1>3. x.at = gateTicks
  OBVIOUS
<1> HIDE DEF v, x
<1>4. Admitted(A) /\ WindowKept(v, A) /\ IsFiniteSet(A) /\ SpansKept(A) /\ v.from \in Nat /\ v.count \in Nat
  BY <1>1, <1>2 DEF KeyKept, Admitted, Windows
<1>5. Admitted(B)
  <2>1. IsFiniteSet(B)
    BY <1>4, FS_AddElement
  <2> QED BY <1>3, <1>4, <2>1 DEF Admitted
<1>6. Cardinality(Since(A, v.from)) + 1 <= v.count
  <2>1. CASE Lives(w)
    <3>1. WindowKept(w, A)
      BY <2>1 DEF KeyKept, Lives
    <3> QED BY <1>1, <1>4, <2>1, <3>1, WithinFinite DEF WindowKept, Windows
  <2>2. CASE ~Lives(w)
    <3>1. \A y \in A : ~(y.at >= v.from)
      BY <1>1, <1>4, <2>2 DEF Admitted
    <3>2. Since(A, v.from) = {}
      BY <3>1 DEF Since
    <3> QED BY <1>1, <2>2, <3>2, FS_EmptySet
  <2> QED BY <2>1, <2>2
<1>7. /\ Cardinality(Since(B, v.from)) <= Cardinality(Since(A, v.from)) + 1
      /\ Cardinality(Since(B, v.from)) \in Nat /\ Cardinality(Since(A, v.from)) \in Nat
      /\ IsFiniteSet(Since(B, v.from))
  <2>1. Since(B, v.from) \subseteq Since(A, v.from) \cup {x} /\ IsFiniteSet(Since(A, v.from))
    BY <1>4, WithinFinite DEF Since
  <2> QED BY <2>1, OneMore
<1>8. /\ Cardinality(Since(B, v.from)) <= v.count
      /\ Cardinality(Since(B, v.from)) <= RateLimit
  BY <1>2, <1>4, <1>6, <1>7, PolicyTyped
<1>9. Within(B, v.from - RateWindow, v.from) = Within(A, v.from - RateWindow, v.from)
  BY <1>1, <1>3, <1>4 DEF Within
<1>10. Expiring(v, B)
  BY <1>1, <1>3, <1>4 DEF Expiring, WindowKept
<1>11. SpansKept(B)
  <2> SUFFICES ASSUME NEW a \in Nat PROVE Cardinality(Within(B, a, a + RateWindow)) <= 2 * RateLimit
    BY DEF SpansKept
  <2>1. CASE gateTicks < a \/ gateTicks >= a + RateWindow
    <3>1. Within(B, a, a + RateWindow) = Within(A, a, a + RateWindow)
      BY <1>3, <2>1, PolicyTyped DEF Within
    <3> QED BY <1>4, <3>1 DEF SpansKept
  <2>2. CASE a <= gateTicks /\ gateTicks < a + RateWindow
    <3>1. Within(B, a, a + RateWindow)
            \subseteq Since(B, v.from) \cup Within(A, v.from - RateWindow, v.from)
      <4> SUFFICES ASSUME NEW y \in B, y.at >= a, y.at < v.from
                   PROVE  y \in A /\ y.at >= v.from - RateWindow
        BY <1>4, <1>5 DEF Within, Since, Admitted
      <4>1. y \in A
        BY <1>1, <1>3, <1>4
      <4> QED BY <1>1, <1>4, <2>2, <4>1, PolicyTyped DEF Admitted
    <3>2. IsFiniteSet(Within(A, v.from - RateWindow, v.from))
      BY <1>4, WithinFinite
    <3>3. /\ Cardinality(Within(B, a, a + RateWindow))
               <= Cardinality(Since(B, v.from)) + Cardinality(Within(A, v.from - RateWindow, v.from))
          /\ Cardinality(Within(B, a, a + RateWindow)) \in Nat
          /\ Cardinality(Within(A, v.from - RateWindow, v.from)) \in Nat
      BY <1>7, <3>1, <3>2, PartsAddUp
    <3>4. Cardinality(Within(A, v.from - RateWindow, v.from)) <= RateLimit
      BY <1>4 DEF WindowKept
    <3> QED BY <1>7, <1>8, <3>3, <3>4, PolicyTyped
  <2> QED BY <2>1, <2>2, PolicyTyped
<1>12. WindowKept(v, B)
  BY <1>1, <1>4, <1>8, <1>9, <1>10 DEF WindowKept
<1>13. KeyKept(v, B)
  BY <1>2, <1>5, <1>11, <1>12 DEF KeyKept
<1> QED BY <1>13 DEF v, x

(* The kept parts do not look at the clock but to bound what has happened.   *)
LEMMA TimeKeeps ==
  ASSUME NEW w, NEW A, NEW t, gateTicks \in Nat, gateTicks' \in Nat, gateTicks <= gateTicks'
  PROVE  /\ KeyKept(w, A) => KeyKept(w, A)'
         /\ RefusalKept(w, t) => RefusalKept(w, t)'
<1>1. Admitted(A) => Admitted(A)'
  BY DEF Admitted
<1>2. WindowKept(w, A) => WindowKept(w, A)'
  BY DEF WindowKept, Windows, Expiring
<1>3. SpansKept(A)' = SpansKept(A)
  BY DEF SpansKept
<1>4. RefusalKept(w, t) => RefusalKept(w, t)'
  BY DEF RefusalKept
<1> QED BY <1>1, <1>2, <1>3, <1>4 DEF KeyKept

(* The refusal given before outlives what the script does to its window.     *)
LEMMA TakeKeepsRefusal ==
  ASSUME NEW w, NEW A, NEW t, KeyKept(w, A), RefusalKept(w, t), gateTicks \in Nat
  PROVE  RefusalKept(TakeFixedWindow(w), t)
<1> DEFINE v == TakeFixedWindow(w)
<1>1. /\ v \in Windows /\ v.expires \in Nat
      /\ ~Lives(w) => v.from = gateTicks
      /\ Lives(w) => v.from = w.from /\ w \in Windows /\ (w.expires # None => v.expires = w.expires)
      /\ v # None
  BY TakenWindow, TakeKeeps
<1>2. ASSUME t # None, ~Lives(w), gateTicks <= t.at PROVE FALSE
  <2>1. w # None /\ w.expires # None /\ ~(gateTicks < w.expires) /\ WindowKept(w, A)
    BY <1>2 DEF Lives, RefusalKept, KeyKept
  <2>2. w.from <= gateTicks /\ w.from \in Nat /\ w.expires \in Nat
    BY <2>1 DEF WindowKept, Windows
  <2>3. t.at = gateTicks /\ t.at < w.expires
    BY <1>2, <2>1, <2>2 DEF RefusalKept
  <2> QED BY <2>1, <2>2, <2>3
<1> HIDE DEF v
<1>3. RefusalKept(v, t)
  <2> SUFFICES ASSUME t # None
               PROVE  /\ v # None /\ t.at \in Nat /\ t.until \in Nat /\ t.at <= gateTicks
                      /\ v.from <= t.at => v.expires # None /\ t.at < v.expires /\ v.expires <= t.until
    BY DEF RefusalKept
  <2>1. /\ w # None /\ t.at \in Nat /\ t.until \in Nat /\ t.at <= gateTicks
        /\ w.from <= t.at => w.expires # None /\ t.at < w.expires /\ w.expires <= t.until
    BY DEF RefusalKept
  <2>2. CASE Lives(w)
    BY <1>1, <2>1, <2>2
  <2>3. CASE ~Lives(w)
    BY <1>1, <1>2, <2>1, <2>3
  <2> QED BY <2>2, <2>3
<1> QED BY <1>3 DEF v

-----------------------------------------------------------------------------
LEMMA NoCallTyped == NoCall.pc = "idle" /\ NoCall \notin ServedRequests
<1>1. NoCall.pc = "idle"
  BY DEF NoCall
<1> QED BY <1>1 DEF ServedRequests

LEMMA RequestInitInv == ASSUME RequestInit PROVE RequestInv
<1>1. /\ gateTicks = 0 /\ windows = [k \in Keys |-> None] /\ requests = [i \in RequestSlots |-> NoCall]
      /\ admissions = [k \in Keys |-> {}] /\ told = [k \in Keys |-> None]
      /\ trail = [s \in KnownSubjects |-> 0] /\ granted = [s \in KnownSubjects |-> 0]
  BY DEF RequestInit, KnownSubjects
<1>2. deployment.mode = "production" => deployment.enabled
  <2>1. PICK env \in Environments : deployment = ReadKeycloakConfig(env) /\ deployment # None
    BY DEF RequestInit
  <2>2. /\ env.auth \/ env.mode = "test"
        /\ deployment = [mode |-> env.mode, enabled |-> env.auth]
    BY <2>1 DEF ReadKeycloakConfig
  <2> QED BY <2>2
<1>3. \A i \in RequestSlots : requests[i] = NoCall
  BY <1>1
<1>4. RequestSane
  BY <1>1, <1>2, <1>3, NoCallTyped, PolicyTyped DEF RequestSane
<1>5. GrantsAudited
  <2>1. \A s \in KnownSubjects : Granting(s) = {}
    BY <1>3, NoCallTyped DEF Granting
  <2> QED BY <1>1, <2>1, FS_EmptySet DEF GrantsAudited
<1>6. RolesExact
  BY <1>3, NoCallTyped DEF RolesExact
<1>7. \A k \in Keys : KeyKept(windows[k], admissions[k]) /\ RefusalKept(windows[k], told[k])
  <2>1. IsFiniteSet({}) /\ Cardinality({}) = 0
    BY FS_EmptySet
  <2>2. Admitted({})
    BY <2>1 DEF Admitted
  <2>3. SpansKept({})
    <3>1. \A a \in Nat : Within({}, a, a + RateWindow) = {}
      BY DEF Within
    <3> QED BY <2>1, <3>1, PolicyTyped DEF SpansKept
  <2>4. KeyKept(None, {}) /\ RefusalKept(None, None)
    BY <2>2, <2>3 DEF KeyKept, RefusalKept
  <2> QED BY <1>1, <2>4
<1> QED BY <1>4, <1>5, <1>6, <1>7 DEF RequestInv

(* The identity a token stands for has a subject of the realm.               *)
LEMMA AuthenticatedTyped ==
  ASSUME NEW token \in BearerTokens, NEW route, Authenticate(token, route) # None
  PROVE  /\ Authenticate(token, route) \in Identities
         /\ deployment.enabled /\ route # "live" => Authenticate(token, route).authenticated
<1>1. CASE ~deployment.enabled \/ route = "live"
  BY <1>1 DEF Authenticate, Identities
<1>2. CASE ~(~deployment.enabled \/ route = "live")
  <2>1. Authenticate(token, route) = IdentityFromPayload(token) /\ token.kind = "signed"
    BY <1>2 DEF Authenticate, Verify
  <2>2. token.sub \in Subjects \cup {None}
    BY <2>1 DEF BearerTokens
  <2>3. /\ token.sub \in Subjects
        /\ IdentityFromPayload(token)
             = [sub |-> token.sub, roles |-> token.roles \cap SentinelRoles, authenticated |-> TRUE]
    BY <2>1, <2>2 DEF IdentityFromPayload
  <2> QED BY <2>1, <2>3 DEF Identities
<1> QED BY <1>1, <1>2

(* What a served request has proved before a handler runs.                   *)
RoleHeld(c) ==
  deployment.mode = "production" /\ c.pc # "idle" =>
    /\ c.route \in Buckets => c.id.authenticated /\ "user" \in c.id.roles
    /\ c.route = "admin" => "platform_admin" \in c.id.roles
    /\ c.route \notin {"live", "unlisted"} => c.id.authenticated
    /\ c.route # "unlisted"

LEMMA RolesHeld == RolesExact <=> \A i \in RequestSlots : RoleHeld(requests[i])
  BY DEF RolesExact, RoleHeld

(* A request moves on, or a new one is served; its windows and the audit     *)
(* trail stay as they are.                                                   *)
LEMMA MoveStep ==
  ASSUME RequestInv, NEW i \in RequestSlots, NEW c \in {NoCall} \cup ServedRequests,
         requests' = [requests EXCEPT ![i] = c], c.pc # "grant",
         c.pc \in {"limit", "audit", "grant"} => c.route \in Buckets,
         RoleHeld(c), UNCHANGED <<gateTicks, deployment, trail, granted>>,
         DOMAIN windows' = Keys, DOMAIN admissions' = Keys, DOMAIN told' = Keys,
         \A k \in Keys : KeyKept(windows'[k], admissions'[k]) /\ RefusalKept(windows'[k], told'[k])
  PROVE  RequestInv'
<1>1. requests' \in [RequestSlots -> {NoCall} \cup ServedRequests] /\ requests'[i] = c
      /\ \A j \in RequestSlots \ {i} : requests'[j] = requests[j]
  BY DEF RequestInv, RequestSane
<1>2. RequestSane'
  BY <1>1 DEF RequestInv, RequestSane
<1>3. GrantsAudited'
  <2> SUFFICES ASSUME NEW s \in KnownSubjects
               PROVE  granted[s] + Cardinality(Granting(s)') <= trail[s]
    BY DEF GrantsAudited
  <2>1. Granting(s)' \subseteq Granting(s)
    BY <1>1 DEF Granting
  <2>2. IsFiniteSet(Granting(s))
    BY RequestAssumption, FS_Subset DEF Granting
  <2>3. /\ Cardinality(Granting(s)') <= Cardinality(Granting(s))
        /\ Cardinality(Granting(s)') \in Nat /\ Cardinality(Granting(s)) \in Nat
    BY <2>1, <2>2, PartSmaller
  <2>4. granted[s] + Cardinality(Granting(s)) <= trail[s] /\ granted[s] \in Nat /\ trail[s] \in Nat
    BY DEF RequestInv, RequestSane, GrantsAudited
  <2> QED BY <2>3, <2>4
<1>4. RolesExact'
  <2>1. \A j \in RequestSlots : RoleHeld(requests'[j])
    BY <1>1, RolesHeld DEF RequestInv
  <2>2. \A j \in RequestSlots : RoleHeld(requests[j])'
    BY <2>1 DEF RoleHeld
  <2> QED BY <2>2 DEF RolesExact, RoleHeld
<1>5. \A k \in Keys : KeyKept(windows[k], admissions[k])' /\ RefusalKept(windows[k], told[k])'
  BY DEF KeyKept, Admitted, SpansKept, WindowKept, Expiring, RefusalKept
<1> QED BY <1>2, <1>3, <1>4, <1>5 DEF RequestInv

LEMMA ServedMoves ==
  ASSUME NEW r \in ServedRequests, NEW pc \in {"read", "limit", "audit", "grant"}, RoleHeld(r),
         r.pc # "idle"
  PROVE  LET c == [r EXCEPT !.pc = pc] IN
         c \in ServedRequests /\ c.pc = pc /\ c.route = r.route /\ c.id = r.id /\ RoleHeld(c)
<1> DEFINE c == [r EXCEPT !.pc = pc]
<1>1. c \in ServedRequests /\ c.pc = pc /\ c.route = r.route /\ c.id = r.id
  BY DEF ServedRequests
<1>2. RoleHeld(c)
  <2> HIDE DEF c
  <2> QED BY <1>1 DEF RoleHeld
<1> QED BY <1>1, <1>2

LEMMA Served ==
  ASSUME RequestInv, NEW i \in RequestSlots, requests[i].pc # "idle"
  PROVE  /\ requests[i] \in ServedRequests /\ RoleHeld(requests[i])
         /\ requests[i].id.sub \in KnownSubjects
         /\ requests[i].pc \in {"limit", "audit", "grant"} =>
              <<requests[i].route, requests[i].id.sub>> \in Keys
<1>1. requests[i] \in ServedRequests /\ RoleHeld(requests[i])
  BY NoCallTyped, RolesHeld DEF RequestInv, RequestSane
<1>2. requests[i].id \in Identities
  BY <1>1 DEF ServedRequests
<1>3. requests[i].id.sub \in KnownSubjects
  <2> DEFINE id == requests[i].id
  <2>1. id = Anonymous \/ id \in [sub : Subjects, roles : SUBSET SentinelRoles, authenticated : {TRUE}]
    BY <1>2 DEF Identities
  <2>2. Anonymous.sub = "anonymous"
    BY DEF Anonymous
  <2> HIDE DEF id
  <2>3. id.sub \in KnownSubjects
    BY <2>1, <2>2 DEF KnownSubjects
  <2> QED BY <2>3 DEF id
<1> QED BY <1>1, <1>3 DEF RequestInv, RequestSane, Keys, KnownSubjects

LEMMA ClockTyped == ASSUME RequestSane PROVE gateTicks \in Nat
  BY PolicyTyped DEF RequestSane

LEMMA NoCallStep ==
  ASSUME RequestInv, NEW i \in RequestSlots, EndRequest(i),
         UNCHANGED <<gateTicks, deployment, trail, granted>>,
         DOMAIN windows' = Keys, DOMAIN admissions' = Keys, DOMAIN told' = Keys,
         \A k \in Keys : KeyKept(windows'[k], admissions'[k]) /\ RefusalKept(windows'[k], told'[k])
  PROVE  RequestInv'
<1>1. RoleHeld(NoCall) /\ NoCall.pc = "idle"
  BY NoCallTyped DEF RoleHeld
<1> QED BY <1>1, MoveStep DEF EndRequest

LEMMA ArriveStep ==
  ASSUME RequestInv, NEW i \in RequestSlots, NEW token \in BearerTokens, NEW route \in Routes,
         RequestArrives(i, token, route)
  PROVE  RequestInv'
<1> DEFINE id == Authenticate(token, route)
           pc == IF route \in Buckets THEN "limit" ELSE "read"
           c == [pc |-> pc, route |-> route, id |-> id]
<1>1. /\ id # None /\ Allowed(route) /\ Guard(id, route) /\ requests' = [requests EXCEPT ![i] = c]
      /\ UNCHANGED <<gateTicks, deployment, windows, admissions, told, trail, granted>>
  BY DEF RequestArrives
<1>2. id \in Identities /\ (deployment.enabled /\ route # "live" => id.authenticated)
  BY <1>1, AuthenticatedTyped
<1> HIDE DEF id
<1>3. c \in ServedRequests /\ c.pc = pc /\ c.route = route /\ c.id = id
  BY <1>2 DEF ServedRequests
<1>4. pc # "grant" /\ (pc \in {"limit", "audit", "grant"} => route \in Buckets)
  OBVIOUS
<1>5. deployment.mode = "production" => deployment.enabled
  BY DEF RequestInv, RequestSane
<1>6. RoleHeld(c)
  <2> SUFFICES ASSUME deployment.mode = "production"
               PROVE  /\ route \in Buckets => id.authenticated /\ "user" \in id.roles
                      /\ route = "admin" => "platform_admin" \in id.roles
                      /\ route \notin {"live", "unlisted"} => id.authenticated
                      /\ route # "unlisted"
    BY <1>3 DEF RoleHeld
  <2>1. route # "unlisted"
    BY <1>1 DEF Allowed
  <2>2. route # "live" => id.authenticated
    BY <1>2, <1>5
  <2>3. route \in Buckets => "user" \in id.roles
    BY <1>1, <2>2 DEF Guard, RequireRole, Buckets
  <2>4. route = "admin" => "platform_admin" \in id.roles
    BY <1>1, <2>2 DEF Guard, RequireRole, Buckets
  <2>5. "live" \notin Buckets
    BY DEF Buckets
  <2> QED BY <2>1, <2>2, <2>3, <2>4, <2>5
<1> HIDE DEF c, pc
<1> QED BY <1>1, <1>3, <1>4, <1>6, MoveStep DEF RequestInv, RequestSane

LEMMA EnforceStep ==
  ASSUME RequestInv, NEW i \in RequestSlots, EnforceRateLimit(i)
  PROVE  RequestInv'
<1> DEFINE r == requests[i]
           k == <<r.route, r.id.sub>>
           w == TakeFixedWindow(windows[k])
           production == deployment.mode = "production"
           allowed == production => WithinLimit(w.count)
<1>1. r.pc = "limit" /\ r \in ServedRequests /\ RoleHeld(r) /\ k \in Keys /\ r.route \in Buckets
      /\ UNCHANGED <<gateTicks, deployment, trail, granted>> /\ gateTicks \in Nat
  BY Served, ClockTyped DEF EnforceRateLimit, RequestInv, RequestSane
<1>2. DOMAIN windows = Keys /\ DOMAIN admissions = Keys /\ DOMAIN told = Keys
  BY DEF RequestInv, RequestSane
<1>3. /\ windows' = IF production THEN [windows EXCEPT ![k] = w] ELSE windows
      /\ IF allowed
         THEN /\ IF r.route = "consent" THEN MoveRequest(i, "audit") ELSE EndRequest(i)
              /\ admissions' = IF production THEN [admissions EXCEPT ![k] = @ \cup {Admission(k)}] ELSE admissions
              /\ told' = told
         ELSE /\ EndRequest(i)
              /\ told' = [told EXCEPT ![k] = [at |-> gateTicks,
                           until |-> gateTicks + RetryAfter(IF w.expires = None THEN 0 ELSE w.expires - gateTicks)]]
              /\ admissions' = admissions
  BY DEF EnforceRateLimit
<1>4. /\ KeyKept(windows[k], admissions[k]) /\ RefusalKept(windows[k], told[k])
      /\ \A j \in Keys : KeyKept(windows[j], admissions[j]) /\ RefusalKept(windows[j], told[j])
  BY <1>1 DEF RequestInv
<1>5. w # None /\ KeyKept(w, admissions[k]) /\ RefusalKept(w, told[k])
      /\ w.expires \in Nat /\ gateTicks < w.expires /\ w.from \in Nat
  BY <1>1, <1>4, TakeKeeps, TakeKeepsRefusal, TakenWindow DEF Windows
<1>6. WithinLimit(w.count) => KeyKept(w, admissions[k] \cup {Admission(k)})
  BY <1>1, <1>4, AdmitKeeps DEF Admission
<1> DEFINE refused == [at |-> gateTicks,
                       until |-> gateTicks + RetryAfter(IF w.expires = None THEN 0 ELSE w.expires - gateTicks)]
<1>7. RefusalKept(w, refused)
  <2> DEFINE ttl == w.expires - gateTicks
  <2>1. w.expires # None /\ ttl \in Nat /\ ttl >= 1
    BY <1>1, <1>5, RequestAssumption
  <2>2. RetryAfter(ttl) \in Nat /\ RetryAfter(ttl) >= ttl
    BY <2>1, RetryAfterCovers
  <2>3. refused.at = gateTicks /\ refused.until = gateTicks + RetryAfter(ttl)
    BY <2>1
  <2> HIDE DEF refused, w
  <2>4. gateTicks + RetryAfter(ttl) \in Nat /\ w.expires <= gateTicks + RetryAfter(ttl)
    <3>1. w.expires = gateTicks + ttl
      BY <1>1, <1>5
    <3> HIDE DEF ttl
    <3> QED BY <1>1, <2>1, <2>2, <3>1
  <2> QED BY <1>1, <1>5, <2>1, <2>3, <2>4 DEF RefusalKept
<1> HIDE DEF w, refused, k
<1>8. \A j \in Keys : KeyKept(windows'[j], admissions'[j]) /\ RefusalKept(windows'[j], told'[j])
  <2> SUFFICES ASSUME NEW j \in Keys
               PROVE  KeyKept(windows'[j], admissions'[j]) /\ RefusalKept(windows'[j], told'[j])
    OBVIOUS
  <2>0. KeyKept(windows[j], admissions[j]) /\ RefusalKept(windows[j], told[j])
    BY <1>4
  <2>1. CASE ~production
    <3>1. windows' = windows /\ admissions' = admissions /\ told' = told
      BY <1>3, <2>1
    <3> QED BY <2>0, <3>1
  <2>2. CASE production /\ WithinLimit(w.count)
    <3>1. /\ windows' = [windows EXCEPT ![k] = w] /\ told' = told
          /\ admissions' = [admissions EXCEPT ![k] = @ \cup {Admission(k)}]
      BY <1>3, <2>2
    <3>2. CASE j = k
      <4>1. windows'[j] = w /\ admissions'[j] = admissions[k] \cup {Admission(k)} /\ told'[j] = told[k]
        BY <1>1, <1>2, <3>1, <3>2
      <4> QED BY <1>5, <1>6, <2>2, <4>1
    <3>3. CASE j # k
      <4>1. windows'[j] = windows[j] /\ admissions'[j] = admissions[j] /\ told'[j] = told[j]
        BY <1>1, <1>2, <3>1, <3>3
      <4> QED BY <2>0, <4>1
    <3> QED BY <3>2, <3>3
  <2>3. CASE production /\ ~WithinLimit(w.count)
    <3>1. /\ windows' = [windows EXCEPT ![k] = w] /\ told' = [told EXCEPT ![k] = refused]
          /\ admissions' = admissions
      BY <1>3, <2>3 DEF refused
    <3>2. CASE j = k
      <4>1. windows'[j] = w /\ admissions'[j] = admissions[k] /\ told'[j] = refused
        BY <1>1, <1>2, <3>1, <3>2
      <4> QED BY <1>5, <1>7, <4>1
    <3>3. CASE j # k
      <4>1. windows'[j] = windows[j] /\ admissions'[j] = admissions[j] /\ told'[j] = told[j]
        BY <1>1, <1>2, <3>1, <3>3
      <4> QED BY <2>0, <4>1
    <3> QED BY <3>2, <3>3
  <2> QED BY <2>1, <2>2, <2>3
<1>9. DOMAIN windows' = Keys /\ DOMAIN admissions' = Keys /\ DOMAIN told' = Keys
  BY <1>2, <1>3
<1>10. EndRequest(i) \/ (r.route = "consent" /\ MoveRequest(i, "audit"))
  BY <1>3
<1>11. CASE EndRequest(i)
  BY <1>1, <1>8, <1>9, <1>11, NoCallStep
<1>12. CASE MoveRequest(i, "audit")
  <2> DEFINE c == [r EXCEPT !.pc = "audit"]
  <2>1. c \in ServedRequests /\ c.pc = "audit" /\ c.route = r.route /\ RoleHeld(c)
    BY <1>1, ServedMoves
  <2>2. requests' = [requests EXCEPT ![i] = c]
    BY <1>12 DEF MoveRequest, RequestInv, RequestSane
  <2> HIDE DEF c
  <2> QED BY <1>1, <1>8, <1>9, <2>1, <2>2, MoveStep
<1> QED BY <1>10, <1>11, <1>12

LEMMA EndSteps ==
  ASSUME RequestInv, NEW i \in RequestSlots, ServeRead(i) \/ RateLimiterFails(i) \/ RequestEnds(i)
  PROVE  RequestInv'
<1>1. CASE ServeRead(i) \/ RequestEnds(i)
  <2>1. EndRequest(i) /\ UNCHANGED <<gateTicks, deployment, windows, admissions, told, trail, granted>>
    BY <1>1 DEF ServeRead, RequestEnds, boundVars
  <2> QED BY <2>1, NoCallStep DEF RequestInv, RequestSane
<1>2. CASE RateLimiterFails(i)
  <2> DEFINE k == <<requests[i].route, requests[i].id.sub>>
             w == TakeFixedWindow(windows[k])
  <2>1. /\ requests[i].pc = "limit" /\ EndRequest(i)
        /\ UNCHANGED <<gateTicks, deployment, admissions, told, trail, granted>>
        /\ windows' \in {windows, [windows EXCEPT ![k] = w]}
    BY <1>2 DEF RateLimiterFails, RequestInv, RequestSane
  <2>2. k \in Keys /\ gateTicks \in Nat /\ DOMAIN windows = Keys /\ DOMAIN admissions = Keys
        /\ DOMAIN told = Keys
    BY <2>1, Served, ClockTyped DEF RequestInv, RequestSane
  <2>3. KeyKept(w, admissions[k]) /\ RefusalKept(w, told[k])
    BY <2>2, TakeKeeps, TakeKeepsRefusal DEF RequestInv
  <2> HIDE DEF w, k
  <2>4. DOMAIN windows' = Keys
    BY <2>1, <2>2
  <2>5. \A j \in Keys : windows'[j] = windows[j] \/ (j = k /\ windows'[j] = w)
    BY <2>1, <2>2
  <2>6. \A j \in Keys : KeyKept(windows'[j], admissions'[j]) /\ RefusalKept(windows'[j], told'[j])
    BY <2>1, <2>3, <2>5 DEF RequestInv
  <2> QED BY <2>1, <2>2, <2>4, <2>6, NoCallStep
<1> QED BY <1>1, <1>2

(* The audit log names the request before the grant is written.              *)
LEMMA AuditStep == ASSUME RequestInv, NEW i \in RequestSlots, AuditConsent(i) PROVE RequestInv'
<1> DEFINE r == requests[i]
           s == r.id.sub
           c == [r EXCEPT !.pc = "grant"]
<1>1. r.pc = "audit" /\ r \in ServedRequests /\ RoleHeld(r) /\ s \in KnownSubjects /\ r.route \in Buckets
      /\ UNCHANGED <<gateTicks, deployment, windows, admissions, told, granted>>
      /\ trail' = [trail EXCEPT ![s] = @ + 1]
  BY Served DEF AuditConsent, RequestInv, RequestSane
<1>2. c \in ServedRequests /\ c.pc = "grant" /\ c.route = r.route /\ c.id = r.id /\ RoleHeld(c)
  BY <1>1, ServedMoves
<1>3. requests' = [requests EXCEPT ![i] = c]
  BY DEF AuditConsent, MoveRequest, RequestInv, RequestSane
<1> HIDE DEF c
<1>4. requests' \in [RequestSlots -> {NoCall} \cup ServedRequests] /\ requests'[i] = c
      /\ \A j \in RequestSlots \ {i} : requests'[j] = requests[j]
  BY <1>2, <1>3 DEF RequestInv, RequestSane
<1>5. trail' \in [KnownSubjects -> Nat] /\ trail'[s] = trail[s] + 1
      /\ \A t \in KnownSubjects \ {s} : trail'[t] = trail[t]
  BY <1>1 DEF RequestInv, RequestSane
<1>6. RequestSane'
  BY <1>1, <1>2, <1>4, <1>5 DEF RequestInv, RequestSane
<1>7. GrantsAudited'
  <2> SUFFICES ASSUME NEW t \in KnownSubjects
               PROVE  granted[t] + Cardinality(Granting(t)') <= trail'[t]
    BY <1>1 DEF GrantsAudited
  <2>1. IsFiniteSet(Granting(t))
    BY RequestAssumption, FS_Subset DEF Granting
  <2>2. granted[t] + Cardinality(Granting(t)) <= trail[t] /\ granted[t] \in Nat /\ trail[t] \in Nat
    BY DEF RequestInv, RequestSane, GrantsAudited
  <2>3. CASE t = s
    <3>1. Granting(t)' \subseteq Granting(t) \cup {i}
      BY <1>4 DEF Granting
    <3>2. /\ Cardinality(Granting(t)') <= Cardinality(Granting(t)) + 1
          /\ Cardinality(Granting(t)') \in Nat /\ Cardinality(Granting(t)) \in Nat
      BY <2>1, <3>1, OneMore
    <3> QED BY <1>5, <2>2, <2>3, <3>2
  <2>4. CASE t # s
    <3>1. Granting(t)' \subseteq Granting(t)
      BY <1>2, <1>4, <2>4 DEF Granting
    <3>2. /\ Cardinality(Granting(t)') <= Cardinality(Granting(t))
          /\ Cardinality(Granting(t)') \in Nat /\ Cardinality(Granting(t)) \in Nat
      BY <2>1, <3>1, PartSmaller
    <3> QED BY <1>5, <2>2, <2>4, <3>2
  <2> QED BY <2>3, <2>4
<1>8. RolesExact'
  <2>1. \A j \in RequestSlots : RoleHeld(requests'[j])
    BY <1>2, <1>4, RolesHeld DEF RequestInv
  <2> QED BY <1>1, <2>1 DEF RolesExact, RoleHeld
<1>9. \A k \in Keys : KeyKept(windows[k], admissions[k])' /\ RefusalKept(windows[k], told[k])'
  BY <1>1 DEF RequestInv, KeyKept, Admitted, SpansKept, WindowKept, Expiring, RefusalKept
<1> QED BY <1>6, <1>7, <1>8, <1>9 DEF RequestInv

LEMMA GrantStep == ASSUME RequestInv, NEW i \in RequestSlots, GrantConsent(i) PROVE RequestInv'
<1> DEFINE s == requests[i].id.sub
<1>1. requests[i].pc = "grant" /\ s \in KnownSubjects
      /\ UNCHANGED <<gateTicks, deployment, windows, admissions, told, trail>>
      /\ granted' = [granted EXCEPT ![s] = @ + 1]
      /\ requests' = [requests EXCEPT ![i] = NoCall]
  BY Served DEF GrantConsent, EndRequest
<1>2. requests' \in [RequestSlots -> {NoCall} \cup ServedRequests] /\ requests'[i] = NoCall
      /\ \A j \in RequestSlots \ {i} : requests'[j] = requests[j]
  BY <1>1 DEF RequestInv, RequestSane
<1>3. granted' \in [KnownSubjects -> Nat] /\ granted'[s] = granted[s] + 1
      /\ \A t \in KnownSubjects \ {s} : granted'[t] = granted[t]
  BY <1>1 DEF RequestInv, RequestSane
<1>4. RequestSane'
  BY <1>1, <1>2, <1>3, NoCallTyped DEF RequestInv, RequestSane
<1>5. GrantsAudited'
  <2> SUFFICES ASSUME NEW t \in KnownSubjects
               PROVE  granted'[t] + Cardinality(Granting(t)') <= trail[t]
    BY <1>1 DEF GrantsAudited
  <2>1. IsFiniteSet(Granting(t)) /\ IsFiniteSet(Granting(t)')
    BY RequestAssumption, FS_Subset DEF Granting
  <2>2. granted[t] + Cardinality(Granting(t)) <= trail[t] /\ granted[t] \in Nat /\ trail[t] \in Nat
    BY DEF RequestInv, RequestSane, GrantsAudited
  <2>3. CASE t = s
    <3>1. i \in Granting(t) /\ Granting(t)' = Granting(t) \ {i}
      BY <1>1, <1>2, <2>3, NoCallTyped DEF Granting
    <3>2. Cardinality(Granting(t)') = Cardinality(Granting(t)) - 1
      BY <2>1, <3>1, FS_RemoveElement
    <3>3. Cardinality(Granting(t)) \in Nat
      BY <2>1, FS_CardinalityType
    <3> QED BY <1>3, <2>2, <2>3, <3>2, <3>3
  <2>4. CASE t # s
    <3>1. Granting(t)' \subseteq Granting(t)
      BY <1>2, <2>4, NoCallTyped DEF Granting
    <3>2. /\ Cardinality(Granting(t)') <= Cardinality(Granting(t))
          /\ Cardinality(Granting(t)') \in Nat /\ Cardinality(Granting(t)) \in Nat
      BY <2>1, <3>1, PartSmaller
    <3> QED BY <1>3, <2>2, <2>4, <3>2
  <2> QED BY <2>3, <2>4
<1>6. RolesExact'
  BY <1>1, <1>2, NoCallTyped DEF RequestInv, RolesExact
<1>7. \A k \in Keys : KeyKept(windows[k], admissions[k])' /\ RefusalKept(windows[k], told[k])'
  BY <1>1 DEF RequestInv, KeyKept, Admitted, SpansKept, WindowKept, Expiring, RefusalKept
<1> QED BY <1>4, <1>5, <1>6, <1>7 DEF RequestInv

(* Nothing but the clock or one key moves.                                   *)
LEMMA RequestsStand ==
  ASSUME RequestInv, UNCHANGED <<deployment, requests, trail, granted>>,
         gateTicks' \in 0 .. MaxGateTicks, DOMAIN windows' = Keys, DOMAIN admissions' = Keys,
         DOMAIN told' = Keys,
         \A k \in Keys : KeyKept(windows[k], admissions[k])' /\ RefusalKept(windows[k], told[k])'
  PROVE  RequestInv'
<1>1. RequestSane'
  BY DEF RequestInv, RequestSane
<1>2. GrantsAudited' /\ RolesExact'
  BY DEF RequestInv, GrantsAudited, Granting, RolesExact
<1> QED BY <1>1, <1>2 DEF RequestInv

LEMMA TickStep == ASSUME RequestInv, GateTick PROVE RequestInv'
<1>1. gateTicks' = gateTicks + 1 /\ gateTicks < MaxGateTicks
      /\ UNCHANGED <<deployment, windows, requests, admissions, told, trail, granted>>
  BY DEF GateTick
<1>2. gateTicks \in Nat /\ gateTicks' \in 0 .. MaxGateTicks /\ gateTicks <= gateTicks' /\ gateTicks' \in Nat
  BY <1>1, ClockTyped, PolicyTyped DEF RequestInv, RequestSane
<1>3. ASSUME NEW k \in Keys
      PROVE  KeyKept(windows[k], admissions[k])' /\ RefusalKept(windows[k], told[k])'
  <2>1. KeyKept(windows[k], admissions[k]) /\ RefusalKept(windows[k], told[k])
    BY DEF RequestInv
  <2>2. PICK w, A, t : w = windows[k] /\ A = admissions[k] /\ t = told[k]
    OBVIOUS
  <2>3. KeyKept(w, A)' /\ RefusalKept(w, t)'
    BY <1>2, <2>1, <2>2, TimeKeeps
  <2> QED BY <1>1, <2>2, <2>3
<1> QED BY <1>1, <1>2, <1>3, RequestsStand DEF RequestInv, RequestSane

LEMMA LoseTtlStep == ASSUME RequestInv, NEW k \in Keys, LoseTtl(k) PROVE RequestInv'
<1> DEFINE w == [windows[k] EXCEPT !.expires = None]
<1>1. /\ Lives(windows[k]) /\ windows' = [windows EXCEPT ![k].expires = None]
      /\ told' = [told EXCEPT ![k] = None]
      /\ UNCHANGED <<gateTicks, deployment, requests, admissions, trail, granted>>
  BY DEF LoseTtl
<1>2. KeyKept(windows[k], admissions[k]) /\ DOMAIN windows = Keys /\ DOMAIN told = Keys
      /\ DOMAIN admissions = Keys
  BY DEF RequestInv, RequestSane
<1>3. windows[k] \in Windows /\ WindowKept(windows[k], admissions[k])
  BY <1>1, <1>2 DEF Lives, KeyKept, WindowKept
<1>4. w \in Windows /\ w.expires = None /\ w.from = windows[k].from /\ w.count = windows[k].count
  BY <1>3 DEF Windows
<1>5. DOMAIN windows' = Keys /\ DOMAIN told' = Keys /\ windows'[k] = w /\ told'[k] = None
      /\ \A j \in Keys \ {k} : windows'[j] = windows[j] /\ told'[j] = told[j]
  BY <1>1, <1>2
<1> HIDE DEF w
<1>6. KeyKept(w, admissions[k])
  <2>1. WindowKept(w, admissions[k])
    BY <1>3, <1>4 DEF WindowKept, Expiring
  <2> QED BY <1>2, <1>4, <2>1, RequestAssumption DEF KeyKept
<1>7. RefusalKept(w, None)
  BY DEF RefusalKept
<1>8. \A j \in Keys : KeyKept(windows'[j], admissions[j]) /\ RefusalKept(windows'[j], told'[j])
  BY <1>5, <1>6, <1>7 DEF RequestInv
<1>9. \A j \in Keys : KeyKept(windows[j], admissions[j])' /\ RefusalKept(windows[j], told[j])'
  BY <1>1, <1>8 DEF KeyKept, Admitted, SpansKept, WindowKept, Expiring, RefusalKept
<1> QED BY <1>1, <1>2, <1>5, <1>9, RequestsStand DEF RequestInv, RequestSane

LEMMA RequestNextInv == ASSUME RequestInv, [RequestNext]_requestVars PROVE RequestInv'
<1>1. CASE UNCHANGED requestVars
  <2>1. UNCHANGED <<gateTicks, deployment, windows, requests, admissions, told, trail, granted>>
    BY <1>1 DEF requestVars, requestState
  <2>2. \A k \in Keys : KeyKept(windows[k], admissions[k])' /\ RefusalKept(windows[k], told[k])'
    BY <2>1 DEF RequestInv, KeyKept, Admitted, SpansKept, WindowKept, Expiring, RefusalKept
  <2> QED BY <2>1, <2>2, RequestsStand DEF RequestInv, RequestSane
<1>2. CASE RequestNext
  BY <1>2, ArriveStep, EnforceStep, EndSteps, AuditStep, GrantStep, TickStep, LoseTtlStep DEF RequestNext
<1> QED BY <1>1, <1>2

LEMMA RequestInvSound == ASSUME RequestInv PROVE RequestTypeOK /\ AdmissionSound
<1>1. RequestTypeOK
  <2>1. \A k \in Keys : windows[k] # None => windows[k].count \in Nat \ {0}
    BY DEF RequestInv, KeyKept, WindowKept, Windows
  <2>2. \A i \in RequestSlots : requests[i].pc \in {"idle", "read", "limit", "audit", "grant"}
    BY NoCallTyped DEF RequestInv, RequestSane, ServedRequests
  <2>3. ASSUME NEW s \in KnownSubjects PROVE trail[s] \in Nat /\ granted[s] \in 0 .. trail[s]
    <3>1. IsFiniteSet(Granting(s))
      BY RequestAssumption, FS_Subset DEF Granting
    <3>2. Cardinality(Granting(s)) \in Nat
      BY <3>1, FS_CardinalityType
    <3> QED BY <3>2 DEF RequestInv, RequestSane, GrantsAudited
  <2> QED BY <2>1, <2>2, <2>3 DEF RequestTypeOK, RequestInv, RequestSane
<1>2. WindowBound
  <2> SUFFICES ASSUME NEW k \in Keys, NEW a \in 0 .. gateTicks
               PROVE  AdmittedBetween(k, a, a + RateWindow - 1) <= 2 * RateLimit
    BY DEF WindowBound
  <2>1. a \in Nat /\ SpansKept(admissions[k]) /\ \A x \in admissions[k] : x.at \in Nat
    BY ClockTyped DEF RequestInv, KeyKept, Admitted
  <2>2. {x \in admissions[k] : x.at \in a .. a + RateWindow - 1} = Within(admissions[k], a, a + RateWindow)
    BY <2>1, PolicyTyped DEF Within
  <2> QED BY <2>1, <2>2 DEF AdmittedBetween, SpansKept
<1>3. RefusalsEnd
  <2> SUFFICES ASSUME NEW k \in Keys, told[k] # None, gateTicks >= told[k].until, Lives(windows[k])
               PROVE  windows[k].from > told[k].at
    BY DEF RefusalsEnd
  <2>1. RefusalKept(windows[k], told[k]) /\ windows[k] \in Windows /\ gateTicks \in Nat
    BY ClockTyped DEF RequestInv, KeyKept, WindowKept, Lives
  <2> QED BY <2>1 DEF RefusalKept, Lives, Windows
<1> QED BY <1>1, <1>2, <1>3 DEF AdmissionSound, RequestInv

(* For any subjects, replicas, limit, window, clock and failures: no span of  *)
(* a window's length admits more than twice the limit, a refused client that  *)
(* waits its Retry-After finds the window over, and production serves a       *)
(* request only to the role its route asks for.                               *)
THEOREM RequestsGuarded == RequestSpec => [](RequestTypeOK /\ AdmissionSound)
<1>1. RequestInit => RequestInv
  BY RequestInitInv
<1>2. RequestInv /\ [RequestNext]_requestVars => RequestInv'
  BY RequestNextInv
<1>3. RequestInv => RequestTypeOK /\ AdmissionSound
  BY RequestInvSound
<1> QED BY <1>1, <1>2, <1>3, PTL DEF RequestSpec

-----------------------------------------------------------------------------
(* The page that drives a connect. *)

Consents == PageConsents \cup {None}
BothRevoked == "session and consent revoked"
Notices == [says : {"nothing", "consent revoked", BothRevoked}, consent : Consents, session : Consents]
Pages == [phase : {"form", "login", "scanning", "done", "expired"}, consented : BOOLEAN,
          consent : Consents, session : Consents, windowOver : BOOLEAN, busy : BOOLEAN, notice : Notices]
Opening == {"grant", "connect", "undo"}
Handlers == [does : Opening \cup {"cancel", "cancelConsent", "scan", "revoke", "expire"},
             consent : Consents, session : Consents]

PageSane ==
  /\ ui \in Pages /\ pending \subseteq Handlers /\ overtaken \in BOOLEAN /\ calls \in 0 .. MaxCalls
  /\ grants \in [PageConsents -> {"none", "active", "revoked"}]
  /\ sessions \in [PageConsents -> {"none", "open", "ended", "handed"}]
  /\ ui.phase \in {"form", "expired"} => ui.session = None
  /\ ui.consent # None => grants[ui.consent] # "none"
  /\ ui.notice.says = BothRevoked => ui.notice.session # None

\* The handlers of buttons; the expiry of a window starts the other ones.
Workers == {h \in pending : h.does # "expire"}
OneWorker == IF ui.busy THEN \E h \in pending : Workers = {h} ELSE Workers = {}

\* Grants are given in order, one for each opening at most.
GrantsOrdered ==
  \E g \in 0 .. calls : /\ \A c \in PageConsents : grants[c] # "none" <=> c <= g
                        /\ \A h \in pending : h.does = "grant" => g < calls

(* What a handler closed over, against the page and the API of this moment.  *)
PageHandlerSane(h) ==
  /\ h.consent # None => grants[h.consent] # "none"
  /\ h.does \in Opening => ui.phase \in {"form", "expired"} /\ ui.notice.says # BothRevoked
  /\ h.does \in {"connect", "undo", "cancelConsent", "revoke", "expire"} => h.consent # None
  /\ h.does = "connect" => overtaken \/ ui.consent = h.consent
  /\ h.does \in {"cancel", "cancelConsent", "scan"} => h.session # None
  /\ h.does = "cancel" => overtaken \/ h.consent # None
  /\ h.does = "cancelConsent" => sessions[h.session] # "open"
  /\ h.does = "scan" => ui.phase = "scanning"
  /\ h.does = "revoke" => ui.phase = "done"
  /\ h.does = "expire" => overtaken \/ ui.phase \notin {"login", "scanning"} \/ ui.consent # h.consent

\* The consent of a new opening is not the one of a window that has ended.
OpeningFresh ==
  overtaken \/ \A g, h \in pending : g.does = "connect" /\ h.does = "expire" => g.consent # h.consent

PageInv ==
  /\ PageSane /\ OneWorker /\ GrantsOrdered /\ OpeningFresh /\ NoticeTrue /\ ConsentHeld
  /\ \A h \in pending : PageHandlerSane(h)

LEMMA PageInitInv == ASSUME PageInit PROVE PageInv
<1>1. NoNotice \in Notices /\ NoNotice.says = "nothing" /\ NoNotice.consent = None
  BY DEF NoNotice, Notices, Consents, BothRevoked
<1> DEFINE shown == [phase |-> "form", consented |-> FALSE, consent |-> None, session |-> None,
                    windowOver |-> FALSE, busy |-> FALSE, notice |-> NoNotice]
<1>2. /\ ui = shown /\ pending = {} /\ grants = [c \in PageConsents |-> "none"]
      /\ sessions = [c \in PageConsents |-> "none"] /\ overtaken = FALSE /\ calls = 0
  BY DEF PageInit, BoundsInit
<1>3. /\ ui.phase = "form" /\ ui.consent = None /\ ui.session = None /\ ui.busy = FALSE
      /\ ui.notice = NoNotice /\ ui \in Pages
  BY <1>1, <1>2 DEF Pages, Consents
<1>4. PageSane
  <2>1. 0 \in 0 .. MaxCalls
    BY BoundsAssumption
  <2>2. /\ grants \in [PageConsents -> {"none", "active", "revoked"}]
        /\ sessions \in [PageConsents -> {"none", "open", "ended", "handed"}]
    BY <1>2
  <2>3. pending \subseteq Handlers /\ overtaken \in BOOLEAN /\ calls \in 0 .. MaxCalls
    BY <1>2, <2>1
  <2> QED BY <1>1, <1>3, <2>2, <2>3 DEF PageSane, BothRevoked
<1>5. OneWorker /\ OpeningFresh
  BY <1>2, <1>3 DEF OneWorker, Workers, OpeningFresh
<1>6. GrantsOrdered
  BY <1>2 DEF GrantsOrdered, PageConsents
<1>7. NoticeTrue /\ ConsentHeld
  BY <1>1, <1>3 DEF NoticeTrue, ConsentHeld
<1> QED BY <1>2, <1>4, <1>5, <1>6, <1>7 DEF PageInv

(* A change of one or two fields of the page.                                *)
LEMMA ConsentTickStep == ASSUME PageInv, TickConsent \/ WindowEnds PROVE PageInv'
<1>1. /\ UNCHANGED <<pending, grants, sessions, overtaken, calls>>
      /\ ui' \in {[ui EXCEPT !.consented = TRUE], [ui EXCEPT !.windowOver = TRUE]}
      /\ ui \in Pages
  BY DEF TickConsent, WindowEnds, boundVars, PageInv, PageSane
<1>2. /\ ui' \in Pages /\ ui'.phase = ui.phase /\ ui'.consent = ui.consent /\ ui'.session = ui.session
      /\ ui'.busy = ui.busy /\ ui'.notice = ui.notice
  BY <1>1 DEF Pages
<1>3. PageSane' /\ OneWorker' /\ GrantsOrdered' /\ OpeningFresh'
  BY <1>1, <1>2 DEF PageInv, PageSane, OneWorker, Workers, GrantsOrdered, OpeningFresh
<1>4. NoticeTrue' /\ ConsentHeld' /\ \A h \in pending' : PageHandlerSane(h)'
  BY <1>1, <1>2 DEF PageInv, NoticeTrue, ConsentHeld, PageHandlerSane
<1> QED BY <1>3, <1>4 DEF PageInv

\* A button starts a handler h of its own.
LEMMA ButtonStarts ==
  ASSUME PageInv, NEW h \in Handlers, h.does # "expire", ~ui.busy, pending' = pending \cup {h}, ui'.busy
  PROVE  OneWorker'
<1>1. Workers = {}
  BY DEF PageInv, OneWorker
<1>2. Workers' = {h} /\ h \in pending'
  BY <1>1 DEF Workers
<1> QED BY <1>2 DEF OneWorker

LEMMA OpenStep == ASSUME PageInv, OpenSteel PROVE PageInv'
<1> DEFINE h == Handler("grant", None, None)
<1>1. /\ UNCHANGED <<grants, sessions, overtaken>> /\ calls < MaxCalls /\ calls' = calls + 1
      /\ ui.phase \in {"form", "expired"} /\ ~ui.busy
      /\ ui' = [ui EXCEPT !.busy = TRUE, !.notice = NoNotice] /\ pending' = pending \cup {h}
      /\ ui \in Pages
  BY DEF OpenSteel, Await, PageInv, PageSane
<1>2. h \in Handlers /\ h.does = "grant" /\ h.consent = None /\ h.session = None
  BY DEF Handler, Handlers, Opening, Consents
<1>3. NoNotice \in Notices /\ NoNotice.says = "nothing" /\ NoNotice.consent = None
  BY DEF NoNotice, Notices, Consents, BothRevoked
<1> HIDE DEF h
<1>4. /\ ui' \in Pages /\ ui'.phase = ui.phase /\ ui'.consent = ui.consent /\ ui'.session = ui.session
      /\ ui'.busy = TRUE /\ ui'.notice = NoNotice
  BY <1>1, <1>3 DEF Pages
<1>5. OneWorker'
  BY <1>1, <1>2, <1>4, ButtonStarts
<1>6a. calls' \in 0 .. MaxCalls
  BY <1>1, BoundsAssumption DEF PageInv, PageSane
<1>6. PageSane'
  BY <1>1, <1>2, <1>3, <1>4, <1>6a DEF PageInv, PageSane, BothRevoked
<1>7. OpeningFresh'
  BY <1>1, <1>2 DEF PageInv, OpeningFresh
<1>8. NoticeTrue' /\ ConsentHeld'
  BY <1>1, <1>3, <1>4 DEF PageInv, NoticeTrue, ConsentHeld
<1>9. GrantsOrdered'
  <2>1. PICK g \in 0 .. calls : \A c \in PageConsents : grants[c] # "none" <=> c <= g
    BY DEF PageInv, GrantsOrdered
  <2>2. calls \in Nat
    BY DEF PageInv, PageSane
  <2>3. g \in 0 .. calls' /\ g < calls'
    BY <1>1, <2>1, <2>2
  <2> QED BY <1>1, <2>1, <2>3 DEF GrantsOrdered
<1>10. PageHandlerSane(h)'
  BY <1>1, <1>2, <1>3, <1>4 DEF PageHandlerSane, Opening, BothRevoked
<1>11. \A k \in pending : PageHandlerSane(k)'
  BY <1>1, <1>3, <1>4 DEF PageInv, PageHandlerSane, BothRevoked
<1> QED BY <1>1, <1>5, <1>6, <1>7, <1>8, <1>9, <1>10, <1>11 DEF PageInv

\* The handler of a button is the only one of its kind.
LEMMA OneAwaits ==
  ASSUME PageInv, NEW h \in pending, h.does # "expire"
  PROVE  ui.busy = TRUE /\ Workers = {h} /\ \A k \in pending \ {h} : k.does = "expire"
<1>1. h \in Workers
  BY DEF Workers
<1>2. ui.busy = TRUE
  BY <1>1 DEF PageInv, PageSane, OneWorker, Pages
<1>3. Workers = {h}
  BY <1>1, <1>2 DEF PageInv, OneWorker
<1> QED BY <1>2, <1>3 DEF Workers

\* It ends, or goes on to another request.
LEMMA ButtonEnds ==
  ASSUME PageInv, NEW h \in pending, h.does # "expire", pending' = pending \ {h}, ui'.busy = FALSE
  PROVE  OneWorker'
<1>1. Workers' = {}
  BY OneAwaits DEF Workers
<1> QED BY <1>1 DEF OneWorker

LEMMA ButtonGoesOn ==
  ASSUME PageInv, NEW h \in pending, h.does # "expire", NEW k, k.does # "expire",
         pending' = (pending \ {h}) \cup {k}, ui'.busy = TRUE
  PROVE  OneWorker'
<1>1. Workers' = {k} /\ k \in pending'
  BY OneAwaits DEF Workers
<1> QED BY <1>1 DEF OneWorker

(* What every change of the grants keeps.                                    *)
GrantsKept ==
  /\ grants' \in [PageConsents -> {"none", "active", "revoked"}]
  /\ \A c \in PageConsents : /\ grants[c] # "none" <=> grants'[c] # "none"
                             /\ grants[c] = "revoked" => grants'[c] = "revoked"

LEMMA RevocationKeeps ==
  ASSUME PageInv, NEW c \in PageConsents, grants[c] # "none", grants' \in {grants, Revoked(c)}
  PROVE  GrantsKept /\ (grants' = Revoked(c) => grants'[c] = "revoked")
BY DEF PageInv, PageSane, GrantsKept, Revoked

LEMMA OrderKept ==
  ASSUME PageInv, GrantsKept, calls' = calls,
         \A h \in pending' : h.does = "grant" => h \in pending
  PROVE  GrantsOrdered'
<1>1. PICK g \in 0 .. calls : /\ \A c \in PageConsents : grants[c] # "none" <=> c <= g
                              /\ \A h \in pending : h.does = "grant" => g < calls
  BY DEF PageInv, GrantsOrdered
<1>2. \A c \in PageConsents : grants'[c] # "none" <=> c <= g
  BY <1>1 DEF GrantsKept
<1>3. \A h \in pending' : h.does = "grant" => g < calls'
  BY <1>1
<1> QED BY <1>1, <1>2, <1>3 DEF GrantsOrdered

\* The expiries that await their answer while a button's handler goes on.
LEMMA ExpiriesKept ==
  ASSUME PageInv, NEW k \in pending, k.does = "expire", overtaken' = overtaken,
         \A c \in PageConsents : grants[c] # "none" => grants'[c] # "none",
         \/ ui'.phase \notin {"login", "scanning"}
         \/ ui.phase \in {"login", "scanning"} /\ ui'.consent = ui.consent
  PROVE  PageHandlerSane(k)'
<1>1. PageHandlerSane(k) /\ k \in Handlers
  BY DEF PageInv, PageSane
<1>2. k.consent \in PageConsents
  BY <1>1 DEF PageHandlerSane, Handlers, Consents
<1> QED BY <1>1, <1>2 DEF PageHandlerSane, Opening

-----------------------------------------------------------------------------
(* The other buttons.                                                        *)
LEMMA CancelButtonStep == ASSUME PageInv, CancelAndRevoke PROVE PageInv'
<1>0. PICK h : h = Handler("cancel", ui.consent, ui.session)
  OBVIOUS
<1>1. /\ UNCHANGED <<grants, sessions, overtaken, calls>> /\ ui.phase = "login" /\ ui.session # None
      /\ ~ui.busy /\ ui' = [ui EXCEPT !.busy = TRUE, !.notice = NoNotice]
      /\ pending' = pending \cup {h} /\ ui \in Pages
  BY <1>0 DEF CancelAndRevoke, Await, boundVars, PageInv, PageSane
<1>2. /\ h \in Handlers /\ h.does = "cancel" /\ h.consent = ui.consent /\ h.session = ui.session
  BY <1>0, <1>1 DEF Handler, Handlers, Opening, Pages
<1>3. NoNotice \in Notices /\ NoNotice.says = "nothing" /\ NoNotice.consent = None
  BY DEF NoNotice, Notices, Consents, BothRevoked
<1>4. /\ ui' \in Pages /\ ui'.phase = ui.phase /\ ui'.consent = ui.consent /\ ui'.session = ui.session
      /\ ui'.busy = TRUE /\ ui'.notice = NoNotice
  BY <1>1, <1>3 DEF Pages
<1>5. OneWorker'
  BY <1>1, <1>2, <1>4, ButtonStarts
<1>6. PageSane'
  BY <1>1, <1>2, <1>3, <1>4 DEF PageInv, PageSane, BothRevoked
<1>7. OpeningFresh'
  BY <1>1, <1>2 DEF PageInv, OpeningFresh
<1>8. NoticeTrue' /\ ConsentHeld'
  BY <1>1, <1>3, <1>4 DEF PageInv, NoticeTrue, ConsentHeld
<1>9. GrantsOrdered'
  BY <1>1, <1>2, OrderKept DEF PageInv, PageSane, GrantsKept
<1>10. PageHandlerSane(h)'
  BY <1>1, <1>2, <1>4 DEF PageInv, PageSane, ConsentHeld, PageHandlerSane, Opening
<1>11. \A k \in pending : PageHandlerSane(k)'
  BY <1>1, <1>3, <1>4 DEF PageInv, PageHandlerSane, BothRevoked
<1> QED BY <1>1, <1>5, <1>6, <1>7, <1>8, <1>9, <1>10, <1>11 DEF PageInv

LEMMA ConfirmStep == ASSUME PageInv, ConfirmAndScan PROVE PageInv'
<1>0. PICK h : h = Handler("scan", ui.consent, ui.session)
  OBVIOUS
<1>1. /\ UNCHANGED <<grants, sessions, overtaken, calls>> /\ ui.phase = "login" /\ ui.session # None
      /\ ~ui.busy /\ ui' = [ui EXCEPT !.busy = TRUE, !.phase = "scanning"]
      /\ pending' = pending \cup {h} /\ ui \in Pages
  BY <1>0 DEF ConfirmAndScan, Await, boundVars, PageInv, PageSane
<1>2. /\ h \in Handlers /\ h.does = "scan" /\ h.consent = ui.consent /\ h.session = ui.session
  BY <1>0, <1>1 DEF Handler, Handlers, Opening, Pages
<1>4. /\ ui' \in Pages /\ ui'.phase = "scanning" /\ ui'.consent = ui.consent /\ ui'.session = ui.session
      /\ ui'.busy = TRUE /\ ui'.notice = ui.notice
  BY <1>1 DEF Pages
<1>5. OneWorker'
  BY <1>1, <1>2, <1>4, ButtonStarts
<1>6. PageSane'
  BY <1>1, <1>2, <1>4 DEF PageInv, PageSane
<1>7. OpeningFresh'
  BY <1>1, <1>2 DEF PageInv, OpeningFresh
<1>8. NoticeTrue' /\ ConsentHeld'
  BY <1>1, <1>4 DEF PageInv, NoticeTrue, ConsentHeld
<1>9. GrantsOrdered'
  BY <1>1, <1>2, OrderKept DEF PageInv, PageSane, GrantsKept
<1>10. PageHandlerSane(h)'
  BY <1>1, <1>2, <1>4 DEF PageInv, PageSane, PageHandlerSane, Opening
<1>11. \A k \in pending : k.does = "expire"
  BY <1>1 DEF PageInv, OneWorker, Workers
<1>12. \A k \in pending : PageHandlerSane(k)'
  BY <1>1, <1>4, <1>11, ExpiriesKept
<1> QED BY <1>1, <1>5, <1>6, <1>7, <1>8, <1>9, <1>10, <1>12 DEF PageInv

LEMMA RevokeButtonStep == ASSUME PageInv, RevokeAfterHandoff PROVE PageInv'
<1>0. PICK h : h = Handler("revoke", ui.consent, ui.session)
  OBVIOUS
<1>1. /\ UNCHANGED <<grants, sessions, overtaken, calls>> /\ ui.phase = "done" /\ ui.consent # None
      /\ ~ui.busy /\ ui' = [ui EXCEPT !.busy = TRUE]
      /\ pending' = pending \cup {h} /\ ui \in Pages
  BY <1>0 DEF RevokeAfterHandoff, Await, boundVars, PageInv, PageSane
<1>2. /\ h \in Handlers /\ h.does = "revoke" /\ h.consent = ui.consent /\ h.session = ui.session
  BY <1>0, <1>1 DEF Handler, Handlers, Opening, Pages
<1>4. /\ ui' \in Pages /\ ui'.phase = ui.phase /\ ui'.consent = ui.consent /\ ui'.session = ui.session
      /\ ui'.busy = TRUE /\ ui'.notice = ui.notice
  BY <1>1 DEF Pages
<1>5. OneWorker'
  BY <1>1, <1>2, <1>4, ButtonStarts
<1>6. PageSane'
  BY <1>1, <1>2, <1>4 DEF PageInv, PageSane
<1>7. OpeningFresh'
  BY <1>1, <1>2 DEF PageInv, OpeningFresh
<1>8. NoticeTrue' /\ ConsentHeld'
  BY <1>1, <1>4 DEF PageInv, NoticeTrue, ConsentHeld
<1>9. GrantsOrdered'
  BY <1>1, <1>2, OrderKept DEF PageInv, PageSane, GrantsKept
<1>10. PageHandlerSane(h)'
  BY <1>1, <1>2, <1>4 DEF PageInv, PageSane, PageHandlerSane, Opening
<1>11. \A k \in pending : PageHandlerSane(k)'
  BY <1>1, <1>4 DEF PageInv, PageHandlerSane
<1> QED BY <1>1, <1>5, <1>6, <1>7, <1>8, <1>9, <1>10, <1>11 DEF PageInv

\* The timer finds the window over on the login view.
LEMMA ExpireStep == ASSUME PageInv, Expire PROVE PageInv'
<1>0. PICK h : h = Handler("expire", ui.consent, ui.session)
  OBVIOUS
<1>1. /\ UNCHANGED <<grants, sessions, overtaken, calls>> /\ ui.phase = "login"
      /\ ui' = [ui EXCEPT !.phase = "expired", !.session = None, !.consented = FALSE]
      /\ \/ ui.consent # None /\ pending' = pending \cup {h}
         \/ pending' = pending
      /\ ui \in Pages
  BY <1>0 DEF Expire, Await, boundVars, PageInv, PageSane
<1>2. /\ h \in Handlers /\ h.does = "expire" /\ h.consent = ui.consent
  BY <1>0, <1>1 DEF Handler, Handlers, Opening, Pages
<1>4. /\ ui' \in Pages /\ ui'.phase = "expired" /\ ui'.consent = ui.consent /\ ui'.session = None
      /\ ui'.busy = ui.busy /\ ui'.notice = ui.notice
  BY <1>1 DEF Pages, Consents
<1>5. OneWorker'
  BY <1>1, <1>2, <1>4 DEF PageInv, OneWorker, Workers
<1>6. PageSane'
  BY <1>1, <1>2, <1>4 DEF PageInv, PageSane
<1>7. \A k \in pending : k.does \notin Opening \cup {"scan", "revoke"}
  BY <1>1 DEF PageInv, PageHandlerSane
<1>8. OpeningFresh'
  BY <1>1, <1>2, <1>7 DEF PageInv, OpeningFresh, Opening
<1>9. NoticeTrue' /\ ConsentHeld'
  BY <1>1, <1>4 DEF PageInv, NoticeTrue, ConsentHeld
<1>10. GrantsOrdered'
  BY <1>1, <1>2, OrderKept DEF PageInv, PageSane, GrantsKept
<1>11. h \in pending' => h \in pending \/ PageHandlerSane(h)'
  BY <1>1, <1>2, <1>4 DEF PageInv, PageSane, PageHandlerSane, Opening
<1>12. \A k \in pending : PageHandlerSane(k)'
  BY <1>1, <1>4, <1>7 DEF PageInv, PageHandlerSane, Opening
<1> QED BY <1>1, <1>5, <1>6, <1>8, <1>9, <1>10, <1>11, <1>12 DEF PageInv

-----------------------------------------------------------------------------
(* The answers.  The next grant is the one after those that were given.      *)
NextGrant == CHOOSE x \in PageConsents : grants[x] = "none" /\ \A y \in 1..x - 1 : grants[y] # "none"

LEMMA GrantIsNew ==
  ASSUME PageInv, NEW h \in pending, h.does = "grant"
  PROVE  /\ NextGrant \in PageConsents /\ grants[NextGrant] = "none"
         /\ \A given \in {grants, [grants EXCEPT ![NextGrant] = "active"]} :
              \E g \in 0 .. calls : \A c \in PageConsents : given[c] # "none" <=> c <= g
<1>1. PICK g \in 0 .. calls : /\ \A c \in PageConsents : grants[c] # "none" <=> c <= g
                              /\ g < calls
  BY DEF PageInv, GrantsOrdered
<1>2. calls \in 0 .. MaxCalls /\ MaxCalls \in Nat
  BY BoundsAssumption DEF PageInv, PageSane
<1>3. g + 1 \in PageConsents /\ g + 1 \in 0 .. calls
  BY <1>1, <1>2 DEF PageConsents
<1>4. grants[g + 1] = "none" /\ \A y \in 1 .. (g + 1) - 1 : grants[y] # "none"
  <2>1. ~(g + 1 <= g) /\ \A y \in 1 .. (g + 1) - 1 : y \in PageConsents /\ y <= g
    BY <1>1, <1>2, <1>3 DEF PageConsents
  <2> QED BY <1>1, <1>3, <2>1
<1>5. \A x \in PageConsents :
        grants[x] = "none" /\ (\A y \in 1 .. x - 1 : grants[y] # "none") => x = g + 1
  <2> SUFFICES ASSUME NEW x \in PageConsents, grants[x] = "none",
                      \A y \in 1 .. x - 1 : grants[y] # "none"
               PROVE  x = g + 1
    OBVIOUS
  <2>1. ~(x <= g)
    BY <1>1
  <2>2. g + 1 \notin 1 .. x - 1
    BY <1>4
  <2> QED BY <1>1, <1>2, <1>3, <2>1, <2>2 DEF PageConsents
<1>6. NextGrant = g + 1
  BY <1>3, <1>4, <1>5 DEF NextGrant
<1>7. \A c \in PageConsents : [grants EXCEPT ![g + 1] = "active"][c] # "none" <=> c <= g + 1
  <2> SUFFICES ASSUME NEW c \in PageConsents
               PROVE  [grants EXCEPT ![g + 1] = "active"][c] # "none" <=> c <= g + 1
    OBVIOUS
  <2>1. DOMAIN grants = PageConsents
    BY DEF PageInv, PageSane
  <2>2. CASE c = g + 1
    BY <2>1, <2>2, <1>3
  <2>3. CASE c # g + 1
    <3>1. [grants EXCEPT ![g + 1] = "active"][c] = grants[c]
      BY <2>1, <2>3
    <3>2. c <= g <=> c <= g + 1
      BY <1>1, <1>2, <2>3 DEF PageConsents
    <3> QED BY <1>1, <3>1, <3>2
  <2> QED BY <2>2, <2>3
<1> QED BY <1>1, <1>3, <1>4, <1>6, <1>7

LEMMA GrantAnswerStep ==
  ASSUME PageInv, NEW h \in pending, GrantAnswered(h)
  PROVE  PageInv'
<1>1. PICK c : c = NextGrant
  OBVIOUS
<1>2. /\ h.does = "grant" /\ UNCHANGED <<sessions, overtaken, calls>>
      /\ grants' \in {grants, [grants EXCEPT ![c] = "active"]}
      /\ \/ /\ grants' = [grants EXCEPT ![c] = "active"] /\ ui' = [ui EXCEPT !.consent = c]
            /\ pending' = (pending \ {h}) \cup {Handler("connect", c, None)}
         \/ /\ grants' = [grants EXCEPT ![c] = "active"] /\ ui' = ui
            /\ pending' = (pending \ {h}) \cup {Handler("undo", c, None)}
         \/ ui' = [ui EXCEPT !.phase = "form", !.busy = FALSE] /\ pending' = pending \ {h}
  BY <1>1 DEF GrantAnswered, NextGrant, GoOn, Ungranted
<1>3. /\ c \in PageConsents /\ c # None /\ grants[c] = "none"
      /\ \E g \in 0 .. calls : \A x \in PageConsents : grants'[x] # "none" <=> x <= g
  <2>1. c \in PageConsents /\ grants[c] = "none"
    BY <1>1, <1>2, GrantIsNew
  <2>2. \E g \in 0 .. calls : \A x \in PageConsents : grants'[x] # "none" <=> x <= g
    BY <1>1, <1>2, GrantIsNew
  <2>3. c # None
    BY <2>1, PageAssumption, BoundsAssumption DEF PageConsents
  <2> QED BY <2>1, <2>2, <2>3
<1>4. /\ PageSane /\ ui \in Pages /\ h \in Handlers /\ PageHandlerSane(h) /\ ui.busy = TRUE
      /\ \A k \in pending \ {h} : k.does = "expire"
  BY <1>2, OneAwaits DEF PageInv, PageSane
<1>5. ui.phase \in {"form", "expired"} /\ ui.session = None /\ ui.notice.says # BothRevoked
  BY <1>2, <1>4 DEF PageHandlerSane, Opening, PageSane
<1>6. /\ ui' \in Pages /\ ui'.phase \in {"form", "expired"} /\ ui'.session = None
      /\ ui'.consent \in {c, ui.consent} /\ (ui'.consent # ui.consent => grants'[c] = "active")
      /\ ui'.notice = ui.notice
  BY <1>2, <1>3, <1>4, <1>5 DEF Pages, Consents, PageSane
<1>7. /\ grants' \in [PageConsents -> {"none", "active", "revoked"}]
      /\ \A x \in PageConsents : grants[x] # "none" => grants'[x] = grants[x]
  BY <1>2, <1>3, <1>4 DEF PageSane
<1>8. GrantsOrdered'
  BY <1>2, <1>3, <1>4 DEF GrantsOrdered, Handler
<1>9. pending' \subseteq Handlers /\ OneWorker'
  <2>1. /\ \A d \in {"connect", "undo"} :
             Handler(d, c, None) \in Handlers /\ Handler(d, c, None).does # "expire"
    BY <1>3 DEF Handler, Handlers, Opening, Consents
  <2>2. CASE pending' = pending \ {h} /\ ui' = [ui EXCEPT !.phase = "form", !.busy = FALSE]
    <3>1. ui'.busy = FALSE
      BY <2>2, <1>4 DEF Pages
    <3> QED BY <2>2, <3>1, <1>2, <1>4, ButtonEnds DEF PageSane
  <2>3. CASE \E d \in {"connect", "undo"} : /\ pending' = (pending \ {h}) \cup {Handler(d, c, None)}
                                            /\ ui' \in {ui, [ui EXCEPT !.consent = c]}
    <3>1. ui'.busy = TRUE
      BY <2>3, <1>4 DEF Pages
    <3>2. PICK d \in {"connect", "undo"} : pending' = (pending \ {h}) \cup {Handler(d, c, None)}
      BY <2>3
    <3>3. PICK k : k = Handler(d, c, None)
      OBVIOUS
    <3>4. k.does # "expire" /\ k \in Handlers
      BY <2>1, <3>3
    <3> QED BY <3>1, <3>2, <3>3, <3>4, <1>2, <1>4, ButtonGoesOn DEF PageSane
  <2> QED BY <1>2, <2>2, <2>3
<1>10. PageSane'
  BY <1>2, <1>3, <1>4, <1>6, <1>7, <1>9 DEF PageSane, Pages, Consents
<1>11. NoticeTrue' /\ ConsentHeld'
  <2>1. ui.notice.consent \in PageConsents \cup {None}
    BY <1>4 DEF Pages, Notices, Consents
  <2>2. NoticeTrue'
    BY <1>2, <1>5, <1>6, <1>7, <2>1 DEF PageInv, NoticeTrue, BothRevoked
  <2>3. ConsentHeld'
    BY <1>5, <1>6 DEF ConsentHeld, BothRevoked
  <2> QED BY <2>2, <2>3
<1>12. \A k \in pending \ {h} : PageHandlerSane(k)'
  BY <1>2, <1>4, <1>6, <1>7, ExpiriesKept
<1>13. \A k \in pending' \ (pending \ {h}) :
         /\ PageHandlerSane(k)' /\ k.does # "expire" /\ (k.does = "connect" => k.consent = c)
  <2> SUFFICES ASSUME NEW d \in {"connect", "undo"}, NEW k, k = Handler(d, c, None),
                      grants' = [grants EXCEPT ![c] = "active"], d = "connect" => ui'.consent = c
               PROVE  PageHandlerSane(k)' /\ k.does # "expire" /\ (k.does = "connect" => k.consent = c)
    BY <1>2, <1>3, <1>4 DEF Pages, Consents
  <2>1. k.does = d /\ k.consent = c /\ k.session = None
    BY DEF Handler
  <2>2. grants'[c] = "active"
    BY <1>3, <1>4 DEF PageSane
  <2> QED BY <2>1, <2>2, <1>3, <1>5, <1>6 DEF PageHandlerSane, Opening
<1>14. \A k \in pending \ {h} : k.consent # c
  BY <1>3, <1>4 DEF PageInv, PageHandlerSane
<1>15. OpeningFresh'
  BY <1>2, <1>4, <1>13, <1>14 DEF OpeningFresh
<1> QED BY <1>8, <1>9, <1>10, <1>11, <1>12, <1>13, <1>15 DEF PageInv

LEMMA ConnectAnswerStep ==
  ASSUME PageInv, NEW h \in pending, ConnectAnswered(h)
  PROVE  PageInv'
<1>1. /\ h.does = "connect" /\ UNCHANGED <<grants, overtaken, calls>>
      /\ sessions' \in {sessions, [sessions EXCEPT ![h.consent] = "open"]}
      /\ \/ /\ ui' = [ui EXCEPT !.session = h.consent, !.windowOver = FALSE, !.phase = "login",
                                !.busy = FALSE]
            /\ pending' = pending \ {h}
         \/ /\ ui' = ui
            /\ pending' = (pending \ {h}) \cup {Handler("undo", h.consent, None)}
  BY DEF ConnectAnswered, GoOn
<1>2. /\ PageSane /\ ui \in Pages /\ h \in Handlers /\ PageHandlerSane(h) /\ ui.busy = TRUE
      /\ \A k \in pending \ {h} : k.does = "expire"
  BY <1>1, OneAwaits DEF PageInv, PageSane
<1>3. /\ ui.phase \in {"form", "expired"} /\ ui.session = None /\ ui.notice.says # BothRevoked
      /\ h.consent \in PageConsents /\ grants[h.consent] # "none"
      /\ overtaken \/ ui.consent = h.consent
  BY <1>1, <1>2 DEF PageHandlerSane, Opening, PageSane, Handlers, Consents
<1>4. sessions' \in [PageConsents -> {"none", "open", "ended", "handed"}]
  BY <1>1, <1>2, <1>3 DEF PageSane
<1>5. GrantsOrdered'
  BY <1>1, <1>2, OrderKept DEF PageInv, PageSane, GrantsKept, Handler
<1>6. CASE pending' = pending \ {h} /\ ui' = [ui EXCEPT !.session = h.consent, !.windowOver = FALSE,
                                                        !.phase = "login", !.busy = FALSE]
  <2>1. /\ ui' \in Pages /\ ui'.phase = "login" /\ ui'.consent = ui.consent
        /\ ui'.session = h.consent /\ ui'.busy = FALSE /\ ui'.notice = ui.notice
    BY <1>2, <1>3, <1>6 DEF Pages, Consents
  <2>2. PageSane' /\ OneWorker'
    BY <1>1, <1>2, <1>4, <1>6, <2>1, ButtonEnds DEF PageSane
  <2>3. NoticeTrue' /\ OpeningFresh'
    BY <1>1, <1>2, <1>3, <1>6, <2>1 DEF PageInv, NoticeTrue, OpeningFresh, BothRevoked
  <2>3b. h.consent # None
    BY <1>3, PageAssumption, BoundsAssumption DEF PageConsents
  <2>3c. ConsentHeld'
    BY <1>1, <1>3, <2>1, <2>3b DEF ConsentHeld, BothRevoked
  <2>4. \A k \in pending \ {h} : overtaken \/ k.consent # h.consent
    BY <1>1, <1>2 DEF PageInv, OpeningFresh
  <2>5. \A k \in pending \ {h} : PageHandlerSane(k)'
    BY <1>1, <1>2, <1>3, <2>1, <2>4 DEF PageInv, PageHandlerSane, Opening
  <2> QED BY <1>5, <1>6, <2>2, <2>3, <2>3c, <2>5 DEF PageInv
<1>7. CASE ui' = ui /\ pending' = (pending \ {h}) \cup {Handler("undo", h.consent, None)}
  <2>1. PICK k : k = Handler("undo", h.consent, None)
    OBVIOUS
  <2>2. k \in Handlers /\ k.does = "undo" /\ k.consent = h.consent /\ k.session = None
    BY <1>3, <2>1 DEF Handler, Handlers, Opening, Consents
  <2>3. PageSane' /\ OneWorker'
    BY <1>1, <1>2, <1>4, <1>7, <2>1, <2>2, ButtonGoesOn DEF PageSane
  <2>4. NoticeTrue' /\ ConsentHeld' /\ OpeningFresh'
    BY <1>1, <1>2, <1>3, <1>7, <2>1, <2>2
       DEF PageInv, NoticeTrue, ConsentHeld, OpeningFresh, BothRevoked
  <2>5. \A x \in pending \ {h} : PageHandlerSane(x)'
    BY <1>1, <1>2, <1>3, <1>7, ExpiriesKept
  <2>6. PageHandlerSane(k)'
    BY <1>1, <1>3, <1>7, <2>2, PageAssumption DEF PageHandlerSane, Opening, PageConsents
  <2> QED BY <1>5, <1>7, <2>1, <2>3, <2>4, <2>5, <2>6 DEF PageInv
<1> QED BY <1>1, <1>6, <1>7

LEMMA UndoStep ==
  ASSUME PageInv, NEW h \in pending, UndoAnswered(h)
  PROVE  PageInv'
<1>1. /\ h.does = "undo" /\ UNCHANGED <<overtaken, calls>> /\ pending' = pending \ {h}
      /\ grants' \in {grants, Revoked(h.consent)} /\ sessions' \in Cleaned(h.consent)
      /\ ui' \in {[ui EXCEPT !.consent = None, !.phase = "form", !.busy = FALSE],
                  [ui EXCEPT !.phase = "form", !.busy = FALSE]}
  BY DEF UndoAnswered, GoOn, Cleaned
<1>2. /\ PageSane /\ ui \in Pages /\ h \in Handlers /\ PageHandlerSane(h) /\ ui.busy = TRUE
      /\ \A k \in pending \ {h} : k.does = "expire"
  BY <1>1, OneAwaits DEF PageInv, PageSane
<1>3. /\ ui.session = None /\ ui.notice.says # BothRevoked
      /\ h.consent \in PageConsents /\ grants[h.consent] # "none"
  BY <1>1, <1>2 DEF PageHandlerSane, Opening, PageSane, Handlers, Consents
<1>4. sessions' \in [PageConsents -> {"none", "open", "ended", "handed"}]
  BY <1>1, <1>2, <1>3 DEF PageSane, Cleaned
<1>5. GrantsKept
  BY <1>1, <1>3, RevocationKeeps
<1>6. /\ ui' \in Pages /\ ui'.phase = "form" /\ ui'.consent \in {None, ui.consent}
      /\ ui'.session = None /\ ui'.busy = FALSE /\ ui'.notice = ui.notice
  BY <1>1, <1>2, <1>3 DEF Pages, Consents
<1>7. PageSane' /\ OneWorker' /\ GrantsOrdered' /\ OpeningFresh'
  <2>1. OneWorker' /\ GrantsOrdered' /\ OpeningFresh'
    BY <1>1, <1>5, <1>6, ButtonEnds, OrderKept DEF PageInv, OpeningFresh
  <2>2. ui'.consent # None => grants'[ui'.consent] # "none"
    BY <1>2, <1>5, <1>6 DEF PageSane, GrantsKept, Pages, Consents
  <2> QED BY <1>1, <1>2, <1>3, <1>4, <1>5, <1>6, <2>1, <2>2 DEF PageSane, GrantsKept
<1>8. NoticeTrue' /\ ConsentHeld'
  <2>1. ui.notice.consent \in PageConsents \cup {None}
    BY <1>2 DEF Pages, Notices, Consents
  <2>2. NoticeTrue'
    BY <1>3, <1>5, <1>6, <2>1 DEF PageInv, NoticeTrue, BothRevoked, GrantsKept
  <2>3. ConsentHeld'
    BY <1>3, <1>6 DEF ConsentHeld, BothRevoked
  <2> QED BY <2>2, <2>3
<1>9. \A k \in pending \ {h} : PageHandlerSane(k)'
  BY <1>1, <1>2, <1>5, <1>6, ExpiriesKept DEF GrantsKept
<1> QED BY <1>1, <1>7, <1>8, <1>9 DEF PageInv

\* The session first ...
LEMMA CancelStep ==
  ASSUME PageInv, NEW h \in pending, CancelAnswered(h)
  PROVE  PageInv'
<1>1. /\ h.does = "cancel" /\ UNCHANGED <<grants, overtaken, calls>>
      /\ sessions' \in {sessions, [sessions EXCEPT ![h.session] = "ended"]}
      /\ \/ /\ h.consent = None /\ ui' = Cancelled(h) /\ pending' = pending \ {h}
            /\ sessions' = [sessions EXCEPT ![h.session] = "ended"]
         \/ /\ h.consent # None /\ ui' = ui
            /\ sessions' = [sessions EXCEPT ![h.session] = "ended"]
            /\ pending' = (pending \ {h}) \cup {Handler("cancelConsent", h.consent, h.session)}
         \/ ui' = [ui EXCEPT !.busy = FALSE] /\ pending' = pending \ {h}
  BY DEF CancelAnswered, GoOn
<1>2. /\ PageSane /\ ui \in Pages /\ h \in Handlers /\ PageHandlerSane(h) /\ ui.busy = TRUE
      /\ \A k \in pending \ {h} : k.does = "expire"
  BY <1>1, OneAwaits DEF PageInv, PageSane
<1>3. h.session \in PageConsents /\ h.session # None /\ h.consent \in Consents
  BY <1>1, <1>2 DEF PageHandlerSane, Handlers, Consents
<1>4. /\ sessions' \in [PageConsents -> {"none", "open", "ended", "handed"}]
      /\ sessions' = [sessions EXCEPT ![h.session] = "ended"] => sessions'[h.session] # "open"
      /\ \A s \in PageConsents : sessions[s] # "open" => sessions'[s] # "open"
  BY <1>1, <1>2, <1>3 DEF PageSane
<1>5. GrantsOrdered'
  BY <1>1, <1>2, OrderKept DEF PageInv, PageSane, GrantsKept, Handler
<1>6. ui.notice.says = BothRevoked => ui.notice.session \in PageConsents
  BY <1>2 DEF PageSane, Pages, Notices, Consents
<1>7. CASE h.consent = None /\ ui' = Cancelled(h) /\ pending' = pending \ {h}
           /\ sessions'[h.session] # "open"
  <2> DEFINE report == [says |-> BothRevoked, consent |-> None, session |-> h.session]
  <2>1. /\ ui'.phase = "form" /\ ui'.consent = None /\ ui'.session = None /\ ui'.busy = FALSE
        /\ ui'.notice = report
    BY <1>2, <1>7 DEF Cancelled, Pages, BothRevoked
  <2>2. /\ report \in Notices /\ report.says = BothRevoked /\ report.consent = None
        /\ report.session = h.session
    BY <1>3 DEF Notices, Consents
  <2>3. ui' \in Pages
    BY <1>2, <1>7, <2>2 DEF Cancelled, Pages, Consents, BothRevoked
  <2> HIDE DEF report
  <2>4a. OneWorker'
    BY <1>1, <1>7, <2>1, ButtonEnds
  <2>4. PageSane' /\ OneWorker'
    BY <1>1, <1>2, <1>3, <1>4, <1>7, <2>1, <2>2, <2>3, <2>4a DEF PageSane
  <2>5. NoticeTrue' /\ ConsentHeld' /\ OpeningFresh'
    BY <1>1, <1>2, <1>7, <2>1, <2>2
       DEF PageInv, PageHandlerSane, NoticeTrue, ConsentHeld, OpeningFresh
  <2>6. \A k \in pending \ {h} : PageHandlerSane(k)'
    BY <1>1, <1>2, <2>1, ExpiriesKept
  <2> QED BY <1>5, <1>7, <2>4, <2>5, <2>6 DEF PageInv
<1>8. CASE /\ h.consent # None /\ ui' = ui /\ sessions'[h.session] # "open"
           /\ pending' = (pending \ {h}) \cup {Handler("cancelConsent", h.consent, h.session)}
  <2>1. PICK k : k = Handler("cancelConsent", h.consent, h.session)
    OBVIOUS
  <2>2. k \in Handlers /\ k.does = "cancelConsent" /\ k.consent = h.consent /\ k.session = h.session
    BY <1>3, <2>1 DEF Handler, Handlers, Opening, Consents
  <2>3. PageSane' /\ OneWorker'
    BY <1>1, <1>2, <1>4, <1>8, <2>1, <2>2, ButtonGoesOn DEF PageSane
  <2>4. NoticeTrue' /\ ConsentHeld' /\ OpeningFresh'
    BY <1>1, <1>2, <1>4, <1>6, <1>8, <2>1, <2>2
       DEF PageInv, NoticeTrue, ConsentHeld, OpeningFresh, BothRevoked
  <2>5. \A x \in pending \ {h} : PageHandlerSane(x)'
    BY <1>1, <1>2, <1>8 DEF PageInv, PageHandlerSane, Opening
  <2>6. PageHandlerSane(k)'
    BY <1>1, <1>2, <1>3, <1>8, <2>2 DEF PageHandlerSane, Opening
  <2> QED BY <1>5, <1>8, <2>1, <2>3, <2>4, <2>5, <2>6 DEF PageInv
<1>9. CASE ui' = [ui EXCEPT !.busy = FALSE] /\ pending' = pending \ {h}
  <2>1. /\ ui' \in Pages /\ ui'.phase = ui.phase /\ ui'.consent = ui.consent
        /\ ui'.session = ui.session /\ ui'.busy = FALSE /\ ui'.notice = ui.notice
    BY <1>2, <1>9 DEF Pages
  <2>2. PageSane' /\ OneWorker'
    BY <1>1, <1>2, <1>4, <1>9, <2>1, ButtonEnds DEF PageSane
  <2>3. NoticeTrue' /\ ConsentHeld' /\ OpeningFresh'
    BY <1>1, <1>2, <1>4, <1>6, <1>9, <2>1
       DEF PageInv, NoticeTrue, ConsentHeld, OpeningFresh, BothRevoked
  <2>4. \A k \in pending \ {h} : PageHandlerSane(k)'
    BY <1>1, <1>2, <2>1 DEF PageInv, PageHandlerSane, Opening
  <2> QED BY <1>5, <1>9, <2>2, <2>3, <2>4 DEF PageInv
<1> QED BY <1>1, <1>4, <1>7, <1>8, <1>9

\* ... then the consent.
LEMMA CancelConsentStep ==
  ASSUME PageInv, NEW h \in pending, CancelConsentAnswered(h)
  PROVE  PageInv'
<1>1. /\ h.does = "cancelConsent" /\ UNCHANGED <<sessions, overtaken, calls>>
      /\ pending' = pending \ {h} /\ grants' \in {grants, Revoked(h.consent)}
      /\ \/ grants' = Revoked(h.consent) /\ ui' = Cancelled(h)
         \/ ui' = [ui EXCEPT !.session = None, !.phase = "form", !.busy = FALSE]
  BY DEF CancelConsentAnswered, GoOn
<1>2. /\ PageSane /\ ui \in Pages /\ h \in Handlers /\ PageHandlerSane(h) /\ ui.busy = TRUE
      /\ \A k \in pending \ {h} : k.does = "expire"
  BY <1>1, OneAwaits DEF PageInv, PageSane
<1>3. /\ h.session \in PageConsents /\ h.session # None /\ sessions[h.session] # "open"
      /\ h.consent \in PageConsents /\ h.consent # None /\ grants[h.consent] # "none"
  BY <1>1, <1>2 DEF PageHandlerSane, Handlers, Consents
<1>4. GrantsKept /\ (grants' = Revoked(h.consent) => grants'[h.consent] = "revoked")
  BY <1>1, <1>3, RevocationKeeps
<1> DEFINE report == [says |-> BothRevoked, consent |-> h.consent, session |-> h.session]
<1>5. report \in Notices /\ report.says = BothRevoked /\ report.consent = h.consent /\ report.session = h.session
  BY <1>3 DEF Notices, Consents
<1>6. /\ ui' \in Pages /\ ui'.phase = "form" /\ ui'.session = None /\ ui'.busy = FALSE
      /\ \/ ui'.consent = None /\ ui'.notice = report /\ grants'[h.consent] = "revoked"
         \/ ui'.consent = ui.consent /\ ui'.notice = ui.notice
  <2>1. CASE grants' = Revoked(h.consent) /\ ui' = Cancelled(h)
    BY <1>2, <1>4, <1>5, <2>1 DEF Cancelled, Pages, Consents, BothRevoked
  <2>2. CASE ui' = [ui EXCEPT !.session = None, !.phase = "form", !.busy = FALSE]
    BY <1>2, <2>2 DEF Pages, Consents
  <2> QED BY <1>1, <2>1, <2>2
<1> HIDE DEF report
<1>7. PageSane' /\ OneWorker' /\ GrantsOrdered' /\ OpeningFresh'
  <2>1. OneWorker' /\ GrantsOrdered' /\ OpeningFresh'
    BY <1>1, <1>4, <1>6, ButtonEnds, OrderKept DEF PageInv, OpeningFresh
  <2>2. ui'.consent # None => grants'[ui'.consent] # "none"
    BY <1>2, <1>4, <1>6 DEF PageSane, GrantsKept, Pages, Consents
  <2>3. ui'.notice.says = BothRevoked => ui'.notice.session # None
    BY <1>2, <1>3, <1>5, <1>6 DEF PageSane
  <2> QED BY <1>1, <1>2, <1>4, <1>6, <2>1, <2>2, <2>3 DEF PageSane, GrantsKept
<1>8. NoticeTrue' /\ ConsentHeld'
  <2>1. ui.notice.consent \in PageConsents \cup {None}
    BY <1>2 DEF Pages, Notices, Consents
  <2>2. NoticeTrue'
    <3>1. CASE ui'.notice = report /\ grants'[h.consent] = "revoked"
      BY <1>1, <1>3, <1>5, <3>1 DEF NoticeTrue
    <3>2. CASE ui'.notice = ui.notice
      BY <1>1, <1>4, <2>1, <3>2 DEF PageInv, NoticeTrue, GrantsKept
    <3> QED BY <1>6, <3>1, <3>2
  <2>3. ConsentHeld'
    BY <1>1, <1>3, <1>5, <1>6 DEF PageInv, ConsentHeld
  <2> QED BY <2>2, <2>3
<1>9. \A k \in pending \ {h} : PageHandlerSane(k)'
  BY <1>1, <1>2, <1>4, <1>6, ExpiriesKept DEF GrantsKept
<1> QED BY <1>1, <1>7, <1>8, <1>9 DEF PageInv

LEMMA ScanStep ==
  ASSUME PageInv, NEW h \in pending, ScanAnswered(h)
  PROVE  PageInv'
<1>1. /\ h.does = "scan" /\ UNCHANGED <<grants, overtaken, calls>> /\ pending' = pending \ {h}
      /\ sessions' \in {sessions, [sessions EXCEPT ![h.session] = "handed"]}
      /\ ui' \in {[ui EXCEPT !.phase = "done", !.busy = FALSE], [ui EXCEPT !.phase = "login", !.busy = FALSE]}
  BY DEF ScanAnswered, GoOn
<1>2. /\ PageSane /\ ui \in Pages /\ h \in Handlers /\ PageHandlerSane(h) /\ ui.busy = TRUE
      /\ \A k \in pending \ {h} : k.does = "expire"
  BY <1>1, OneAwaits DEF PageInv, PageSane
<1>3. ui.phase = "scanning" /\ h.session \in PageConsents
  BY <1>1, <1>2 DEF PageHandlerSane, Handlers, Consents
<1>4. /\ sessions' \in [PageConsents -> {"none", "open", "ended", "handed"}]
      /\ \A s \in PageConsents : sessions[s] # "open" => sessions'[s] # "open"
  BY <1>1, <1>2, <1>3 DEF PageSane
<1>5. /\ ui' \in Pages /\ ui'.phase \in {"done", "login"} /\ ui'.consent = ui.consent
      /\ ui'.session = ui.session /\ ui'.busy = FALSE /\ ui'.notice = ui.notice
  BY <1>1, <1>2 DEF Pages
<1>6. ui.notice.says = BothRevoked => ui.notice.session \in PageConsents
  BY <1>2 DEF PageSane, Pages, Notices, Consents
<1>7. PageSane' /\ OneWorker' /\ GrantsOrdered' /\ OpeningFresh'
  <2>1. OneWorker' /\ OpeningFresh'
    BY <1>1, <1>5, ButtonEnds DEF PageInv, OpeningFresh
  <2>2. GrantsOrdered'
    BY <1>1, <1>2, OrderKept DEF PageInv, PageSane, GrantsKept
  <2> QED BY <1>1, <1>2, <1>4, <1>5, <2>1, <2>2 DEF PageSane
<1>8. NoticeTrue' /\ ConsentHeld'
  BY <1>1, <1>3, <1>4, <1>5, <1>6 DEF PageInv, NoticeTrue, ConsentHeld, BothRevoked
<1>9. \A k \in pending \ {h} : PageHandlerSane(k)'
  BY <1>1, <1>2, <1>3, <1>5, ExpiriesKept
<1> QED BY <1>1, <1>7, <1>8, <1>9 DEF PageInv

\* The revocation of a button, or of a window that ended.
LEMMA RevokeStep ==
  ASSUME PageInv, NEW h \in pending, RevokeAnswered(h)
  PROVE  PageInv'
<1> DEFINE report == [says |-> "consent revoked", consent |-> h.consent, session |-> None]
<1>1. /\ h.does \in {"revoke", "expire"} /\ calls' = calls /\ pending' = pending \ {h}
      /\ grants' \in {grants, Revoked(h.consent)} /\ sessions' \in Cleaned(h.consent)
      /\ \/ /\ ui' = ConsentGone(h) /\ grants' = Revoked(h.consent)
            /\ overtaken' = (overtaken \/ ui.consent \notin {None, h.consent})
         \/ /\ ui' = (IF h.does = "revoke" THEN [ui EXCEPT !.busy = FALSE] ELSE ui)
            /\ overtaken' = overtaken
  BY DEF RevokeAnswered, GoOn, Cleaned
<1>2. PageSane /\ ui \in Pages /\ h \in Handlers /\ PageHandlerSane(h)
  BY <1>1 DEF PageInv, PageSane
<1>3. h.consent \in PageConsents /\ h.consent # None /\ grants[h.consent] # "none"
  BY <1>1, <1>2 DEF PageHandlerSane, Handlers, Consents
<1>4. GrantsKept /\ (grants' = Revoked(h.consent) => grants'[h.consent] = "revoked")
  BY <1>1, <1>3, RevocationKeeps
<1>5. /\ sessions' \in [PageConsents -> {"none", "open", "ended", "handed"}]
      /\ \A s \in PageConsents : sessions[s] # "open" => sessions'[s] # "open"
  BY <1>1, <1>2, <1>3 DEF PageSane, Cleaned
<1>6. report \in Notices /\ report.says # BothRevoked /\ report.consent = h.consent
  BY <1>3 DEF Notices, Consents, BothRevoked
<1>7. /\ ui' \in Pages /\ ui'.phase = ui.phase /\ ui'.session = ui.session
      /\ ui'.busy = IF h.does = "revoke" THEN FALSE ELSE ui.busy
      /\ \/ /\ ui'.consent = None /\ ui'.notice = report /\ grants'[h.consent] = "revoked"
            /\ overtaken' = (overtaken \/ ui.consent \notin {None, h.consent})
         \/ ui'.consent = ui.consent /\ ui'.notice = ui.notice /\ overtaken' = overtaken
  <2>1. CASE ui' = ConsentGone(h) /\ grants' = Revoked(h.consent)
             /\ overtaken' = (overtaken \/ ui.consent \notin {None, h.consent})
    BY <1>2, <1>4, <1>6, <2>1 DEF ConsentGone, Pages, Consents
  <2>2. CASE ui' = (IF h.does = "revoke" THEN [ui EXCEPT !.busy = FALSE] ELSE ui)
             /\ overtaken' = overtaken
    BY <1>2, <2>2 DEF Pages
  <2> QED BY <1>1, <2>1, <2>2
<1> HIDE DEF report
<1>8. (overtaken => overtaken') /\ overtaken' \in BOOLEAN
  <2>1. overtaken' = overtaken \/ overtaken' = (overtaken \/ ui.consent \notin {None, h.consent})
    BY <1>7
  <2>2. overtaken \in BOOLEAN
    BY <1>2 DEF PageSane
  <2>3. CASE overtaken' = overtaken
    BY <2>2, <2>3
  <2>4. CASE overtaken' = (overtaken \/ ui.consent \notin {None, h.consent})
    <3>1. (overtaken \/ ui.consent \notin {None, h.consent}) \in BOOLEAN
      OBVIOUS
    <3>2. overtaken => overtaken'
      BY <2>4, Zenon
    <3> QED BY <2>4, <3>1, <3>2
  <2> QED BY <2>1, <2>3, <2>4
<1>9. /\ ui.notice.consent \in PageConsents \cup {None}
      /\ ui.notice.says = BothRevoked => ui.notice.session \in PageConsents
  BY <1>2 DEF PageSane, Pages, Notices, Consents
<1>10. OneWorker'
  <2>1. CASE h.does = "revoke"
    BY <1>1, <1>7, <2>1, ButtonEnds
  <2>2. CASE h.does = "expire"
    <3>1. Workers' = Workers /\ ui'.busy = ui.busy
      BY <1>1, <1>7, <2>2 DEF Workers
    <3> QED BY <1>1, <2>2, <3>1 DEF PageInv, OneWorker, Workers
  <2> QED BY <1>1, <2>1, <2>2
<1>11. PageSane'
  <2>1. ui'.consent # None => grants'[ui'.consent] # "none"
    BY <1>2, <1>4, <1>7 DEF PageSane, GrantsKept, Pages, Consents
  <2>2. ui'.notice.says = BothRevoked => ui'.notice.session # None
    BY <1>2, <1>6, <1>7 DEF PageSane
  <2> QED BY <1>1, <1>2, <1>4, <1>5, <1>7, <1>8, <2>1, <2>2 DEF PageSane, GrantsKept
<1>12. GrantsOrdered' /\ OpeningFresh'
  BY <1>1, <1>4, <1>8, OrderKept DEF PageInv, OpeningFresh
<1>13. NoticeTrue'
  <2>1. CASE ui'.notice = report /\ grants'[h.consent] = "revoked"
    BY <1>6, <2>1 DEF NoticeTrue, BothRevoked
  <2>2. CASE ui'.notice = ui.notice
    BY <1>4, <1>5, <1>9, <2>2 DEF PageInv, NoticeTrue, GrantsKept, BothRevoked
  <2> QED BY <1>7, <2>1, <2>2
<1>14. ConsentHeld'
  <2>1. CASE overtaken'
    BY <2>1 DEF ConsentHeld
  <2>2. CASE ~overtaken' /\ ui'.consent = None /\ ui'.notice = report
    <3>1. ~overtaken /\ ui.consent \in {None, h.consent}
      BY <1>2, <1>7, <1>8, <2>2 DEF PageSane, Pages, Consents
    <3>2. ui.phase \notin {"login", "scanning"}
      BY <1>1, <1>2, <3>1 DEF PageInv, PageHandlerSane, ConsentHeld
    <3> QED BY <1>6, <1>7, <2>2, <3>2 DEF ConsentHeld, BothRevoked
  <2>3. CASE ~overtaken' /\ ui'.consent = ui.consent /\ ui'.notice = ui.notice
    BY <1>7, <1>8, <2>3 DEF PageInv, ConsentHeld
  <2> QED BY <1>7, <2>1, <2>2, <2>3
<1>15. ASSUME NEW k \in pending \ {h} PROVE PageHandlerSane(k)'
  <2>1. PageHandlerSane(k) /\ k \in Handlers
    BY <1>2 DEF PageInv, PageSane
  <2>2. k.consent # None => grants'[k.consent] # "none"
    BY <1>4, <2>1 DEF PageHandlerSane, GrantsKept, Handlers, Consents
  <2>3. k.does \in Opening => ui'.notice.says # BothRevoked
    BY <1>6, <1>7, <2>1 DEF PageHandlerSane
  <2>4. k.does = "cancelConsent" => sessions'[k.session] # "open"
    BY <1>5, <2>1 DEF PageHandlerSane, Handlers, Consents
  <2>5. k.does = "connect" => overtaken' \/ ui'.consent = k.consent
    <3> SUFFICES ASSUME k.does = "connect", ~overtaken' PROVE ui'.consent = k.consent
      OBVIOUS
    <3>1. ~overtaken /\ ui.consent = k.consent /\ k.consent # None
      BY <1>8, <2>1 DEF PageHandlerSane
    <3>2. h.does = "expire"
      BY <1>1, OneAwaits
    <3>3. k.consent # h.consent
      BY <3>1, <3>2 DEF PageInv, OpeningFresh
    <3> QED BY <1>7, <3>1, <3>3
  <2>6. k.does = "expire" => overtaken' \/ ui'.phase \notin {"login", "scanning"} \/ ui'.consent # k.consent
    BY <1>7, <1>8, <2>1 DEF PageHandlerSane
  <2> QED BY <1>7, <1>8, <2>1, <2>2, <2>3, <2>4, <2>5, <2>6 DEF PageHandlerSane
<1> QED BY <1>1, <1>10, <1>11, <1>12, <1>13, <1>14, <1>15 DEF PageInv

-----------------------------------------------------------------------------
LEMMA PageStep == ASSUME PageInv, [PageNext]_pageVars PROVE PageInv'
<1>1. ASSUME NEW h \in pending,
             \/ GrantAnswered(h) \/ ConnectAnswered(h) \/ UndoAnswered(h) \/ CancelAnswered(h)
             \/ CancelConsentAnswered(h) \/ ScanAnswered(h) \/ RevokeAnswered(h)
      PROVE  PageInv'
  BY <1>1, GrantAnswerStep, ConnectAnswerStep, UndoStep, CancelStep, CancelConsentStep, ScanStep, RevokeStep
<1>2. CASE \/ TickConsent \/ OpenSteel \/ CancelAndRevoke \/ ConfirmAndScan \/ RevokeAfterHandoff
           \/ WindowEnds \/ Expire
  BY <1>2, ConsentTickStep, OpenStep, CancelButtonStep, ConfirmStep, RevokeButtonStep, ExpireStep
<1>3. CASE UNCHANGED pageVars
  <2>1. UNCHANGED <<ui, pending, grants, sessions, overtaken, calls>>
    BY <1>3 DEF pageVars, pageState, boundVars
  <2>2. PageSane' /\ OneWorker' /\ GrantsOrdered' /\ OpeningFresh'
    BY <2>1 DEF PageInv, PageSane, OneWorker, Workers, GrantsOrdered, OpeningFresh
  <2>3. NoticeTrue' /\ ConsentHeld' /\ \A h \in pending' : PageHandlerSane(h)'
    BY <2>1 DEF PageInv, NoticeTrue, ConsentHeld, PageHandlerSane
  <2> QED BY <2>2, <2>3 DEF PageInv
<1> QED BY <1>1, <1>2, <1>3 DEF PageNext

LEMMA PageInvSound == ASSUME PageInv PROVE PageTypeOK /\ PageSound
<1>1. PageTypeOK
  BY DEF PageInv, PageSane, PageTypeOK, Pages, Consents
<1>2. ui.busy \in BOOLEAN
  BY DEF PageInv, PageSane, Pages
<1>3. Cardinality(Workers) = IF ui.busy THEN 1 ELSE 0
  <2>1. CASE ui.busy
    <3>1. PICK h \in pending : Workers = {h}
      BY <2>1 DEF PageInv, OneWorker
    <3>2. Cardinality({h}) = 1
      BY FS_Singleton
    <3> QED BY <2>1, <3>1, <3>2
  <2>2. CASE ~ui.busy
    <3>1. Workers = {}
      BY <2>2 DEF PageInv, OneWorker
    <3>2. Cardinality({}) = 0
      BY FS_EmptySet
    <3> QED BY <2>2, <3>1, <3>2
  <2> QED BY <2>1, <2>2
<1>4. OneHandler
  BY <1>3 DEF OneHandler, Workers
<1> QED BY <1>1, <1>4 DEF PageInv, PageSound

(* The connect page, in every run: a revocation it reports took place, it    *)
(* keeps the consent of the sign-in it shows until that is revoked, and one  *)
(* handler of a button runs at a time.                                       *)
THEOREM PagePromises == PageSpec => [](PageTypeOK /\ PageSound)
<1>1. PageInit => PageInv
  BY PageInitInv
<1>2. PageInv /\ [PageNext]_pageVars => PageInv'
  BY PageStep
<1>3. PageInv => PageTypeOK /\ PageSound
  BY PageInvSound
<1> QED BY <1>1, <1>2, <1>3, PTL DEF PageSpec

-----------------------------------------------------------------------------
(* The components together: the one a behaviour follows keeps its invariant, *)
(* and what the others promise stays true of a state that does not change.   *)
AccessState ==
  <<part, handoffState, pageState, memberState, sessionState, gateState, requestState, boundVars>>

AccessInv ==
  /\ part = "connect" => HandoffInv
  /\ IF part = "page" THEN PageInv ELSE PageSound
  /\ IF part = "members" THEN MemberInv ELSE AccountsSound
  /\ IF part = "session" THEN SessionInv ELSE SessionSound
  /\ IF part = "servers" THEN GateInv ELSE GateSound
  /\ IF part = "requests" THEN RequestInv ELSE AdmissionSound

LEMMA PageStays == ASSUME UNCHANGED pageState, PageSound PROVE PageSound'
<1>1. UNCHANGED <<ui, pending, grants, sessions, overtaken>>
  BY DEF pageState
<1>2. NoticeTrue'
  BY <1>1, Zenon DEF PageSound, NoticeTrue
<1>3. ConsentHeld'
  BY <1>1, Zenon DEF PageSound, ConsentHeld
<1>4. OneHandler'
  BY <1>1 DEF PageSound, OneHandler
<1> QED BY <1>2, <1>3, <1>4 DEF PageSound

LEMMA AccountsStay == ASSUME UNCHANGED memberState, AccountsSound PROVE AccountsSound'
<1>1. UNCHANGED <<rowOf, overlapped, grantsMade, account>>
  BY DEF memberState
<1>2. OwnerKept'
  BY <1>1 DEF AccountsSound, OwnerKept, Owners
<1>3. RolesGranted'
  BY <1>1 DEF AccountsSound, RolesGranted, Granted, Holder
<1>4. DeletionRepeatable'
  BY <1>1 DEF AccountsSound, DeletionRepeatable
<1> QED BY <1>2, <1>3, <1>4 DEF AccountsSound

LEMMA SessionStays == ASSUME UNCHANGED sessionState, SessionSound PROVE SessionSound'
BY DEF sessionState, SessionSound, AppliedOnce, SessionKept

LEMMA GateStays == ASSUME UNCHANGED gateState, GateSound PROVE GateSound'
<1>1. UNCHANGED <<deployed, procKey, clock, page, answer, lease, handles, aliasOf>>
  BY DEF gateState
<1>2. LoginOfferedStarts'
  BY <1>1 DEF GateSound, LoginOfferedStarts
<1>3. LeasesCoverCalls'
  BY <1>1 DEF GateSound, LeasesCoverCalls
<1>4. HandlesReopen'
  BY <1>1 DEF GateSound, HandlesReopen, Opens, OpenLocal, OpenKms, Target, Production
<1> QED BY <1>2, <1>3, <1>4 DEF GateSound

LEMMA AdmissionStays == ASSUME UNCHANGED requestState, AdmissionSound PROVE AdmissionSound'
<1>1. UNCHANGED <<gateTicks, deployment, windows, requests, admissions, told, trail, granted>>
  BY DEF requestState
<1>2. WindowBound'
  BY <1>1 DEF AdmissionSound, WindowBound, AdmittedBetween
<1>3. RefusalsEnd'
  BY <1>1 DEF AdmissionSound, RefusalsEnd, Lives
<1>4. RolesExact'
  BY <1>1 DEF AdmissionSound, RolesExact
<1> QED BY <1>2, <1>3, <1>4 DEF AdmissionSound

LEMMA AccessInitInv == ASSUME AccessInit PROVE AccessInv
<1>1. HandoffInv /\ PageInv /\ MemberInv /\ SessionInv /\ GateInv /\ RequestInv
  BY InitHandoff, PageInitInv, MemberInitInv, SessionInitInv, GateInitInv, RequestInitInv DEF AccessInit
<1>2. PageSound /\ AccountsSound /\ SessionSound /\ GateSound /\ AdmissionSound
  BY <1>1, PageInvSound, MemberInvSound, SessionInvSound, GateInvSound, RequestInvSound
<1> QED BY <1>1, <1>2 DEF AccessInv

LEMMA AccessNextInv == ASSUME AccessInv, [AccessNext]_AccessState PROVE AccessInv'
<1>1. part' = part
  BY DEF AccessNext, AccessState
<1>2. ASSUME part = "connect" PROVE HandoffInv'
  <2>1. Next \/ UNCHANGED vars
    BY <1>2 DEF AccessNext, AccessState, vars, boundVars
  <2> QED BY <1>2, <2>1, NextSteps, StepKeepsInv, StutterKeeps DEF AccessInv
<1>3. IF part = "page" THEN PageInv' ELSE PageSound'
  <2>1. IF part = "page" THEN [PageNext]_pageVars ELSE UNCHANGED pageState
    BY DEF AccessNext, AccessState, pageVars
  <2> QED BY <2>1, PageStep, PageStays DEF AccessInv
<1>4. IF part = "members" THEN MemberInv' ELSE AccountsSound'
  <2>1. IF part = "members" THEN [MemberNext]_memberVars ELSE UNCHANGED memberState
    BY DEF AccessNext, AccessState, memberVars
  <2> QED BY <2>1, MemberNextInv, AccountsStay DEF AccessInv
<1>5. IF part = "session" THEN SessionInv' ELSE SessionSound'
  <2>1. IF part = "session" THEN [SessionNext]_sessionVars ELSE UNCHANGED sessionState
    BY DEF AccessNext, AccessState, sessionVars
  <2> QED BY <2>1, SessionNextInv, SessionStays DEF AccessInv
<1>6. IF part = "servers" THEN GateInv' ELSE GateSound'
  <2>1. IF part = "servers" THEN [GateNext]_gateVars ELSE UNCHANGED gateState
    BY DEF AccessNext, AccessState, gateVars
  <2> QED BY <2>1, GateNextInv, GateStays DEF AccessInv
<1>7. IF part = "requests" THEN RequestInv' ELSE AdmissionSound'
  <2>1. IF part = "requests" THEN [RequestNext]_requestVars ELSE UNCHANGED requestState
    BY DEF AccessNext, AccessState, requestVars
  <2> QED BY <2>1, RequestNextInv, AdmissionStays DEF AccessInv
<1> QED BY <1>1, <1>2, <1>3, <1>4, <1>5, <1>6, <1>7 DEF AccessInv

LEMMA AccessInvSound ==
  ASSUME AccessInv PROVE TypesOK /\ AccountsSound /\ BrowserSound /\ GateSound /\ AdmissionSound
<1>1. part = "connect" => TypeOK
  BY DEF AccessInv, HandoffInv, HandoffSane
<1>2. PageSound /\ (part = "page" => PageTypeOK)
  BY PageInvSound DEF AccessInv
<1>3. AccountsSound /\ (part = "members" => MemberTypeOK)
  BY MemberInvSound DEF AccessInv
<1>4. SessionSound /\ (part = "session" => SessionTypeOK)
  BY SessionInvSound DEF AccessInv
<1>5. GateSound /\ (part = "servers" => GateTypeOK)
  BY GateInvSound DEF AccessInv
<1>6. AdmissionSound /\ (part = "requests" => RequestTypeOK)
  BY RequestInvSound DEF AccessInv
<1> QED BY <1>1, <1>2, <1>3, <1>4, <1>5, <1>6 DEF TypesOK, BrowserSound

(* Whichever component a behaviour follows, it keeps its types, and the       *)
(* browser's session, the connect page, memberships, servers and requests     *)
(* keep their promises.                                                       *)
THEOREM AccessPromises ==
  AccessSpec => [](TypesOK /\ AccountsSound /\ BrowserSound /\ GateSound /\ AdmissionSound)
<1>1. AccessInit => AccessInv
  BY AccessInitInv
<1>2. AccessInv /\ [AccessNext]_AccessState => AccessInv'
  BY AccessNextInv
<1>3. AccessInv => TypesOK /\ AccountsSound /\ BrowserSound /\ GateSound /\ AdmissionSound
  BY AccessInvSound
<1>4. AccessSpec => AccessInit /\ [][AccessNext]_AccessState
  BY DEF AccessSpec, AccessState
<1> QED BY <1>1, <1>2, <1>3, <1>4, PTL

(* The handlers of the connect handoff, the page, the members' requests, the  *)
(* sessions, the servers and the gate stay well formed.                       *)
THEOREM AccessTyped == AccessSpec => []TypesOK
BY AccessPromises, PTL
=============================================================================
