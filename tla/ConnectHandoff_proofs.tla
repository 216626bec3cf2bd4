------------------------ MODULE ConnectHandoff_proofs ------------------------
(***************************************************************************)
(* Proofs about ConnectHandoff for every number of sessions and replicas,  *)
(* every bound and every kind of fault: the scripts of the registry keep   *)
(* its values well-formed, one attended session starts scans under one     *)
(* search id, a live browser always has an owner, a completed revocation   *)
(* is final, and the two registries agree.                                 *)
(***************************************************************************)
EXTENDS ConnectHandoff, FiniteSetTheorems, TLAPS

-----------------------------------------------------------------------------
(* Tokens never run out.                                                    *)

(* A non-empty set of numbers has a least element, which Min returns. *)
LEMMA MinIsElement ==
  ASSUME NEW S, S \subseteq Nat, S # {}
  PROVE  Min(S) \in S
<1>1. IsWellFoundedOn({p \in Nat \X Nat : p[1] < p[2]}, Nat)
  <2>1. OpToRel(<, Nat) = {p \in Nat \X Nat : p[1] < p[2]}
    BY DEF OpToRel
  <2> QED BY <2>1, NatLessThanWellFounded
<1>2. PICK x \in S : \A y \in S : <<y, x>> \notin {p \in Nat \X Nat : p[1] < p[2]}
  BY <1>1, WFMin
<1>3. \A y \in S : x <= y
  <2> TAKE y \in S
  <2>1. x \in Nat /\ y \in Nat
    OBVIOUS
  <2>2. CASE y < x
    <3>1. <<y, x>> \in Nat \X Nat /\ <<y, x>>[1] < <<y, x>>[2]
      BY <2>1, <2>2
    <3> QED BY <3>1, <1>2
  <2> QED BY <2>1, <2>2
<1> QED BY <1>2, <1>3 DEF Min

(* Each used token is the one in the store or is held by a replica, which    *)
(* holds at most one: has[r] are the tokens of replica r.                    *)
EachHasOne(used, stored, has) ==
  /\ \A t \in used : t = stored \/ \E r \in Replicas : t \in has[r]
  /\ \A r \in Replicas : \A t, u \in used : t \in has[r] /\ u \in has[r] => t = u

(* There are more tokens than one for each replica and one for the store. *)
LEMMA TokenLeft ==
  ASSUME NEW used, NEW stored, NEW has, EachHasOne(used, stored, has)
  PROVE  Min(Tokens \ (used \cup {0})) \in Tokens \ (used \cup {0})
<1> USE DEF EachHasOne
<1> DEFINE N == Cardinality(Replicas)
           T == 1 .. (N + 2)
           nobody == CHOOSE x : x \notin Replicas
           Owners == Replicas \cup {nobody}
<1>1. N \in Nat /\ nobody \notin Replicas
  BY HandoffAssumption, FS_CardinalityType, NoSetContainsEverything
<1>2. IsFiniteSet(Owners) /\ Cardinality(Owners) = N + 1
  BY <1>1, HandoffAssumption, FS_AddElement
<1>3. IsFiniteSet(T) /\ Cardinality(T) = N + 2
  BY <1>1, FS_Interval
<1>4. T \subseteq Tokens \ {0}
  BY <1>1 DEF Tokens
<1>5. ~(T \subseteq used)
  <2> SUFFICES ASSUME T \subseteq used PROVE FALSE
    OBVIOUS
  <2> DEFINE f == [t \in T |-> IF t = stored THEN nobody
                               ELSE CHOOSE r \in Replicas : t \in has[r]]
  <2>1. \A t \in T : t # stored => f[t] \in Replicas /\ t \in has[f[t]]
    OBVIOUS
  <2>2. f \in [T -> Owners]
    BY <2>1
  <2>3. PICK t \in T, u \in T : t # u /\ f[t] = f[u]
    <3> HIDE DEF T, f, Owners, N
    <3> QED BY <1>1, <1>2, <1>3, <2>2, FS_PigeonHole
  <2> QED BY <1>1, <2>1, <2>3
<1> QED BY <1>4, <1>5, MinIsElement DEF Tokens

-----------------------------------------------------------------------------
(* What every handler and every stored handoff satisfy by themselves.       *)

StartPcs   == {"create", "secure", "put", "assert", "cleanup", "terminate", "restore"}
ConfirmPcs == {"renew", "store", "renewAgain", "enqueue", "ack", "recheck"}
CancelPcs  == {"state", "cancelRenew", "release", "cancelAck", "defer"}
BetweenPcs == {"reclaim", "page", "advance", "next", "mark", "claimWork", "scan"}

(* A claim with a token says what it is for. *)
ClaimSane(c) ==
  c.tok # 0 => c.k \in Connects /\ c.act # "none" /\ (c.act = "confirm" => c.search # 0)

(* A stored handoff that is claimed says for what, a confirmation has its    *)
(* search id, and one that is handed off is not being confirmed.             *)
RecordSane(v) ==
  /\ v.tok # 0 => v.act # "none"
  /\ v.act = "confirm" => v.search # 0 /\ ~v.handed

(* The step a handler is at tells which claim it works on. *)
HandlerSane(p) ==
  /\ ClaimSane(p.claim)
  /\ \A c \in p.todo : c.tok # 0 /\ ClaimSane(c)
  /\ p.pc \in StartPcs => p.op = "start" /\ p.claim.k \in Connects
  /\ p.pc \in StartPcs \ {"terminate"} => p.claim.tok = 0
  /\ p.pc \in ConfirmPcs \cup CancelPcs => p.claim.tok # 0
  /\ p.pc \in ConfirmPcs => p.claim.act = "confirm"

(* A handler holds at most one claim of a session. *)
OneClaimEach(p) ==
  /\ \A c, d \in p.todo : c.k = d.k => c = d
  /\ \A c \in p.todo : c.k # p.claim.k
  /\ p.pc \in BetweenPcs => p.claim = NoClaim /\ p.op \notin {"start", "confirm", "cancel"}
  /\ p.pc \in {"reclaim", "page"} => \A c \in p.todo : c.k \notin p.page
  /\ p.pc \in {"mark", "claimWork", "scan"} => p.todo = {}
  /\ p.op \in {"start", "confirm", "cancel"} => p.todo = {}

HandlersSane == \A r \in Replicas : HandlerSane(proc[r]) /\ OneClaimEach(proc[r])
RecordsSane == \A k \in Connects : rec[k] # None => RecordSane(rec[k])
HandoffSane == TypeOK /\ HandlersSane /\ RecordsSane

(* A fresh token of a session is one that nobody refers to. *)
LEMMA FreshTokenFacts ==
  ASSUME HandoffSane, NEW k \in Connects
  PROVE  FreshToken(k) \in Tokens \ {0}
<1> DEFINE taken == {c.tok : c \in {c \in UNION {proc[r].todo \cup {proc[r].claim} :
                                           r \in Replicas} : c.k = k}}
                     \cup (IF rec[k] = None THEN {} ELSE {rec[k].tok})
           holds == [r \in Replicas |-> {c.tok : c \in {c \in proc[r].todo \cup {proc[r].claim} : c.k = k}}]
<1>1. \A t \in taken : t = rec[k].tok \/ \E r \in Replicas : t \in holds[r]
  OBVIOUS
<1>2. \A r \in Replicas : \A t, u \in taken : t \in holds[r] /\ u \in holds[r] => t = u
  <2> TAKE r \in Replicas
  <2>1. \A c, d \in proc[r].todo \cup {proc[r].claim} : c.k = k /\ d.k = k => c = d
    BY DEF HandoffSane, HandlersSane, OneClaimEach
  <2> QED BY <2>1
<1>3. FreshToken(k) = Min(Tokens \ (taken \cup {0}))
  BY DEF FreshToken
<1> HIDE DEF taken, holds
<1>4. EachHasOne(taken, rec[k].tok, holds)
  BY <1>1, <1>2 DEF EachHasOne
<1>5. Min(Tokens \ (taken \cup {0})) \in Tokens \ (taken \cup {0})
  BY <1>4, TokenLeft
<1> QED BY <1>3, <1>5

(* The same of the tokens of a lease every replica has at most one of. *)
LEMMA FreshWorkToken ==
  ASSUME NEW f \in [Replicas -> Tokens], NEW stored
  PROVE  FreshOf({f[r] : r \in Replicas} \cup {stored}) \in Tokens \ {0}
<1> DEFINE taken == {f[r] : r \in Replicas} \cup {stored}
           holds == [r \in Replicas |-> {f[r]}]
<1>1. \A t \in taken : t = stored \/ \E r \in Replicas : t \in holds[r]
  OBVIOUS
<1>2. \A r \in Replicas : \A t, u \in taken : t \in holds[r] /\ u \in holds[r] => t = u
  OBVIOUS
<1>3. FreshOf(taken) = Min(Tokens \ (taken \cup {0}))
  BY DEF FreshOf
<1> HIDE DEF taken, holds
<1>4. EachHasOne(taken, stored, holds)
  BY <1>1, <1>2 DEF EachHasOne
<1>5. Min(Tokens \ (taken \cup {0})) \in Tokens \ (taken \cup {0})
  BY <1>4, TokenLeft
<1> QED BY <1>3, <1>5 DEF taken

-----------------------------------------------------------------------------
(* What the scripts do to a stored handoff.                                 *)

(* A handoff that is rewritten stays cancelled, and without warm reuse it    *)
(* keeps its search id.                                                      *)
Evolves(v, w) ==
  /\ v.cancel => w.cancel
  /\ ~ReuseWarmSessions /\ v.search # 0 => w.search = v.search

LEMMA ClaimScriptFacts ==
  ASSUME NEW v \in Record, RecordSane(v), NEW action \in {"confirm", "cancel"},
         NEW search \in 0 .. MaxConfirms, action = "confirm" => search # 0,
         NEW token \in Tokens \ {0}
  PROVE  LET c == ClaimScript(v, action, search, token) IN
         /\ c.value \in Record /\ RecordSane(c.value) /\ Evolves(v, c.value)
         /\ action = "cancel" => c.value.cancel
         /\ c.reply = "claimed" => c.value.tok = token
<1> DEFINE c == ClaimScript(v, action, search, token)
           asked == [v EXCEPT !.cancel = @ \/ action = "cancel"]
           again == asked.handed /\ action = "confirm"
           opened == IF again THEN [asked EXCEPT !.handed = FALSE, !.search = 0] ELSE asked
           act == IF opened.cancel THEN "cancel" ELSE action
           taken == [opened EXCEPT !.tok = token, !.act = act, !.leased = TRUE,
                       !.search = IF act = "confirm" /\ @ = 0 THEN search ELSE @]
<1>0. 0 \in 0 .. MaxConfirms
  BY HandoffAssumption
<1>1. asked \in Record /\ opened \in Record
  <2>1. asked \in Record
    <3>1. (v.cancel \/ action = "cancel") \in BOOLEAN
      OBVIOUS
    <3> QED BY <3>1 DEF Record
  <2>2. [asked EXCEPT !.handed = FALSE, !.search = 0] \in Record
    BY <1>0, <2>1 DEF Record
  <2> QED BY <2>1, <2>2
<1>2. taken \in Record
  <2>1. act \in {"none", "confirm", "cancel"} /\ token \in Tokens
    OBVIOUS
  <2>2. (IF act = "confirm" /\ opened.search = 0 THEN search ELSE opened.search) \in 0 .. MaxConfirms
    BY <1>1 DEF Record
  <2> HIDE DEF opened, act
  <2> QED BY <1>1, <2>1, <2>2 DEF Record
<1>3. RecordSane(opened)
  BY DEF Record, RecordSane
<1>4. CASE again /\ (asked.cancel \/ ~ReuseWarmSessions)
  <2>1. c = [reply |-> "handed_off", value |-> v]
    BY <1>4 DEF ClaimScript
  <2> QED BY <1>4, <2>1 DEF Evolves
<1>5. CASE ~(again /\ (asked.cancel \/ ~ReuseWarmSessions)) /\ opened.tok # 0 /\ opened.leased
  <2>1. c = [reply |-> "busy", value |-> opened]
    BY <1>5 DEF ClaimScript
  <2> QED BY <1>1, <1>3, <1>5, <2>1 DEF Evolves, Record
<1>6. CASE ~(again /\ (asked.cancel \/ ~ReuseWarmSessions)) /\ ~(opened.tok # 0 /\ opened.leased)
  <2>1. c = [reply |-> "claimed", value |-> taken]
    BY <1>6 DEF ClaimScript
  <2>2. taken.act = "confirm" => taken.search # 0 /\ ~taken.handed
    BY <1>6 DEF Record
  <2>3. taken.act # "none" /\ taken.tok = token
    BY DEF Record
  <2>4. Evolves(v, taken) /\ (action = "cancel" => taken.cancel)
    BY <1>6 DEF Evolves, Record
  <2> HIDE DEF taken
  <2> QED BY <1>2, <2>1, <2>2, <2>3, <2>4 DEF RecordSane
<1> QED BY <1>4, <1>5, <1>6

LEMMA ToClaimFacts ==
  ASSUME NEW k \in Connects, NEW v \in Record, RecordSane(v), v.tok # 0
  PROVE  LET c == ToClaim(k, v) IN
         /\ c \in Claim /\ ClaimSane(c) /\ c.tok # 0 /\ c.k = k
         /\ c.act = "confirm" => c.search = v.search
BY HandoffAssumption DEF ToClaim, Record, Claim, RecordSane, ClaimSane

LEMMA AckScriptFacts ==
  ASSUME NEW v \in Record, RecordSane(v), NEW action
  PROVE  IF action # "confirm" THEN AckScript(v, action) = None
         ELSE LET w == AckScript(v, action) IN w \in Record /\ RecordSane(w) /\ Evolves(v, w)
<1>1. CASE action # "confirm"
  BY <1>1 DEF AckScript
<1>2. CASE action = "confirm" /\ v.cancel
  BY <1>2 DEF AckScript, Record, RecordSane, Evolves
<1>3. CASE action = "confirm" /\ ~v.cancel
  <2>1. 0 \in Tokens
    BY HandoffAssumption, FS_CardinalityType DEF Tokens
  <2> QED BY <1>3, <2>1 DEF AckScript, Record, RecordSane, Evolves
<1> QED BY <1>1, <1>2, <1>3

LEMMA ReclaimedFacts ==
  ASSUME NEW v \in Record, RecordSane(v), v.tok # 0, NEW token \in Tokens \ {0}
  PROVE  LET w == Reclaimed(v, token) IN
         w \in Record /\ RecordSane(w) /\ Evolves(v, w) /\ w.tok = token
BY DEF Reclaimed, Record, RecordSane, Evolves

(* Renewing or deferring a lease leaves everything else of a handoff alone. *)
LEMMA LeaseFacts ==
  ASSUME NEW v \in Record, RecordSane(v), NEW b \in BOOLEAN
  PROVE  LET w == [v EXCEPT !.leased = b] IN w \in Record /\ RecordSane(w) /\ Evolves(v, w)
BY DEF Record, RecordSane, Evolves

LEMMA StoredFacts == StoredHandoff \in Record /\ RecordSane(StoredHandoff)
<1>1. 0 \in Tokens
  BY HandoffAssumption, FS_CardinalityType DEF Tokens
<1> QED BY <1>1, HandoffAssumption DEF StoredHandoff, Record, RecordSane

LEMMA RestoredFacts ==
  ASSUME NEW token \in Tokens
  PROVE  LET w == RestoredHandoff(token) IN w \in Record /\ RecordSane(w) /\ w.cancel
<1>1. StoredHandoff \in Record /\ StoredHandoff.search = 0 /\ ~StoredHandoff.handed
  BY StoredFacts DEF StoredHandoff
<1> QED BY <1>1 DEF RestoredHandoff, Record, RecordSane

-----------------------------------------------------------------------------
(* The inductive invariant.                                                 *)

(* The claims a handler holds; a start without a claim has token 0. *)
Owned(p) == {c \in p.todo \cup {p.claim} : c.tok # 0}

Starts(p, k) == p.op = "start" /\ p.claim.k = k

(* A start that holds the session of k, or is about to create it. *)
Holds(p, k) ==
  Starts(p, k) /\ (p.pc \in {"secure", "put", "restore"} \/ (p.pc = "terminate" /\ p.claim.tok = 0))
Unstored(p, k) == Holds(p, k) \/ (Starts(p, k) /\ p.pc = "create")

(* No claim of k is held and no search record was written for it. *)
Untouched(k) ==
  /\ \A i \in searches : i[1] # k
  /\ \A r \in Replicas : \A c \in Owned(proc[r]) : c.k # k

(* One start opens a session, and until it is stored nobody else knows it. *)
StartsAlone ==
  /\ \A k \in Connects, q, r \in Replicas : Starts(proc[q], k) /\ Starts(proc[r], k) => q = r
  /\ \A k \in Connects : (steel[k] = "none" \/ \E r \in Replicas : Unstored(proc[r], k)) =>
       rec[k] = None /\ Untouched(k)
  /\ \A k \in Connects, r \in Replicas : Holds(proc[r], k) => steel[k] # "none"

(* A claim is acknowledged as cancelled only after its session was released. *)
CancelledGone ==
  \A r \in Replicas : proc[r].pc = "cancelAck" => steel[proc[r].claim.k] = "gone"

(* A scan is started under a search id whose record is written. *)
SearchStored ==
  /\ jobs \subseteq searches
  /\ \A r \in Replicas : proc[r].pc \in {"renewAgain", "enqueue"} =>
       <<proc[r].claim.k, proc[r].claim.search>> \in searches

(* The search ids of a session: written, or in a claim for confirmation. *)
ScansAs(k, s) ==
  \/ <<k, s>> \in searches
  \/ \E r \in Replicas : \E c \in Owned(proc[r]) : c.k = k /\ c.act = "confirm" /\ c.search = s

(* They are all the same one, which is the one in the store if k is stored. *)
OneSearch ==
  ~ReuseWarmSessions => \A k \in Connects, s, t \in 1 .. MaxConfirms :
     ScansAs(k, s) => (ScansAs(k, t) => s = t) /\ (rec[k] # None => rec[k].search = s)

(* No handoff of the consent can be confirmed, now or later. *)
Final == tombstone /\ \A k \in Connects : rec[k] = None \/ rec[k].cancel

(* The reverse index lists what can still be confirmed, and revocation work  *)
(* goes away only when the index is empty.                                   *)
RevocationCovers ==
  /\ \A k \in Connects : rec[k] # None => k \in index \/ rec[k].cancel
  /\ work # None => tombstone
  /\ tombstone /\ work = None => Final
  /\ \A r \in Replicas :
       /\ proc[r].op = "revoke" /\ proc[r].pc \notin {"mark", "finish"} => tombstone
       /\ proc[r].pc = "finish" /\ ~proc[r].bad => Final
  /\ intent.st = "done" => Final

HandoffInv ==
  /\ HandoffSane /\ StartsAlone /\ CancelledGone /\ SearchStored /\ OneSearch
  /\ RevocationCovers /\ SessionsAccounted

-----------------------------------------------------------------------------
(* What a step may do, one handler and the shared state apart.              *)

(* A claim that is new to a handler is a claim of a stored handoff. *)
ClaimsFollow(p, n) ==
  \A c \in Owned(n) : c \in Owned(p) \/
    (rec[c.k] # None /\ rec'[c.k] # None /\ (c.act = "confirm" => c.search = rec'[c.k].search))

(* A start begins with a session that does not exist and goes forward. *)
StartsFollow(p, n) ==
  \A k \in Connects : Starts(n, k) =>
    \/ /\ Starts(p, k) /\ (Unstored(n, k) => Unstored(p, k))
       /\ Holds(n, k) => Holds(p, k) \/ steel'[k] # "none"
    \/ steel[k] = "none" /\ n.pc = "create" /\ \A q \in Replicas : ~Starts(proc[q], k)

(* A start lets go of its session only when someone else has it, or nobody. *)
LetsGo(p, n) ==
  \A k \in Connects : Holds(p, k) => Holds(n, k) \/ steel'[k] = "gone" \/ rec'[k] # None \/ k \in stranded'

(* What the steps to come rely on. *)
PcsBacked(n) ==
  /\ n.pc \in {"renewAgain", "enqueue"} => <<n.claim.k, n.claim.search>> \in searches'
  /\ n.pc = "cancelAck" => steel'[n.claim.k] = "gone"

RevokeFollows(p, n) ==
  /\ n.op = "revoke" /\ n.pc \notin {"mark", "finish"} => tombstone'
  /\ n.pc = "finish" /\ ~n.bad => p.op = "revoke" /\ p.pc = "settle" /\ (index = {} \/ work = None)

HandlerMoves(r, n) ==
  /\ proc' = [proc EXCEPT ![r] = n]
  /\ n \in Task /\ HandlerSane(n) /\ OneClaimEach(n)
  /\ ClaimsFollow(proc[r], n) /\ StartsFollow(proc[r], n) /\ LetsGo(proc[r], n)
  /\ PcsBacked(n) /\ RevokeFollows(proc[r], n)

(* A stored handoff is kept, evolves, goes away once its session has another *)
(* end, or is stored by the start that holds the session.                    *)
RecStep ==
  /\ rec' \in [Connects -> Record \cup {None}]
  /\ \A k \in Connects : rec'[k] # None => RecordSane(rec'[k])
  /\ \A k \in Connects :
       \/ rec'[k] = rec[k]
       \/ rec[k] # None /\ rec'[k] # None /\ Evolves(rec[k], rec'[k])
       \/ rec'[k] = None /\ (steel'[k] = "gone" \/ k \in stranded')
       \/ /\ \E r \in Replicas : Holds(proc[r], k) /\ ~Unstored(proc'[r], k)
          /\ rec'[k].cancel \/ (~tombstone /\ k \in index')

IndexStep == index' \subseteq Connects /\ \A k \in index \ index' : rec'[k] = None

SteelStep ==
  /\ steel' \in [Connects -> {"none", "live", "gone"}]
  /\ \A k \in Connects : steel'[k] # steel[k] =>
       \/ steel'[k] = "gone"
       \/ /\ steel'[k] = "live" /\ \E r \in Replicas : Unstored(proc[r], k)
          /\ k \in stranded' \/ \E r \in Replicas : Holds(proc'[r], k)

OutStep ==
  /\ stranded \subseteq stranded' /\ stranded' \subseteq Connects
  /\ jobs \subseteq jobs' /\ jobs' \subseteq jobs \cup searches
  /\ searches \subseteq searches' /\ searches' \subseteq Connects \X (1 .. MaxConfirms)
  /\ \A i \in searches' \ searches : \E r \in Replicas : \E c \in Owned(proc[r]) :
       c.act = "confirm" /\ i = <<c.k, c.search>>
  /\ confirms' \in 0 .. MaxConfirms /\ faults' \in 0 .. MaxFaults

RevStep ==
  /\ consent' \in {"active", "revoked"}
  /\ intent' \in [st : {"none", "open", "done"}, tok : Tokens, leased : BOOLEAN]
  /\ tombstone' \in BOOLEAN /\ (tombstone => tombstone')
  /\ work' \in RevocationWork \cup {None}
  /\ work' = None => (work = None /\ tombstone' = tombstone) \/ (work # None /\ index = {})
  /\ work' # None => work # None \/ tombstone'
  /\ intent'.st = "done" => intent.st = "done" \/ \E r \in Replicas : proc[r].pc = "finish" /\ ~proc[r].bad

SharedStep == RecStep /\ IndexStep /\ SteelStep /\ OutStep /\ RevStep

(* A step of one handler, or of none. *)
HandoffStep ==
  /\ UNCHANGED proc \/ \E r \in Replicas : HandlerMoves(r, proc'[r])
  /\ SharedStep

-----------------------------------------------------------------------------
(* Such a step keeps the invariant.                                         *)

(* What a step says of each handler, moved or not. *)
LEMMA HandlerAfter ==
  ASSUME HandoffInv, HandoffStep, NEW q \in Replicas
  PROVE  /\ proc'[q] = proc[q] \/ HandlerMoves(q, proc'[q])
         /\ proc' \in [Replicas -> Task]
BY DEF HandoffStep, HandlerMoves, HandoffInv, HandoffSane, TypeOK

LEMMA StepSane ==
  ASSUME HandoffInv, HandoffStep
  PROVE  HandoffSane'
<1>1. HandlersSane'
  BY HandlerAfter DEF HandlersSane, HandlerMoves, HandoffInv, HandoffSane
<1>2. proc' \in [Replicas -> Task]
  BY DEF HandoffStep, HandlerMoves, HandoffInv, HandoffSane, TypeOK
<1>3. TypeOK' /\ RecordsSane'
  <2>1. jobs' \subseteq Connects \X (1 .. MaxConfirms)
    BY DEF HandoffInv, HandoffSane, TypeOK, HandoffStep, SharedStep, OutStep
  <2> QED BY <1>2, <2>1 DEF TypeOK, RecordsSane, HandoffStep, SharedStep, RecStep, IndexStep, SteelStep,
                             OutStep, RevStep
<1> QED BY <1>1, <1>3 DEF HandoffSane

(* Only one handler moves. *)
LEMMA OneMoves ==
  ASSUME HandoffInv, HandoffStep, NEW q \in Replicas, NEW r \in Replicas,
         proc'[q] # proc[q], proc'[r] # proc[r]
  PROVE  q = r
BY DEF HandoffStep, HandlerMoves, HandoffInv, HandoffSane, TypeOK

LEMMA StepStartsAlone ==
  ASSUME HandoffInv, HandoffStep
  PROVE  StartsAlone'
<1> USE DEF HandoffInv
<1>1. \A q \in Replicas : \A k \in Connects : Starts(proc'[q], k) =>
        \/ /\ Starts(proc[q], k) /\ (Unstored(proc'[q], k) => Unstored(proc[q], k))
           /\ Holds(proc'[q], k) => Holds(proc[q], k) \/ steel'[k] # "none"
        \/ /\ steel[k] = "none" /\ proc'[q].pc = "create" /\ proc'[q] # proc[q]
           /\ \A p \in Replicas : ~Starts(proc[p], k)
  BY HandlerAfter DEF HandlerMoves, StartsFollow
<1>2. ASSUME NEW k \in Connects, NEW q \in Replicas, NEW r \in Replicas,
             Starts(proc'[q], k), Starts(proc'[r], k)
      PROVE  q = r
  BY <1>1, <1>2, OneMoves DEF StartsAlone
<1>3. ASSUME NEW k \in Connects, NEW r \in Replicas, Holds(proc'[r], k)
      PROVE  steel'[k] # "none"
  <2>1. Starts(proc'[r], k) /\ proc'[r].pc # "create"
    BY <1>3 DEF Holds
  <2>2. steel[k] # "none" => steel'[k] # "none"
    BY DEF HandoffStep, SharedStep, SteelStep
  <2> QED BY <1>1, <1>3, <2>1, <2>2 DEF StartsAlone
<1>4. ASSUME NEW k \in Connects, steel'[k] = "none" \/ \E r \in Replicas : Unstored(proc'[r], k)
      PROVE  rec'[k] = None /\ Untouched(k)'
  <2>1. steel'[k] = "none" => steel[k] = "none"
    BY DEF HandoffStep, SharedStep, SteelStep
  <2>2. ASSUME NEW r \in Replicas, Unstored(proc'[r], k)
        PROVE  Unstored(proc[r], k) \/ steel[k] = "none"
    BY <1>1, <2>2 DEF Unstored, Holds
  <2>3. rec[k] = None /\ Untouched(k)
    BY <1>4, <2>1, <2>2 DEF StartsAlone
  <2>4. rec'[k] = None
    <3>1. SUFFICES ASSUME NEW q \in Replicas, Holds(proc[q], k), ~Unstored(proc'[q], k) PROVE FALSE
      BY <2>3 DEF HandoffStep, SharedStep, RecStep
    <3>2. steel'[k] # "none"
      BY <2>1, <3>1 DEF StartsAlone
    <3>3. PICK r \in Replicas : Unstored(proc'[r], k)
      BY <1>4, <3>2
    <3>4. Unstored(proc[r], k)
      BY <2>2, <3>1, <3>3 DEF StartsAlone
    <3>5. r = q
      BY <3>1, <3>4 DEF StartsAlone, Unstored, Holds
    <3> QED BY <3>1, <3>3, <3>5
  <2>5. \A i \in searches' : i[1] # k
    <3> SUFFICES ASSUME NEW i \in searches' \ searches PROVE i[1] # k
      BY <2>3 DEF Untouched
    <3>1. PICK r \in Replicas : \E c \in Owned(proc[r]) : c.act = "confirm" /\ i = <<c.k, c.search>>
      BY DEF HandoffStep, SharedStep, OutStep
    <3> QED BY <2>3, <3>1 DEF Untouched
  <2>6. \A r \in Replicas : \A c \in Owned(proc'[r]) : c.k # k
    BY <2>3, HandlerAfter DEF Untouched, HandlerMoves, ClaimsFollow
  <2> QED BY <2>4, <2>5, <2>6 DEF Untouched
<1> QED BY <1>2, <1>3, <1>4 DEF StartsAlone

LEMMA StepCancelledGone ==
  ASSUME HandoffInv, HandoffStep
  PROVE  CancelledGone'
<1> SUFFICES ASSUME NEW r \in Replicas, proc'[r].pc = "cancelAck"
             PROVE  steel'[proc'[r].claim.k] = "gone"
  BY DEF CancelledGone
<1>1. CASE proc'[r] = proc[r]
  <2> DEFINE c == proc[r].claim
  <2>1. c.tok # 0 /\ c \in Owned(proc[r]) /\ c.k \in Connects
    BY <1>1 DEF HandoffInv, HandoffSane, HandlersSane, HandlerSane, ClaimSane, CancelPcs, Owned
  <2>2. steel[c.k] = "gone"
    BY <1>1 DEF HandoffInv, CancelledGone
  <2>3. ~Untouched(c.k)
    BY <2>1 DEF Untouched
  <2> QED BY <1>1, <2>1, <2>2, <2>3 DEF HandoffInv, StartsAlone, HandoffStep, SharedStep, SteelStep
<1>2. CASE HandlerMoves(r, proc'[r])
  BY <1>2 DEF HandlerMoves, PcsBacked
<1> QED BY <1>1, <1>2, HandlerAfter

LEMMA StepSearchStored ==
  ASSUME HandoffInv, HandoffStep
  PROVE  SearchStored'
<1>1. jobs' \subseteq searches' /\ searches \subseteq searches'
  BY DEF HandoffInv, SearchStored, HandoffStep, SharedStep, OutStep
<1>2. ASSUME NEW r \in Replicas, proc'[r].pc \in {"renewAgain", "enqueue"}
      PROVE  <<proc'[r].claim.k, proc'[r].claim.search>> \in searches'
  BY <1>1, <1>2, HandlerAfter DEF HandoffInv, SearchStored, HandlerMoves, PcsBacked
<1> QED BY <1>1, <1>2 DEF SearchStored

LEMMA StepOneSearch ==
  ASSUME HandoffInv, HandoffStep
  PROVE  OneSearch'
<1> SUFFICES ASSUME ~ReuseWarmSessions, NEW k \in Connects,
                    NEW s \in 1 .. MaxConfirms, NEW t \in 1 .. MaxConfirms, ScansAs(k, s)'
             PROVE  (ScansAs(k, t)' => s = t) /\ (rec'[k] # None => rec'[k].search = s)
  BY DEF OneSearch
<1> USE DEF HandoffInv
(* A search id of the session was one before, or is the stored one now. *)
<1>1. ASSUME NEW u \in 1 .. MaxConfirms, ScansAs(k, u)'
      PROVE  ScansAs(k, u) \/ (rec[k] # None /\ rec'[k] # None /\ rec'[k].search = u)
  <2>1. CASE <<k, u>> \in searches'
    <3>1. CASE <<k, u>> \in searches
      BY <3>1 DEF ScansAs
    <3>2. CASE <<k, u>> \notin searches
      <4>1. PICK r \in Replicas : \E c \in Owned(proc[r]) : c.act = "confirm" /\ <<k, u>> = <<c.k, c.search>>
        BY <2>1, <3>2 DEF HandoffStep, SharedStep, OutStep
      <4> QED BY <4>1 DEF ScansAs
    <3> QED BY <3>1, <3>2
  <2>2. CASE \E r \in Replicas : \E c \in Owned(proc'[r]) : c.k = k /\ c.act = "confirm" /\ c.search = u
    <3>1. PICK r \in Replicas : \E c \in Owned(proc'[r]) : c.k = k /\ c.act = "confirm" /\ c.search = u
      BY <2>2
    <3>2. PICK c \in Owned(proc'[r]) : c.k = k /\ c.act = "confirm" /\ c.search = u
      BY <3>1
    <3>3. CASE c \in Owned(proc[r])
      BY <3>2, <3>3 DEF ScansAs
    <3>4. CASE c \notin Owned(proc[r])
      BY <3>2, <3>4, HandlerAfter DEF HandlerMoves, ClaimsFollow
    <3> QED BY <3>3, <3>4
  <2> QED BY <1>1, <2>1, <2>2 DEF ScansAs
(* A stored handoff with a search id keeps it. *)
<1>2. ASSUME NEW u \in 1 .. MaxConfirms, ScansAs(k, u), rec'[k] # None
      PROVE  rec'[k].search = u
  <2>1. ~Untouched(k)
    BY <1>2 DEF ScansAs, Untouched
  <2>2. \A r \in Replicas : ~Holds(proc[r], k)
    BY <2>1 DEF StartsAlone, Unstored
  <2>3. rec[k] # None /\ (rec'[k] = rec[k] \/ Evolves(rec[k], rec'[k]))
    BY <1>2, <2>2 DEF HandoffStep, SharedStep, RecStep
  <2>4. rec[k].search = u /\ u # 0
    BY <1>2, <2>3 DEF OneSearch
  <2> QED BY <2>3, <2>4 DEF Evolves
<1>3. rec'[k] # None => rec'[k].search = s
  BY <1>1, <1>2
<1>4. ASSUME ScansAs(k, t)' PROVE s = t
  <2>1. CASE ScansAs(k, s) /\ ScansAs(k, t)
    BY <2>1 DEF OneSearch
  <2>2. CASE rec'[k] # None
    BY <1>1, <1>2, <1>3, <1>4, <2>2
  <2> QED BY <1>1, <1>4, <2>1, <2>2
<1> QED BY <1>3, <1>4

LEMMA StepAccounted ==
  ASSUME HandoffInv, HandoffStep
  PROVE  SessionsAccounted'
<1> SUFFICES ASSUME NEW k \in Connects, steel'[k] = "live"
             PROVE  \/ rec'[k] # None
                    \/ \E s \in 1 .. MaxConfirms : <<k, s>> \in jobs'
                    \/ \E r \in Replicas : Holds(proc'[r], k)
                    \/ k \in stranded'
  BY DEF SessionsAccounted, HoldsUnstored, Holds, Starts
<1>1. CASE steel[k] # "live"
  BY <1>1 DEF HandoffStep, SharedStep, SteelStep
<1>2. CASE steel[k] = "live"
  <2>1. \/ rec[k] # None
        \/ \E s \in 1 .. MaxConfirms : <<k, s>> \in jobs
        \/ \E r \in Replicas : Holds(proc[r], k)
        \/ k \in stranded
    BY <1>2 DEF HandoffInv, SessionsAccounted, HoldsUnstored, Holds, Starts
  <2>2. CASE rec[k] # None
    <3>1. rec'[k] = rec[k] \/ rec'[k] # None \/ k \in stranded'
          \/ \E r \in Replicas : Holds(proc[r], k)
      BY DEF HandoffStep, SharedStep, RecStep
    <3>2. \A r \in Replicas : ~Holds(proc[r], k)
      BY <2>2 DEF HandoffInv, StartsAlone, Unstored
    <3> QED BY <2>2, <3>1, <3>2
  <2>3. CASE \E s \in 1 .. MaxConfirms : <<k, s>> \in jobs
    BY <2>3 DEF HandoffStep, SharedStep, OutStep
  <2>4. CASE \E r \in Replicas : Holds(proc[r], k)
    <3>1. PICK r \in Replicas : Holds(proc[r], k)
      BY <2>4
    <3> QED BY <3>1, HandlerAfter DEF HandlerMoves, LetsGo
  <2>5. CASE k \in stranded
    BY <2>5 DEF HandoffStep, SharedStep, OutStep
  <2> QED BY <2>1, <2>2, <2>3, <2>4, <2>5
<1> QED BY <1>1, <1>2

LEMMA StepFinal ==
  ASSUME HandoffInv, HandoffStep, Final
  PROVE  Final'
BY DEF Final, HandoffStep, SharedStep, RecStep, RevStep, Evolves, HandoffInv, HandoffSane, TypeOK

LEMMA StepRevocation ==
  ASSUME HandoffInv, HandoffStep
  PROVE  RevocationCovers'
<1> USE DEF HandoffInv
<1>1. ASSUME NEW k \in Connects, rec'[k] # None PROVE k \in index' \/ rec'[k].cancel
  <2>1. k \in index => k \in index'
    BY <1>1 DEF HandoffStep, SharedStep, IndexStep
  <2>2. CASE rec[k] # None
    <3>1. \/ rec'[k] = rec[k] \/ Evolves(rec[k], rec'[k])
          \/ rec'[k].cancel \/ k \in index'
      BY <1>1 DEF HandoffStep, SharedStep, RecStep
    <3> QED BY <1>1, <2>1, <2>2, <3>1 DEF RevocationCovers, Evolves
  <2>3. CASE rec[k] = None
    BY <1>1, <2>3 DEF HandoffStep, SharedStep, RecStep
  <2> QED BY <2>2, <2>3
<1>2. work' # None => tombstone'
  BY DEF RevocationCovers, HandoffStep, SharedStep, RevStep
<1>3. ASSUME tombstone', work' = None PROVE Final
  <2>1. CASE work = None /\ tombstone' = tombstone
    BY <1>3, <2>1 DEF RevocationCovers
  <2>2. CASE work # None /\ index = {}
    BY <2>2 DEF RevocationCovers, Final
  <2> QED BY <1>3, <2>1, <2>2 DEF HandoffStep, SharedStep, RevStep
<1>4. ASSUME NEW r \in Replicas
      PROVE  /\ proc'[r].op = "revoke" /\ proc'[r].pc \notin {"mark", "finish"} => tombstone'
             /\ proc'[r].pc = "finish" /\ ~proc'[r].bad => Final
  <2>1. CASE proc'[r] = proc[r]
    BY <2>1 DEF RevocationCovers, HandoffStep, SharedStep, RevStep
  <2>2. CASE HandlerMoves(r, proc'[r])
    <3>1. RevokeFollows(proc[r], proc'[r])
      BY <2>2 DEF HandlerMoves
    <3>2. ASSUME proc[r].op = "revoke", proc[r].pc = "settle", index = {} \/ work = None
          PROVE  Final
      BY <3>2 DEF RevocationCovers, Final
    <3> QED BY <3>1, <3>2 DEF RevokeFollows
  <2> QED BY <2>1, <2>2, HandlerAfter
<1>5. intent'.st = "done" => Final
  BY DEF RevocationCovers, HandoffStep, SharedStep, RevStep
<1> QED BY <1>1, <1>2, <1>3, <1>4, <1>5, StepFinal DEF RevocationCovers

LEMMA StepKeepsInv ==
  ASSUME HandoffInv, HandoffStep
  PROVE  HandoffInv'
BY StepSane, StepStartsAlone, StepCancelledGone, StepSearchStored, StepOneSearch, StepAccounted,
   StepRevocation DEF HandoffInv

-----------------------------------------------------------------------------
(* Every action is such a step.  First the parts of a step that an action    *)
(* leaves alone.                                                            *)

LEMMA SameRec == ASSUME HandoffInv, UNCHANGED rec PROVE RecStep
BY DEF RecStep, HandoffInv, HandoffSane, TypeOK, RecordsSane

LEMMA SameIndex == ASSUME HandoffInv, UNCHANGED index PROVE IndexStep
BY DEF IndexStep, HandoffInv, HandoffSane, TypeOK

LEMMA SameSteel == ASSUME HandoffInv, UNCHANGED steel PROVE SteelStep
BY DEF SteelStep, HandoffInv, HandoffSane, TypeOK

LEMMA SameRev == ASSUME HandoffInv, UNCHANGED <<pgVars, tombstone, work>> PROVE RevStep
BY DEF RevStep, pgVars, HandoffInv, HandoffSane, TypeOK

FaultsStep == faults' \in 0 .. MaxFaults

LEMMA FaultsCounted ==
  ASSUME HandoffInv, NoFault \/ \E kind : FaultOf(kind)
  PROVE  FaultsStep
BY FaultsAssumption DEF FaultsStep, NoFault, FaultOf, HandoffInv, HandoffSane, TypeOK

LEMMA SameOut ==
  ASSUME HandoffInv, UNCHANGED outVars, FaultsStep,
         stranded \subseteq stranded', stranded' \subseteq Connects
  PROVE  OutStep
BY DEF OutStep, outVars, FaultsStep, HandoffInv, HandoffSane, TypeOK

(* One handoff is rewritten. *)
LEMMA OneRecord ==
  ASSUME HandoffInv, NEW k \in Connects, rec[k] # None, NEW v \in Record,
         RecordSane(v), Evolves(rec[k], v), rec' = [rec EXCEPT ![k] = v]
  PROVE  RecStep /\ rec'[k] = v /\ v # None
BY AbsentAssumption DEF RecStep, HandoffInv, HandoffSane, TypeOK, RecordsSane

(* A lease is renewed, ended, or left as it is. *)
LEMMA OneLease ==
  ASSUME HandoffInv, NEW k \in Connects, rec[k] # None, NEW b \in BOOLEAN,
         rec' = [rec EXCEPT ![k] = [rec[k] EXCEPT !.leased = b]]
  PROVE  RecStep
<1>1. rec[k] \in Record /\ RecordSane(rec[k])
  BY DEF HandoffInv, HandoffSane, TypeOK, RecordsSane
<1> QED BY <1>1, OneRecord, LeaseFacts

LEMMA RenewedStep ==
  ASSUME HandoffInv, NEW c, c.k \in Connects, rec' = Renewed(c)
  PROVE  RecStep
<1>1. CASE Owns(c)
  <2>1. rec' = [rec EXCEPT ![c.k] = [rec[c.k] EXCEPT !.leased = TRUE]]
    BY <1>1 DEF Renewed, HandoffInv, HandoffSane, TypeOK
  <2> QED BY <1>1, <2>1, OneLease DEF Owns
<1>2. CASE ~Owns(c)
  BY <1>2, SameRec DEF Renewed
<1> QED BY <1>1, <1>2

(* The claim of a handoff, whoever makes it, and what comes of it. *)
ClaimsAs(k, action, search, c) ==
  /\ rec[k] # None /\ action \in {"confirm", "cancel"}
  /\ search \in 0 .. MaxConfirms /\ (action = "confirm" => search # 0)
  /\ c = ClaimHandoff(k, action, search) /\ rec' = [rec EXCEPT ![k] = c.value]

ClaimOf(k, d) ==
  /\ d \in Claim /\ ClaimSane(d) /\ d.tok # 0 /\ d.k = k
  /\ rec[k] # None /\ rec'[k] # None
  /\ d.act = "confirm" => d.search = rec'[k].search

ClaimMade(k, c) ==
  /\ RecStep /\ rec'[k] # None
  /\ c.reply = "claimed" => ClaimOf(k, ToClaim(k, c.value)) /\ ToClaim(k, c.value).act = c.value.act

LEMMA ClaimStepFacts ==
  ASSUME HandoffInv, NEW k \in Connects, NEW action, NEW search, NEW c,
         ClaimsAs(k, action, search, c)
  PROVE  ClaimMade(k, c)
<1> USE DEF ClaimsAs
<1>1. rec[k] \in Record /\ RecordSane(rec[k])
  BY DEF HandoffInv, HandoffSane, TypeOK, RecordsSane
<1>2. FreshToken(k) \in Tokens \ {0}
  BY FreshTokenFacts DEF HandoffInv
<1>3. c = ClaimScript(rec[k], action, search, FreshToken(k))
  BY DEF ClaimHandoff
<1>4. /\ c.value \in Record /\ RecordSane(c.value) /\ Evolves(rec[k], c.value)
      /\ c.reply = "claimed" => c.value.tok # 0
  BY <1>1, <1>2, <1>3, ClaimScriptFacts
<1>5. RecStep /\ rec'[k] = c.value /\ c.value # None
  BY <1>4, OneRecord
<1>6. ToClaim(k, c.value).act = c.value.act
  BY DEF ToClaim
<1> QED BY <1>4, <1>5, <1>6, ToClaimFacts DEF ClaimMade, ClaimOf

-----------------------------------------------------------------------------
(* Moves of a handler that many actions share.                              *)

LEMMA HandlerFacts ==
  ASSUME HandoffInv, NEW r \in Replicas
  PROVE  proc[r] \in Task /\ HandlerSane(proc[r]) /\ OneClaimEach(proc[r])
BY DEF HandoffInv, HandoffSane, TypeOK, HandlersSane

LEMMA IdleFacts == Idle \in Task /\ HandlerSane(Idle) /\ OneClaimEach(Idle)
                   /\ NoClaim \in HeldClaim /\ NoClaim.tok = 0 /\ NoClaim.k = None
<1>1. 0 \in Tokens /\ 0 \in 0 .. MaxConfirms
  BY HandoffAssumption, FS_CardinalityType DEF Tokens
<1>2. NoClaim \in HeldClaim /\ NoClaim.tok = 0 /\ NoClaim.k = None
  BY <1>1 DEF NoClaim, HeldClaim
<1>3. Idle \in Task
  BY <1>1, <1>2 DEF Idle, Task, Ops, PCs
<1>4. HandlerSane(Idle) /\ OneClaimEach(Idle)
  BY <1>2 DEF Idle, HandlerSane, OneClaimEach, ClaimSane, StartPcs, ConfirmPcs, CancelPcs, BetweenPcs
<1> QED BY <1>2, <1>3, <1>4

(* A handler ends, with no session left in its hands. *)
LEMMA FinishMoves ==
  ASSUME HandoffInv, NEW r \in Replicas, Finish(r),
         \A k \in Connects : Holds(proc[r], k) => steel'[k] = "gone" \/ rec'[k] # None \/ k \in stranded'
  PROVE  HandlerMoves(r, proc'[r])
<1>1. proc'[r] = Idle /\ proc' = [proc EXCEPT ![r] = Idle]
  BY DEF Finish, HandoffInv, HandoffSane, TypeOK
<1>2. Owned(Idle) = {} /\ Idle.op = "idle" /\ Idle.pc = "idle"
  BY IdleFacts DEF Owned, Idle
<1> QED BY <1>1, <1>2, IdleFacts
        DEF HandlerMoves, ClaimsFollow, StartsFollow, LetsGo, PcsBacked, RevokeFollows, Starts

(* A handler at work on a claim holds no unstored session, and a revocation  *)
(* has set its tombstone.                                                    *)
WorksOnClaim(p) == p.claim.tok # 0 /\ p.pc \in ConfirmPcs \cup CancelPcs \cup {"terminate"}

LEMMA ClaimHandler ==
  ASSUME HandoffInv, NEW r \in Replicas, WorksOnClaim(proc[r])
  PROVE  /\ \A k \in Connects : ~Unstored(proc[r], k)
         /\ proc[r].op = "revoke" => tombstone
         /\ proc[r].claim.k \in Connects /\ proc[r].claim.act \in {"confirm", "cancel"}
         /\ proc[r].claim \in Owned(proc[r]) /\ ClaimSane(proc[r].claim)
BY HandlerFacts DEF WorksOnClaim, Unstored, Holds, Starts, HandoffInv, RevocationCovers, HandlerSane,
   ClaimSane, Owned, ConfirmPcs, CancelPcs, Task, HeldClaim

LEMMA GoMoves ==
  ASSUME HandoffInv, NEW r \in Replicas, WorksOnClaim(proc[r]), tombstone => tombstone',
         NEW pc \in ConfirmPcs \cup CancelPcs, Go(r, pc),
         pc \in ConfirmPcs => proc[r].claim.act = "confirm",
         PcsBacked(proc'[r])
  PROVE  HandlerMoves(r, proc'[r])
<1> DEFINE p == proc[r]
           n == [p EXCEPT !.pc = pc]
<1>1. proc'[r] = n /\ proc' = [proc EXCEPT ![r] = n]
  BY DEF Go, HandoffInv, HandoffSane, TypeOK
<1>2. p \in Task /\ HandlerSane(p) /\ OneClaimEach(p)
  BY HandlerFacts
<1>3. pc \in PCs
  BY DEF ConfirmPcs, CancelPcs, PCs
<1>4. n \in Task
  BY <1>2, <1>3 DEF Task
<1>5. n.op = p.op /\ n.pc = pc /\ n.claim = p.claim /\ n.todo = p.todo /\ n.bad = p.bad /\ n.page = p.page
  BY <1>2 DEF Task
<1> HIDE DEF p, n
<1>6. HandlerSane(n) /\ OneClaimEach(n)
  BY <1>2, <1>5 DEF p, HandlerSane, OneClaimEach, WorksOnClaim, ConfirmPcs, CancelPcs, StartPcs, BetweenPcs
<1>7. ClaimsFollow(p, n)
  BY <1>5 DEF ClaimsFollow, Owned
<1>8. StartsFollow(p, n) /\ LetsGo(p, n)
  BY <1>5, ClaimHandler DEF p, StartsFollow, LetsGo, Starts, Unstored, Holds, ConfirmPcs, CancelPcs
<1>9. RevokeFollows(p, n)
  BY <1>5, ClaimHandler DEF p, RevokeFollows, ConfirmPcs, CancelPcs
<1> QED BY <1>1, <1>4, <1>6, <1>7, <1>8, <1>9 DEF HandlerMoves, p

LEMMA DoneMoves ==
  ASSUME HandoffInv, NEW r \in Replicas, WorksOnClaim(proc[r]), tombstone => tombstone',
         DoneWithClaim(r)
  PROVE  HandlerMoves(r, proc'[r])
<1>1. CASE proc[r].op \in {"confirm", "cancel", "start"}
  <2>1. Finish(r)
    BY <1>1 DEF DoneWithClaim
  <2> QED BY <2>1, FinishMoves, ClaimHandler DEF Unstored
<1>2. CASE proc[r].op \notin {"confirm", "cancel", "start"}
  <2> DEFINE p == proc[r]
             n == [p EXCEPT !.pc = "next", !.claim = NoClaim]
  <2>1. proc'[r] = n /\ proc' = [proc EXCEPT ![r] = n]
    BY <1>2 DEF DoneWithClaim, HandoffInv, HandoffSane, TypeOK
  <2>2. p \in Task /\ HandlerSane(p) /\ OneClaimEach(p)
    BY HandlerFacts
  <2>3. n \in Task
    BY <2>2, IdleFacts DEF Task, PCs
  <2>4. n.op = p.op /\ n.pc = "next" /\ n.claim = NoClaim /\ n.todo = p.todo
    BY <2>2 DEF Task
  <2> HIDE DEF p, n
  <2>5. HandlerSane(n)
    BY <2>2, <2>4, IdleFacts DEF HandlerSane, ClaimSane, ConfirmPcs, CancelPcs, StartPcs
  <2>6. OneClaimEach(n)
    <3>1. \A c \in p.todo : c.k # None
      BY <2>2, AbsentAssumption DEF HandlerSane, ClaimSane
    <3> QED BY <1>2, <2>2, <2>4, <3>1, IdleFacts DEF p, OneClaimEach
  <2>7. ClaimsFollow(p, n)
    BY <2>4, IdleFacts DEF ClaimsFollow, Owned
  <2>8. StartsFollow(p, n) /\ LetsGo(p, n) /\ PcsBacked(n) /\ RevokeFollows(p, n)
    BY <1>2, <2>4, ClaimHandler DEF p, StartsFollow, LetsGo, Starts, Unstored, Holds, PcsBacked, RevokeFollows
  <2> QED BY <2>1, <2>3, <2>5, <2>6, <2>7, <2>8 DEF HandlerMoves, p
<1> QED BY <1>1, <1>2

LEMMA HandoffFailsMoves ==
  ASSUME HandoffInv, NEW r \in Replicas, WorksOnClaim(proc[r]), tombstone => tombstone',
         HandoffFails(r)
  PROVE  HandlerMoves(r, proc'[r])
<1>1. CASE proc[r].op = "confirm"
  <2>1. Go(r, "defer")
    BY <1>1 DEF HandoffFails
  <2>2. PcsBacked(proc'[r])
    BY <2>1, HandlerFacts DEF Go, PcsBacked, HandoffInv, HandoffSane, TypeOK, Task
  <2> QED BY <2>1, <2>2, GoMoves DEF ConfirmPcs, CancelPcs
<1>2. CASE proc[r].op # "confirm"
  BY <1>2, DoneMoves DEF HandoffFails
<1> QED BY <1>1, <1>2

LEMMA CancellationFailsMoves ==
  ASSUME HandoffInv, NEW r \in Replicas, WorksOnClaim(proc[r]), tombstone => tombstone',
         CancellationFails(r)
  PROVE  HandlerMoves(r, proc'[r])
<1> DEFINE p == proc[r]
<1>1. p \in Task /\ HandlerSane(p) /\ OneClaimEach(p)
  BY HandlerFacts
<1>2. CASE p.op = "revoke"
  <2> DEFINE n == [p EXCEPT !.pc = "defer", !.bad = TRUE]
  <2>1. proc'[r] = n /\ proc' = [proc EXCEPT ![r] = n]
    BY <1>2 DEF CancellationFails, HandoffInv, HandoffSane, TypeOK
  <2>2. n \in Task
    BY <1>1 DEF Task, PCs
  <2>3. n.op = p.op /\ n.pc = "defer" /\ n.claim = p.claim /\ n.todo = p.todo
    BY <1>1 DEF Task
  <2> HIDE DEF p, n
  <2>4. HandlerSane(n) /\ OneClaimEach(n)
    BY <1>1, <2>3 DEF p, HandlerSane, OneClaimEach, WorksOnClaim, ConfirmPcs, CancelPcs, StartPcs, BetweenPcs
  <2>5. ClaimsFollow(p, n)
    BY <2>3 DEF ClaimsFollow, Owned
  <2>6. StartsFollow(p, n) /\ LetsGo(p, n) /\ PcsBacked(n) /\ RevokeFollows(p, n)
    BY <1>2, <2>3, ClaimHandler DEF p, StartsFollow, LetsGo, Starts, Unstored, Holds, PcsBacked, RevokeFollows
  <2> QED BY <2>1, <2>2, <2>4, <2>5, <2>6 DEF HandlerMoves, p
<1>3. CASE p.op \in {"cancel", "start"}
  <2>1. Go(r, "defer")
    BY <1>3 DEF CancellationFails
  <2>2. PcsBacked(proc'[r])
    BY <1>1, <2>1 DEF Go, PcsBacked, HandoffInv, HandoffSane, TypeOK, Task
  <2> QED BY <2>1, <2>2, GoMoves DEF ConfirmPcs, CancelPcs
<1>4. CASE p.op \notin {"revoke", "cancel", "start"}
  BY <1>4, DoneMoves DEF CancellationFails
<1> QED BY <1>2, <1>3, <1>4

-----------------------------------------------------------------------------
(* The steps of a handler that has a claim.                                 *)

LEMMA GoTo ==
  ASSUME HandoffInv, NEW r \in Replicas, NEW pc, Go(r, pc)
  PROVE  proc'[r].pc = pc /\ proc'[r].claim = proc[r].claim
BY HandlerFacts DEF Go, HandoffInv, HandoffSane, TypeOK, Task

LEMMA AssertClaimActiveMoves ==
  ASSUME HandoffInv, NEW r \in Replicas, proc[r].pc \in ConfirmPcs, UNCHANGED <<tombstone, searches>>,
         NEW next \in ConfirmPcs, AssertClaimActive(r, next),
         next \in {"renewAgain", "enqueue"} => <<proc[r].claim.k, proc[r].claim.search>> \in searches
  PROVE  HandlerMoves(r, proc'[r]) /\ RecStep /\ FaultsStep
<1>0. WorksOnClaim(proc[r]) /\ proc[r].claim.act = "confirm"
  BY HandlerFacts DEF WorksOnClaim, HandlerSane
<1>1. FaultsStep
  BY FaultsCounted DEF AssertClaimActive, Fault
<1>2. RecStep
  BY <1>0, SameRec, RenewedStep, ClaimHandler DEF AssertClaimActive
<1>3. CASE HandoffFails(r)
  BY <1>0, <1>1, <1>2, <1>3, HandoffFailsMoves
<1>4. CASE Go(r, next)
  <2>1. PcsBacked(proc'[r])
    BY <1>4, GoTo DEF PcsBacked, ConfirmPcs
  <2> QED BY <1>0, <1>1, <1>2, <1>4, <2>1, GoMoves
<1>5. CASE Go(r, "cancelRenew")
  <2>1. PcsBacked(proc'[r])
    BY <1>5, GoTo DEF PcsBacked
  <2> QED BY <1>0, <1>1, <1>2, <1>5, <2>1, GoMoves DEF ConfirmPcs, CancelPcs
<1>6. RenewState(proc[r].claim) \in {"lost", "cancelled", "active"}
  BY DEF RenewState
<1>7. Go(r, next) \/ Go(r, "cancelRenew") \/ HandoffFails(r)
  BY <1>6 DEF AssertClaimActive
<1> QED BY <1>1, <1>2, <1>3, <1>4, <1>5, <1>7

LEMMA AssertBudgetSteps ==
  ASSUME HandoffInv, NEW r \in Replicas, AssertBudget(r)
  PROVE  HandoffStep
<1>0. proc[r].pc = "renew" /\ UNCHANGED <<pgVars, tombstone, work, index, outVars, steel, stranded>>
  BY DEF AssertBudget, At, revVars
<1>1. WorksOnClaim(proc[r])
  BY <1>0, HandlerFacts DEF WorksOnClaim, HandlerSane, ConfirmPcs
<1>2. HandlerMoves(r, proc'[r]) /\ RecStep /\ FaultsStep
  <2>1. CASE AssertClaimActive(r, "store")
    BY <1>0, <2>1, AssertClaimActiveMoves DEF ConfirmPcs, outVars
  <2>2. CASE Go(r, "cancelRenew") /\ NoFault /\ UNCHANGED rec
    <3>1. PcsBacked(proc'[r])
      BY <2>2, GoTo DEF PcsBacked
    <3> QED BY <1>0, <1>1, <2>2, <3>1, GoMoves, SameRec, FaultsCounted DEF ConfirmPcs, CancelPcs
  <2> QED BY <2>1, <2>2 DEF AssertBudget
<1>3. OutStep
  BY <1>0, <1>2, SameOut DEF HandoffInv, HandoffSane, TypeOK
<1> QED BY <1>0, <1>2, <1>3, SameIndex, SameSteel, SameRev DEF HandoffStep, SharedStep

LEMMA RenewAgainSteps ==
  ASSUME HandoffInv, NEW r \in Replicas, RenewAgain(r)
  PROVE  HandoffStep
<1>0. proc[r].pc = "renewAgain" /\ UNCHANGED <<pgVars, tombstone, work, index, outVars, steel, stranded>>
  BY DEF RenewAgain, At, revVars
<1>1. <<proc[r].claim.k, proc[r].claim.search>> \in searches
  BY <1>0 DEF HandoffInv, SearchStored
<1>2. HandlerMoves(r, proc'[r]) /\ RecStep /\ FaultsStep
  BY <1>0, <1>1, AssertClaimActiveMoves DEF RenewAgain, ConfirmPcs, outVars
<1>3. OutStep
  BY <1>0, <1>2, SameOut DEF HandoffInv, HandoffSane, TypeOK
<1> QED BY <1>0, <1>2, <1>3, SameIndex, SameSteel, SameRev DEF HandoffStep, SharedStep

LEMMA StoreSearchSteps ==
  ASSUME HandoffInv, NEW r \in Replicas, StoreSearch(r)
  PROVE  HandoffStep
<1> DEFINE c == proc[r].claim
<1>0. proc[r].pc = "store" /\ UNCHANGED <<pgVars, tombstone, work, index, jobs, confirms, rec, steel, stranded>>
  BY DEF StoreSearch, At, revVars
<1>1. WorksOnClaim(proc[r]) /\ c.act = "confirm"
  BY <1>0, HandlerFacts DEF WorksOnClaim, HandlerSane, ConfirmPcs
<1>2. FaultsStep
  BY FaultsCounted DEF StoreSearch, Fault
<1>3. c \in Owned(proc[r]) /\ c.k \in Connects /\ c.search \in 1 .. MaxConfirms
  BY <1>1, ClaimHandler, HandlerFacts, HandoffAssumption
     DEF WorksOnClaim, ClaimSane, Task, HeldClaim
<1> HIDE DEF c
<1>4. CASE searches' = searches \cup {<<c.k, c.search>>} /\ Go(r, "renewAgain")
  <2>1. PcsBacked(proc'[r])
    BY <1>4, GoTo DEF PcsBacked, c
  <2>2. HandlerMoves(r, proc'[r])
    BY <1>0, <1>1, <1>4, <2>1, GoMoves DEF ConfirmPcs, c
  <2>3. \A i \in searches' \ searches : \E q \in Replicas : \E d \in Owned(proc[q]) :
          d.act = "confirm" /\ i = <<d.k, d.search>>
    BY <1>1, <1>3, <1>4
  <2>4. OutStep
    BY <1>0, <1>2, <1>3, <1>4, <2>3 DEF OutStep, FaultsStep, HandoffInv, HandoffSane, TypeOK
  <2> QED BY <1>0, <2>2, <2>4, SameRec, SameIndex, SameSteel, SameRev DEF HandoffStep, SharedStep
<1>5. CASE HandoffFails(r) /\ UNCHANGED searches
  <2>1. OutStep
    BY <1>0, <1>2, <1>5, SameOut DEF outVars, HandoffInv, HandoffSane, TypeOK
  <2>2. HandlerMoves(r, proc'[r])
    BY <1>0, <1>1, <1>5, HandoffFailsMoves
  <2> QED BY <1>0, <2>1, <2>2, SameRec, SameIndex, SameSteel, SameRev DEF HandoffStep, SharedStep
<1> QED BY <1>4, <1>5 DEF StoreSearch, c

LEMMA StartSnapshotSteps ==
  ASSUME HandoffInv, NEW r \in Replicas, StartSnapshot(r)
  PROVE  HandoffStep
<1> DEFINE c == proc[r].claim
<1>0. proc[r].pc = "enqueue" /\ UNCHANGED <<pgVars, tombstone, work, index, searches, confirms, rec, steel, stranded>>
  BY DEF StartSnapshot, At, revVars
<1>1. WorksOnClaim(proc[r]) /\ c.act = "confirm"
  BY <1>0, HandlerFacts DEF WorksOnClaim, HandlerSane, ConfirmPcs
<1>2. FaultsStep
  BY FaultsCounted DEF StartSnapshot, Fault
<1>3. <<c.k, c.search>> \in searches
  BY <1>0 DEF HandoffInv, SearchStored
<1>4. jobs \subseteq jobs' /\ jobs' \subseteq jobs \cup searches
  BY <1>3 DEF StartSnapshot
<1>5. OutStep
  BY <1>0, <1>2, <1>4 DEF OutStep, FaultsStep, HandoffInv, HandoffSane, TypeOK
<1>6. HandlerMoves(r, proc'[r])
  <2>1. CASE Go(r, "ack")
    <3>1. PcsBacked(proc'[r])
      BY <2>1, GoTo DEF PcsBacked
    <3> QED BY <1>0, <1>1, <2>1, <3>1, GoMoves DEF ConfirmPcs
  <2>2. CASE HandoffFails(r)
    BY <1>0, <1>1, <2>2, HandoffFailsMoves
  <2> QED BY <2>1, <2>2 DEF StartSnapshot
<1> QED BY <1>0, <1>5, <1>6, SameRec, SameIndex, SameSteel, SameRev DEF HandoffStep, SharedStep

LEMMA AckHandoffSteps ==
  ASSUME HandoffInv, NEW r \in Replicas, AckHandoff(r)
  PROVE  HandoffStep
<1> DEFINE c == proc[r].claim
<1>0. proc[r].pc = "ack" /\ UNCHANGED <<pgVars, tombstone, work, outVars, steel, stranded>>
  BY DEF AckHandoff, At
<1>1. WorksOnClaim(proc[r]) /\ c.act = "confirm"
  BY <1>0, HandlerFacts DEF WorksOnClaim, HandlerSane, ConfirmPcs
<1>2. FaultsStep
  BY FaultsCounted DEF AckHandoff, Fault
<1>3. OutStep
  BY <1>0, <1>2, SameOut DEF HandoffInv, HandoffSane, TypeOK
<1>4. CASE Ack(c) /\ DoneWithClaim(r)
  <2>1. c.k \in Connects /\ rec[c.k] # None /\ rec[c.k] \in Record /\ RecordSane(rec[c.k])
    BY <1>1, <1>4, ClaimHandler DEF Ack, Owns, HandoffInv, HandoffSane, TypeOK, RecordsSane
  <2>2. index' = index /\ rec' = [rec EXCEPT ![c.k] = AckScript(rec[c.k], "confirm")]
    BY <1>1, <1>4 DEF Ack
  <2>3. RecStep
    BY <2>1, <2>2, AckScriptFacts, OneRecord
  <2>4. HandlerMoves(r, proc'[r])
    BY <1>0, <1>1, <1>4, DoneMoves
  <2> QED BY <1>0, <1>3, <2>2, <2>3, <2>4, SameIndex, SameSteel, SameRev DEF HandoffStep, SharedStep
<1>5. CASE Go(r, "recheck") /\ UNCHANGED <<rec, index>>
  <2>1. PcsBacked(proc'[r])
    BY <1>5, GoTo DEF PcsBacked
  <2>2. HandlerMoves(r, proc'[r])
    BY <1>0, <1>1, <1>5, <2>1, GoMoves DEF ConfirmPcs
  <2> QED BY <1>0, <1>3, <1>5, <2>2, SameRec, SameIndex, SameSteel, SameRev DEF HandoffStep, SharedStep
<1>6. CASE HandoffFails(r) /\ UNCHANGED <<rec, index>>
  <2>1. HandlerMoves(r, proc'[r])
    BY <1>0, <1>1, <1>6, HandoffFailsMoves
  <2> QED BY <1>0, <1>3, <1>6, <2>1, SameRec, SameIndex, SameSteel, SameRev DEF HandoffStep, SharedStep
<1> QED BY <1>4, <1>5, <1>6 DEF AckHandoff

LEMMA RecheckSteps ==
  ASSUME HandoffInv, NEW r \in Replicas, Recheck(r)
  PROVE  HandoffStep
<1>0. proc[r].pc = "recheck" /\ UNCHANGED <<pgVars, tombstone, work, index, outVars, steel, stranded>>
  BY DEF Recheck, At, revVars
<1>1. WorksOnClaim(proc[r])
  BY <1>0, HandlerFacts DEF WorksOnClaim, HandlerSane, ConfirmPcs
<1>2. FaultsStep
  BY FaultsCounted DEF Recheck, Fault
<1>3. RecStep
  BY <1>1, SameRec, RenewedStep, ClaimHandler DEF Recheck
<1>4. HandlerMoves(r, proc'[r])
  <2>1. CASE Go(r, "cancelRenew")
    <3>1. PcsBacked(proc'[r])
      BY <2>1, GoTo DEF PcsBacked
    <3> QED BY <1>0, <1>1, <2>1, <3>1, GoMoves DEF ConfirmPcs, CancelPcs
  <2>2. CASE HandoffFails(r)
    BY <1>0, <1>1, <2>2, HandoffFailsMoves
  <2> QED BY <2>1, <2>2 DEF Recheck
<1>5. OutStep
  BY <1>0, <1>2, SameOut DEF HandoffInv, HandoffSane, TypeOK
<1> QED BY <1>0, <1>3, <1>4, <1>5, SameIndex, SameSteel, SameRev DEF HandoffStep, SharedStep

LEMMA CancelRenewSteps ==
  ASSUME HandoffInv, NEW r \in Replicas, CancelRenew(r)
  PROVE  HandoffStep
<1>0. proc[r].pc = "cancelRenew" /\ UNCHANGED <<pgVars, tombstone, work, index, outVars, steel, stranded>>
  BY DEF CancelRenew, At, revVars
<1>1. WorksOnClaim(proc[r])
  BY <1>0, HandlerFacts DEF WorksOnClaim, HandlerSane, CancelPcs
<1>2. FaultsStep
  BY FaultsCounted DEF CancelRenew, Fault
<1>3. RecStep
  BY <1>1, SameRec, RenewedStep, ClaimHandler DEF CancelRenew
<1>4. HandlerMoves(r, proc'[r])
  <2>1. CASE Go(r, "release")
    <3>1. PcsBacked(proc'[r])
      BY <2>1, GoTo DEF PcsBacked
    <3> QED BY <1>0, <1>1, <2>1, <3>1, GoMoves DEF ConfirmPcs, CancelPcs
  <2>2. CASE CancellationFails(r)
    BY <1>0, <1>1, <2>2, CancellationFailsMoves
  <2> QED BY <2>1, <2>2 DEF CancelRenew
<1>5. OutStep
  BY <1>0, <1>2, SameOut DEF HandoffInv, HandoffSane, TypeOK
<1> QED BY <1>0, <1>3, <1>4, <1>5, SameIndex, SameSteel, SameRev DEF HandoffStep, SharedStep

(* The session is released, or maybe not. *)
LEMMA GoneStep ==
  ASSUME HandoffInv, NEW k \in Connects, steel' \in {steel, [steel EXCEPT ![k] = "gone"]}
  PROVE  SteelStep
BY DEF SteelStep, HandoffInv, HandoffSane, TypeOK

LEMMA ReleaseSteps ==
  ASSUME HandoffInv, NEW r \in Replicas, ReleaseSteelSession(r)
  PROVE  HandoffStep
<1> DEFINE k == proc[r].claim.k
<1>0. proc[r].pc = "release" /\ UNCHANGED <<pgVars, tombstone, work, index, outVars, rec, stranded>>
  BY DEF ReleaseSteelSession, At, revVars
<1>1. WorksOnClaim(proc[r])
  BY <1>0, HandlerFacts DEF WorksOnClaim, HandlerSane, CancelPcs
<1>2. k \in Connects
  BY <1>1, ClaimHandler
<1>3. FaultsStep
  BY FaultsCounted DEF ReleaseSteelSession, ReleaseRemote, Fault
<1>4. SteelStep
  BY <1>2, GoneStep DEF ReleaseSteelSession, ReleaseRemote
<1>5. HandlerMoves(r, proc'[r])
  <2>1. CASE steel' = [steel EXCEPT ![k] = "gone"] /\ Go(r, "cancelAck")
    <3>1. PcsBacked(proc'[r])
      BY <1>2, <2>1, GoTo DEF PcsBacked, HandoffInv, HandoffSane, TypeOK
    <3> QED BY <1>0, <1>1, <2>1, <3>1, GoMoves DEF ConfirmPcs, CancelPcs
  <2>2. CASE CancellationFails(r)
    BY <1>0, <1>1, <2>2, CancellationFailsMoves
  <2> QED BY <2>1, <2>2 DEF ReleaseSteelSession, ReleaseRemote
<1>6. OutStep
  BY <1>0, <1>3, SameOut DEF HandoffInv, HandoffSane, TypeOK
<1> QED BY <1>0, <1>4, <1>5, <1>6, SameIndex, SameRec, SameRev DEF HandoffStep, SharedStep

LEMMA CancelAckSteps ==
  ASSUME HandoffInv, NEW r \in Replicas, CancelAck(r)
  PROVE  HandoffStep
<1> DEFINE c == proc[r].claim
<1>0. proc[r].pc = "cancelAck" /\ UNCHANGED <<pgVars, tombstone, work, outVars, steel, stranded>>
  BY DEF CancelAck, At
<1>1. WorksOnClaim(proc[r]) /\ steel[c.k] = "gone"
  BY <1>0, HandlerFacts DEF WorksOnClaim, HandlerSane, CancelPcs, HandoffInv, CancelledGone
<1>2. FaultsStep
  BY FaultsCounted DEF CancelAck, Fault
<1>3. OutStep
  BY <1>0, <1>2, SameOut DEF HandoffInv, HandoffSane, TypeOK
<1>4. CASE Ack(c) /\ DoneWithClaim(r)
  <2>1. c.k \in Connects /\ rec[c.k] # None /\ rec[c.k] \in Record /\ RecordSane(rec[c.k])
    BY <1>1, <1>4, ClaimHandler DEF Ack, Owns, HandoffInv, HandoffSane, TypeOK, RecordsSane
  <2>2. HandlerMoves(r, proc'[r])
    BY <1>0, <1>1, <1>4, DoneMoves
  <2>3. CASE c.act = "confirm"
    <3>1. index' = index /\ rec' = [rec EXCEPT ![c.k] = AckScript(rec[c.k], "confirm")]
      BY <1>4, <2>3 DEF Ack
    <3>2. RecStep
      BY <2>1, <3>1, AckScriptFacts, OneRecord
    <3> QED BY <1>0, <1>3, <2>2, <3>1, <3>2, SameIndex, SameSteel, SameRev DEF HandoffStep, SharedStep
  <2>4. CASE c.act # "confirm"
    <3>1. index' = index \ {c.k} /\ rec' = [rec EXCEPT ![c.k] = None]
      BY <1>4, <2>4 DEF Ack, AckScript
    <3>2. RecStep
      BY <1>0, <1>1, <2>1, <3>1 DEF RecStep, HandoffInv, HandoffSane, TypeOK, RecordsSane
    <3>3. IndexStep
      BY <2>1, <3>1 DEF IndexStep, HandoffInv, HandoffSane, TypeOK
    <3> QED BY <1>0, <1>3, <2>2, <3>2, <3>3, SameSteel, SameRev DEF HandoffStep, SharedStep
  <2> QED BY <2>3, <2>4
<1>5. CASE DoneWithClaim(r) /\ UNCHANGED <<rec, index>>
  <2>1. HandlerMoves(r, proc'[r])
    BY <1>0, <1>1, <1>5, DoneMoves
  <2> QED BY <1>0, <1>3, <1>5, <2>1, SameRec, SameIndex, SameSteel, SameRev DEF HandoffStep, SharedStep
<1>6. CASE CancellationFails(r) /\ UNCHANGED <<rec, index>>
  <2>1. HandlerMoves(r, proc'[r])
    BY <1>0, <1>1, <1>6, CancellationFailsMoves
  <2> QED BY <1>0, <1>3, <1>6, <2>1, SameRec, SameIndex, SameSteel, SameRev DEF HandoffStep, SharedStep
<1> QED BY <1>4, <1>5, <1>6 DEF CancelAck

LEMMA DeferSteps ==
  ASSUME HandoffInv, NEW r \in Replicas, Defer(r)
  PROVE  HandoffStep
<1> DEFINE c == proc[r].claim
<1>0. proc[r].pc = "defer" /\ UNCHANGED <<pgVars, tombstone, work, index, outVars, steel, stranded>>
  BY DEF Defer, At, revVars
<1>1. WorksOnClaim(proc[r])
  BY <1>0, HandlerFacts DEF WorksOnClaim, HandlerSane, CancelPcs
<1>2. FaultsStep
  BY FaultsCounted DEF Defer, Fault
<1>3. RecStep
  <2>1. CASE rec' = [rec EXCEPT ![c.k] = Deferred(c)]
    <3>1. CASE Owns(c)
      BY <1>1, <2>1, <3>1, ClaimHandler, OneLease DEF Deferred, Owns
    <3>2. CASE ~Owns(c)
      BY <1>1, <2>1, <3>2, ClaimHandler, SameRec DEF Deferred, HandoffInv, HandoffSane, TypeOK
    <3> QED BY <3>1, <3>2
  <2>2. CASE UNCHANGED rec
    BY <2>2, SameRec
  <2> QED BY <2>1, <2>2 DEF Defer
<1>4. HandlerMoves(r, proc'[r])
  BY <1>0, <1>1, DoneMoves DEF Defer
<1>5. OutStep
  BY <1>0, <1>2, SameOut DEF HandoffInv, HandoffSane, TypeOK
<1> QED BY <1>0, <1>3, <1>4, <1>5, SameIndex, SameSteel, SameRev DEF HandoffStep, SharedStep

-----------------------------------------------------------------------------
(* Requests: a start and its way to a stored handoff, confirm and cancel.   *)

(* A handler that begins request o. *)
Begun(o, pc, d) == [Idle EXCEPT !.op = o, !.pc = pc, !.claim = d]

LEMMA BegunFacts ==
  ASSUME NEW o, NEW pc, NEW d
  PROVE  /\ Begun(o, pc, d).op = o /\ Begun(o, pc, d).pc = pc
         /\ Begun(o, pc, d).claim = d /\ Begun(o, pc, d).todo = {}
         /\ o \in Ops /\ pc \in PCs /\ d \in HeldClaim => Begun(o, pc, d) \in Task
<1>1. Idle \in Task
  BY IdleFacts
<1>2. Idle.todo = {}
  BY DEF Idle
<1> QED BY <1>1, <1>2 DEF Task, Begun

LEMMA StartConnectSteps ==
  ASSUME HandoffInv, NEW r \in Replicas, NEW k \in Connects, StartConnect(r, k)
  PROVE  HandoffStep
<1> DEFINE d == [NoClaim EXCEPT !.k = k]
           n == Begun("start", "create", d)
<1>0. /\ proc[r].pc = "idle" /\ steel[k] = "none"
      /\ \A q \in Replicas : ~Starts(proc[q], k)
      /\ UNCHANGED <<pgVars, tombstone, work, index, outVars, rec, steel, faults, stranded>>
  BY DEF StartConnect, At, revVars, Starts
<1>1. proc'[r] = n /\ proc' = [proc EXCEPT ![r] = n]
  BY DEF StartConnect, Begun, HandoffInv, HandoffSane, TypeOK
<1>2. d \in HeldClaim /\ d.k = k /\ d.tok = 0
  BY IdleFacts DEF HeldClaim
<1>3. /\ n.op = "start" /\ n.pc = "create" /\ n.claim = d /\ n.todo = {}
      /\ n \in Task
  <2>1. "start" \in Ops /\ "create" \in PCs
    BY DEF Ops, PCs
  <2> HIDE DEF d
  <2> QED BY <1>2, <2>1, BegunFacts
<1> HIDE DEF n, d
<1>4. HandlerSane(n) /\ OneClaimEach(n)
  BY <1>2, <1>3 DEF HandlerSane, OneClaimEach, ClaimSane, StartPcs, ConfirmPcs, CancelPcs, BetweenPcs
<1>5. ClaimsFollow(proc[r], n)
  BY <1>2, <1>3 DEF ClaimsFollow, Owned
<1>6. /\ StartsFollow(proc[r], n) /\ LetsGo(proc[r], n) /\ PcsBacked(n) /\ RevokeFollows(proc[r], n)
  BY <1>0, <1>2, <1>3 DEF StartsFollow, LetsGo, Starts, Holds, PcsBacked, RevokeFollows
<1>7. HandlerMoves(r, proc'[r])
  BY <1>1, <1>3, <1>4, <1>5, <1>6 DEF HandlerMoves
<1>8. OutStep
  BY <1>0, SameOut, FaultsCounted DEF NoFault, HandoffInv, HandoffSane, TypeOK
<1> QED BY <1>0, <1>7, <1>8, SameRec, SameIndex, SameSteel, SameRev DEF HandoffStep, SharedStep

HoldingPcs == {"secure", "put", "restore", "terminate"}

(* A start goes on, and keeps its session until it is stored. *)
LEMMA StartMoves ==
  ASSUME HandoffInv, NEW r \in Replicas, proc[r].pc \in StartPcs, proc[r].claim.tok = 0,
         NEW pc \in StartPcs \ {"create"}, Go(r, pc),
         pc \in HoldingPcs => proc[r].pc \in HoldingPcs \/
                              (proc[r].pc = "create" /\ steel'[proc[r].claim.k] # "none"),
         proc[r].pc \in HoldingPcs => pc \in HoldingPcs \/ rec'[proc[r].claim.k] # None
  PROVE  HandlerMoves(r, proc'[r])
<1> DEFINE p == proc[r]
           n == [p EXCEPT !.pc = pc]
<1>1. proc'[r] = n /\ proc' = [proc EXCEPT ![r] = n]
  BY DEF Go, HandoffInv, HandoffSane, TypeOK
<1>2. p \in Task /\ HandlerSane(p) /\ OneClaimEach(p)
  BY HandlerFacts
<1>3. n \in Task
  BY <1>2 DEF Task, StartPcs, PCs
<1>4. n.op = p.op /\ n.pc = pc /\ n.claim = p.claim /\ n.todo = p.todo
  BY <1>2 DEF Task
<1>5. p.op = "start" /\ p.claim.k \in Connects
  BY <1>2 DEF HandlerSane
<1> HIDE DEF p, n
<1>6. HandlerSane(n) /\ OneClaimEach(n)
  BY <1>2, <1>4, <1>5 DEF p, HandlerSane, OneClaimEach, ConfirmPcs, CancelPcs, StartPcs, BetweenPcs
<1>7. ClaimsFollow(p, n)
  BY <1>4 DEF ClaimsFollow, Owned
<1>8. StartsFollow(p, n) /\ LetsGo(p, n)
  BY <1>4, <1>5 DEF p, StartsFollow, LetsGo, Starts, Unstored, Holds, HoldingPcs, StartPcs
<1>9. PcsBacked(n) /\ RevokeFollows(p, n)
  BY <1>4, <1>5 DEF PcsBacked, RevokeFollows, StartPcs
<1> QED BY <1>1, <1>3, <1>6, <1>7, <1>8, <1>9 DEF HandlerMoves, p

LEMMA StartHandler ==
  ASSUME HandoffInv, NEW r \in Replicas, proc[r].pc \in StartPcs,
         proc[r].pc = "terminate" => proc[r].claim.tok = 0
  PROVE  /\ proc[r].claim.tok = 0 /\ proc[r].claim.k \in Connects
         /\ Starts(proc[r], proc[r].claim.k)
         /\ proc[r].pc \in HoldingPcs => Holds(proc[r], proc[r].claim.k)
         /\ \A k \in Connects : Holds(proc[r], k) => k = proc[r].claim.k /\ proc[r].pc \in HoldingPcs
BY HandlerFacts DEF HandlerSane, StartPcs, Starts, Holds, HoldingPcs

LEMMA BestEffortFacts ==
  ASSUME HandoffInv, NEW k \in Connects, BestEffortRelease(k),
         \E r \in Replicas : Unstored(proc[r], k)
  PROVE  /\ SteelStep /\ FaultsStep
         /\ stranded \subseteq stranded' /\ stranded' \subseteq Connects
         /\ steel'[k] = "gone" \/ k \in stranded'
<1>1. FaultsStep
  BY FaultsCounted DEF BestEffortRelease, Fault
<1>2. /\ stranded \subseteq stranded' /\ stranded' \subseteq Connects
      /\ steel'[k] = "gone" \/ k \in stranded'
  BY DEF BestEffortRelease, HandoffInv, HandoffSane, TypeOK
<1>3. SteelStep
  BY DEF BestEffortRelease, SteelStep, HandoffInv, HandoffSane, TypeOK
<1> QED BY <1>1, <1>2, <1>3

LEMMA CreateSessionSteps ==
  ASSUME HandoffInv, NEW r \in Replicas, CreateSession(r)
  PROVE  HandoffStep
<1> DEFINE k == proc[r].claim.k
<1>0. proc[r].pc = "create" /\ UNCHANGED <<pgVars, tombstone, work, index, outVars, rec>>
  BY DEF CreateSession, At, revVars
<1>1. k \in Connects /\ proc[r].claim.tok = 0 /\ Unstored(proc[r], k)
      /\ \A j \in Connects : ~Holds(proc[r], j)
  BY <1>0, StartHandler DEF StartPcs, Unstored, HoldingPcs
<1>2. CASE steel' = [steel EXCEPT ![k] = "live"] /\ Go(r, "secure") /\ NoFault /\ UNCHANGED stranded
  <2>1. steel'[k] = "live" /\ \A j \in Connects \ {k} : steel'[j] = steel[j]
    BY <1>1, <1>2 DEF HandoffInv, HandoffSane, TypeOK
  <2>2. HandlerMoves(r, proc'[r])
    BY <1>0, <1>1, <1>2, <2>1, StartMoves DEF StartPcs, HoldingPcs
  <2>3. Holds(proc'[r], k)
    <3>1. proc'[r].op = "start"
      BY <1>0, <1>2, HandlerFacts DEF Go, HandlerSane, StartPcs, HandoffInv, HandoffSane, TypeOK, Task
    <3> QED BY <1>2, <3>1, GoTo DEF Holds, Starts
  <2>4. SteelStep
    BY <1>1, <1>2, <2>1, <2>3 DEF SteelStep, HandoffInv, HandoffSane, TypeOK
  <2>5. OutStep
    BY <1>0, <1>2, SameOut, FaultsCounted DEF HandoffInv, HandoffSane, TypeOK
  <2> QED BY <1>0, <2>2, <2>4, <2>5, SameRec, SameIndex, SameRev DEF HandoffStep, SharedStep
<1>3. CASE BestEffortRelease(k) /\ Finish(r)
  <2>1. HandlerMoves(r, proc'[r])
    BY <1>1, <1>3, FinishMoves
  <2>2. SteelStep /\ OutStep
    BY <1>0, <1>1, <1>3, BestEffortFacts, SameOut
  <2> QED BY <1>0, <2>1, <2>2, SameRec, SameIndex, SameRev DEF HandoffStep, SharedStep
<1> QED BY <1>2, <1>3 DEF CreateSession

LEMMA SecureHandoffSteps ==
  ASSUME HandoffInv, NEW r \in Replicas, SecureHandoff(r)
  PROVE  HandoffStep
<1> DEFINE k == proc[r].claim.k
<1>0. proc[r].pc = "secure" /\ UNCHANGED <<pgVars, tombstone, work, index, outVars, rec>>
  BY DEF SecureHandoff, At, revVars
<1>1. k \in Connects /\ proc[r].claim.tok = 0 /\ Unstored(proc[r], k)
      /\ \A j \in Connects : Holds(proc[r], j) => j = k
  BY <1>0, StartHandler DEF StartPcs, Unstored, HoldingPcs
<1>2. CASE Go(r, "put") /\ NoFault /\ UNCHANGED <<steel, stranded>>
  <2>1. HandlerMoves(r, proc'[r])
    BY <1>0, <1>1, <1>2, StartMoves DEF StartPcs, HoldingPcs
  <2>2. OutStep
    BY <1>0, <1>2, SameOut, FaultsCounted DEF HandoffInv, HandoffSane, TypeOK
  <2> QED BY <1>0, <1>2, <2>1, <2>2, SameRec, SameIndex, SameSteel, SameRev DEF HandoffStep, SharedStep
<1>3. CASE BestEffortRelease(k) /\ Finish(r)
  <2>1. SteelStep /\ OutStep /\ (steel'[k] = "gone" \/ k \in stranded')
    BY <1>0, <1>1, <1>3, BestEffortFacts, SameOut
  <2>2. HandlerMoves(r, proc'[r])
    BY <1>1, <1>3, <2>1, FinishMoves
  <2> QED BY <1>0, <2>1, <2>2, SameRec, SameIndex, SameRev DEF HandoffStep, SharedStep
<1> QED BY <1>2, <1>3 DEF SecureHandoff

(* The start that holds an unstored session stores its handoff. *)
LEMMA StoresRecord ==
  ASSUME HandoffInv, NEW r \in Replicas, NEW k \in Connects, Holds(proc[r], k),
         ~Unstored(proc'[r], k), NEW v \in Record, RecordSane(v),
         v.cancel \/ (~tombstone /\ k \in index'), rec' = [rec EXCEPT ![k] = v]
  PROVE  RecStep /\ rec'[k] = v /\ v # None
BY AbsentAssumption DEF RecStep, HandoffInv, HandoffSane, TypeOK, RecordsSane

LEMMA PutHandoffSteps ==
  ASSUME HandoffInv, NEW r \in Replicas, PutHandoff(r)
  PROVE  HandoffStep
<1> DEFINE k == proc[r].claim.k
<1>0. proc[r].pc = "put" /\ UNCHANGED <<pgVars, tombstone, work, outVars, steel, stranded>>
  BY DEF PutHandoff, At
<1>1. k \in Connects /\ proc[r].claim.tok = 0 /\ Holds(proc[r], k)
  BY <1>0, StartHandler DEF StartPcs, HoldingPcs
<1>2. OutStep
  BY <1>0, SameOut, FaultsCounted DEF PutHandoff, Fault, HandoffInv, HandoffSane, TypeOK
<1>3. CASE /\ ~tombstone /\ rec' = [rec EXCEPT ![k] = StoredHandoff]
           /\ index' = index \cup {k} /\ Go(r, "assert")
  <2>1. ~Unstored(proc'[r], k)
    BY <1>3, GoTo DEF Unstored, Holds
  <2>2. RecStep /\ rec'[k] # None
    BY <1>1, <1>3, <2>1, StoresRecord, StoredFacts
  <2>3. HandlerMoves(r, proc'[r])
    BY <1>0, <1>1, <1>3, <2>2, StartMoves DEF StartPcs, HoldingPcs
  <2>4. IndexStep
    BY <1>1, <1>3 DEF IndexStep, HandoffInv, HandoffSane, TypeOK
  <2> QED BY <1>0, <1>2, <2>2, <2>3, <2>4, SameSteel, SameRev DEF HandoffStep, SharedStep
<1>4. CASE Go(r, "terminate") /\ UNCHANGED <<rec, index>>
  <2>1. HandlerMoves(r, proc'[r])
    BY <1>0, <1>1, <1>4, StartMoves DEF StartPcs, HoldingPcs
  <2> QED BY <1>0, <1>2, <1>4, <2>1, SameRec, SameIndex, SameSteel, SameRev DEF HandoffStep, SharedStep
<1> QED BY <1>3, <1>4 DEF PutHandoff

LEMMA AssertConsentSteps ==
  ASSUME HandoffInv, NEW r \in Replicas, AssertConsent(r)
  PROVE  HandoffStep
<1>0. proc[r].pc = "assert" /\ UNCHANGED <<pgVars, tombstone, work, index, outVars, rec, steel, stranded>>
  BY DEF AssertConsent, At, revVars
<1>1. proc[r].claim.tok = 0 /\ \A k \in Connects : ~Holds(proc[r], k)
  BY <1>0, StartHandler DEF StartPcs, HoldingPcs
<1>2. OutStep
  BY <1>0, SameOut, FaultsCounted DEF AssertConsent, Fault, HandoffInv, HandoffSane, TypeOK
<1>3. HandlerMoves(r, proc'[r])
  <2>1. CASE Finish(r)
    BY <1>1, <2>1, FinishMoves
  <2>2. CASE Go(r, "cleanup")
    BY <1>0, <1>1, <2>2, StartMoves DEF StartPcs, HoldingPcs
  <2> QED BY <2>1, <2>2 DEF AssertConsent
<1> QED BY <1>0, <1>2, <1>3, SameRec, SameIndex, SameSteel, SameRev DEF HandoffStep, SharedStep

LEMMA CleanupClaimSteps ==
  ASSUME HandoffInv, NEW r \in Replicas, CleanupClaim(r)
  PROVE  HandoffStep
<1> DEFINE p == proc[r]
           k == proc[r].claim.k
           c == ClaimHandoff(k, "cancel", 0)
<1>0. p.pc = "cleanup" /\ UNCHANGED <<pgVars, tombstone, work, index, outVars, steel, stranded>>
  BY DEF CleanupClaim, At, revVars
<1>1. k \in Connects /\ p.claim.tok = 0 /\ Starts(p, k) /\ \A j \in Connects : ~Holds(p, j)
  BY <1>0, StartHandler DEF StartPcs, HoldingPcs
<1>2. OutStep
  BY <1>0, SameOut, FaultsCounted DEF CleanupClaim, Fault, HandoffInv, HandoffSane, TypeOK
<1>3. ASSUME Finish(r) PROVE HandlerMoves(r, proc'[r])
  BY <1>1, <1>3, FinishMoves
<1>4. CASE rec[k] # None /\ rec' = [rec EXCEPT ![k] = c.value]
           /\ IF c.reply = "claimed"
              THEN proc' = [proc EXCEPT ![r].pc = "terminate", ![r].claim = ToClaim(k, c.value)]
              ELSE Finish(r)
  <2> DEFINE d == ToClaim(k, c.value)
             n == [p EXCEPT !.pc = "terminate", !.claim = d]
  <2>1. ClaimMade(k, c)
    <3>1. ClaimsAs(k, "cancel", 0, c)
      BY <1>4, HandoffAssumption DEF ClaimsAs
    <3> QED BY <1>1, <3>1, ClaimStepFacts
  <2>2. ASSUME c.reply = "claimed" PROVE HandlerMoves(r, proc'[r])
    <3>0. ClaimOf(k, d)
      BY <2>1, <2>2 DEF ClaimMade
    <3> HIDE DEF c
    <3>1. proc'[r] = n /\ proc' = [proc EXCEPT ![r] = n]
      BY <1>4, <2>2 DEF HandoffInv, HandoffSane, TypeOK
    <3>2. p \in Task /\ HandlerSane(p) /\ OneClaimEach(p)
      BY HandlerFacts
    <3>3. d \in HeldClaim
      BY <3>0 DEF ClaimOf, Claim, HeldClaim
    <3> HIDE DEF d
    <3>4. n \in Task
      BY <3>2, <3>3 DEF Task, PCs
    <3>5. n.op = p.op /\ n.pc = "terminate" /\ n.claim = d /\ n.todo = p.todo
      BY <3>2 DEF Task
    <3>6. p.op = "start" /\ p.todo = {}
      BY <1>0, <3>2 DEF HandlerSane, OneClaimEach, StartPcs
    <3> HIDE DEF p, n, k
    <3>7. HandlerSane(n) /\ OneClaimEach(n)
      BY <1>1, <3>0, <3>5, <3>6
         DEF ClaimOf, HandlerSane, OneClaimEach, ConfirmPcs, CancelPcs, StartPcs, BetweenPcs
    <3>8. ClaimsFollow(p, n)
      BY <3>0, <3>5, <3>6 DEF ClaimOf, ClaimsFollow, Owned
    <3>9. StartsFollow(p, n) /\ LetsGo(p, n) /\ PcsBacked(n) /\ RevokeFollows(p, n)
      BY <1>1, <3>0, <3>5, <3>6
         DEF ClaimOf, StartsFollow, LetsGo, Starts, Unstored, Holds, PcsBacked, RevokeFollows
    <3> QED BY <3>1, <3>4, <3>7, <3>8, <3>9 DEF HandlerMoves, p
  <2>3. HandlerMoves(r, proc'[r])
    BY <1>3, <1>4, <2>2
  <2>4. RecStep
    BY <2>1 DEF ClaimMade
  <2> QED BY <1>0, <1>2, <2>3, <2>4, SameIndex, SameSteel, SameRev DEF HandoffStep, SharedStep
<1>5. CASE Finish(r) /\ UNCHANGED rec
  BY <1>0, <1>2, <1>3, <1>5, SameRec, SameIndex, SameSteel, SameRev DEF HandoffStep, SharedStep
<1> QED BY <1>4, <1>5 DEF CleanupClaim

LEMMA TerminateSteps ==
  ASSUME HandoffInv, NEW r \in Replicas, Terminate(r)
  PROVE  HandoffStep
<1> DEFINE k == proc[r].claim.k
<1>0. proc[r].pc = "terminate" /\ UNCHANGED <<pgVars, tombstone, work, index, outVars, rec, stranded>>
  BY DEF Terminate, At, revVars
<1>1. k \in Connects
  BY <1>0, HandlerFacts DEF HandlerSane, StartPcs
<1>2. OutStep
  BY <1>0, SameOut, FaultsCounted DEF Terminate, ReleaseRemote, Fault, HandoffInv, HandoffSane, TypeOK
<1>3. SteelStep
  BY <1>1, GoneStep DEF Terminate, ReleaseRemote
<1>4. CASE proc[r].claim.tok # 0
  <2>1. WorksOnClaim(proc[r])
    BY <1>0, <1>4 DEF WorksOnClaim
  <2>2. CASE steel' = [steel EXCEPT ![k] = "gone"] /\ Go(r, "cancelAck")
    <3>1. PcsBacked(proc'[r])
      BY <1>1, <2>2, GoTo DEF PcsBacked, HandoffInv, HandoffSane, TypeOK
    <3> QED BY <1>0, <1>2, <1>3, <2>1, <2>2, <3>1, GoMoves, SameRec, SameIndex, SameRev
            DEF ConfirmPcs, CancelPcs, HandoffStep, SharedStep
  <2>3. CASE Go(r, "defer")
    <3>1. PcsBacked(proc'[r])
      BY <2>3, GoTo DEF PcsBacked
    <3> QED BY <1>0, <1>2, <1>3, <2>1, <2>3, <3>1, GoMoves, SameRec, SameIndex, SameRev
            DEF ConfirmPcs, CancelPcs, HandoffStep, SharedStep
  <2> QED BY <1>4, <2>2, <2>3 DEF Terminate, ReleaseRemote
<1>5. CASE proc[r].claim.tok = 0
  <2>1. Holds(proc[r], k) /\ \A j \in Connects : Holds(proc[r], j) => j = k
    BY <1>0, <1>5, StartHandler DEF StartPcs, HoldingPcs
  <2>2. CASE steel' = [steel EXCEPT ![k] = "gone"] /\ Finish(r)
    <3>1. steel'[k] = "gone"
      BY <1>1, <2>2 DEF HandoffInv, HandoffSane, TypeOK
    <3>2. HandlerMoves(r, proc'[r])
      BY <2>1, <2>2, <3>1, FinishMoves
    <3> QED BY <1>0, <1>2, <1>3, <3>2, SameRec, SameIndex, SameRev DEF HandoffStep, SharedStep
  <2>3. CASE Go(r, "restore")
    <3>1. HandlerMoves(r, proc'[r])
      BY <1>0, <1>5, <2>3, StartMoves DEF StartPcs, HoldingPcs
    <3> QED BY <1>0, <1>2, <1>3, <3>1, SameRec, SameIndex, SameRev DEF HandoffStep, SharedStep
  <2> QED BY <1>5, <2>2, <2>3 DEF Terminate, ReleaseRemote
<1> QED BY <1>4, <1>5

LEMMA RestoreCancellationSteps ==
  ASSUME HandoffInv, NEW r \in Replicas, RestoreCancellation(r)
  PROVE  HandoffStep
<1> DEFINE k == proc[r].claim.k
<1>0. /\ proc[r].pc = "restore" /\ UNCHANGED <<pgVars, tombstone, work, index, outVars, steel>>
      /\ Finish(r) /\ proc'[r] = Idle
  BY DEF RestoreCancellation, At, revVars, Finish, HandoffInv, HandoffSane, TypeOK
<1>1. k \in Connects /\ Holds(proc[r], k) /\ \A j \in Connects : Holds(proc[r], j) => j = k
  BY <1>0, StartHandler DEF StartPcs, HoldingPcs
<1>2. OutStep
  BY <1>0, <1>1, SameOut, FaultsCounted DEF RestoreCancellation, Fault, HandoffInv, HandoffSane, TypeOK
<1>3. CASE rec' = [rec EXCEPT ![k] = RestoredHandoff(FreshToken(k))] /\ UNCHANGED stranded
  <2>1. FreshToken(k) \in Tokens
    BY <1>1, FreshTokenFacts DEF HandoffInv
  <2> DEFINE v == RestoredHandoff(FreshToken(k))
  <2>2. v \in Record /\ RecordSane(v) /\ v.cancel
    BY <2>1, RestoredFacts
  <2>3. ~Unstored(proc'[r], k)
    BY <1>0 DEF Unstored, Holds, Starts, Idle
  <2> HIDE DEF v
  <2>4. rec' = [rec EXCEPT ![k] = v]
    BY <1>3 DEF v
  <2>5. RecStep /\ rec'[k] # None
    BY <1>1, <2>2, <2>3, <2>4, StoresRecord
  <2>6. HandlerMoves(r, proc'[r])
    BY <1>0, <1>1, <2>5, FinishMoves
  <2> QED BY <1>0, <1>2, <2>5, <2>6, SameIndex, SameSteel, SameRev DEF HandoffStep, SharedStep
<1>4. CASE stranded' = stranded \cup {k} /\ UNCHANGED rec
  <2>1. HandlerMoves(r, proc'[r])
    BY <1>0, <1>1, <1>4, FinishMoves
  <2> QED BY <1>0, <1>2, <1>4, <2>1, SameRec, SameIndex, SameSteel, SameRev DEF HandoffStep, SharedStep
<1> QED BY <1>3, <1>4 DEF RestoreCancellation

(* A request that comes with its claim. *)
LEMMA RequestMoves ==
  ASSUME HandoffInv, NEW r \in Replicas, proc[r].pc = "idle", NEW k \in Connects, NEW d, ClaimOf(k, d),
         NEW o \in {"confirm", "cancel"}, NEW pc \in {"renew", "cancelRenew"},
         pc = "renew" => d.act = "confirm",
         proc' = [proc EXCEPT ![r] = Begun(o, pc, d)]
  PROVE  HandlerMoves(r, proc'[r])
<1> DEFINE n == Begun(o, pc, d)
<1>1. proc'[r] = n /\ proc' = [proc EXCEPT ![r] = n]
  BY DEF HandoffInv, HandoffSane, TypeOK
<1>2. d \in HeldClaim
  BY DEF ClaimOf, Claim, HeldClaim
<1>3. n.op = o /\ n.pc = pc /\ n.claim = d /\ n.todo = {} /\ n \in Task
  BY <1>2, BegunFacts DEF Ops, PCs
<1> HIDE DEF n
<1>4. HandlerSane(n) /\ OneClaimEach(n)
  BY <1>3 DEF ClaimOf, HandlerSane, OneClaimEach, StartPcs, ConfirmPcs, CancelPcs, BetweenPcs
<1>5. ClaimsFollow(proc[r], n)
  BY <1>3 DEF ClaimOf, ClaimsFollow, Owned
<1>6. StartsFollow(proc[r], n) /\ LetsGo(proc[r], n) /\ PcsBacked(n) /\ RevokeFollows(proc[r], n)
  BY <1>3 DEF StartsFollow, LetsGo, Starts, Holds, PcsBacked, RevokeFollows
<1> QED BY <1>1, <1>3, <1>4, <1>5, <1>6 DEF HandlerMoves

LEMMA ConfirmSteps ==
  ASSUME HandoffInv, NEW r \in Replicas, NEW k \in Connects, Confirm(r, k)
  PROVE  HandoffStep
<1> DEFINE c == ClaimHandoff(k, "confirm", confirms + 1)
           d == ToClaim(k, c.value)
           pc == IF c.value.act = "cancel" THEN "cancelRenew" ELSE "renew"
<1>0. /\ proc[r].pc = "idle" /\ rec[k] # None /\ confirms < MaxConfirms /\ confirms' = confirms + 1
      /\ rec' = [rec EXCEPT ![k] = c.value]
      /\ UNCHANGED <<pgVars, tombstone, work, index, searches, jobs, steel, faults, stranded>>
  BY DEF Confirm, At, revVars
<1>1. confirms + 1 \in 0 .. MaxConfirms /\ confirms + 1 # 0
  BY <1>0, HandoffAssumption DEF HandoffInv, HandoffSane, TypeOK
<1>2. ClaimMade(k, c)
  <2>1. ClaimsAs(k, "confirm", confirms + 1, c)
    BY <1>0, <1>1 DEF ClaimsAs
  <2> QED BY <2>1, ClaimStepFacts
<1>3. OutStep
  BY <1>0, <1>1 DEF OutStep, HandoffInv, HandoffSane, TypeOK
<1>4. RecStep
  BY <1>2 DEF ClaimMade
<1>5. UNCHANGED proc \/ HandlerMoves(r, proc'[r])
  <2>1. CASE c.reply # "claimed"
    BY <2>1 DEF Confirm
  <2>2. CASE c.reply = "claimed"
    <3>1. proc' = [proc EXCEPT ![r] = Begun("confirm", pc, d)]
      BY <2>2 DEF Confirm, Begun, Idle
    <3>2. ClaimOf(k, d) /\ d.act = c.value.act
      BY <1>2, <2>2 DEF ClaimMade
    <3> HIDE DEF d, c
    <3>3. d.act \in {"confirm", "cancel"}
      BY <3>2 DEF ClaimOf, Claim
    <3>4. pc \in {"renew", "cancelRenew"} /\ (pc = "renew" => d.act = "confirm")
      BY <3>2, <3>3
    <3> HIDE DEF pc
    <3> QED BY <1>0, <3>1, <3>2, <3>4, RequestMoves
  <2> QED BY <2>1, <2>2
<1> QED BY <1>0, <1>3, <1>4, <1>5, SameIndex, SameSteel, SameRev DEF HandoffStep, SharedStep

LEMMA CancelSteps ==
  ASSUME HandoffInv, NEW r \in Replicas, NEW k \in Connects, Cancel(r, k)
  PROVE  HandoffStep
<1> DEFINE c == ClaimHandoff(k, "cancel", 0)
           d == ToClaim(k, c.value)
<1>0. /\ proc[r].pc = "idle" /\ rec[k] # None /\ rec' = [rec EXCEPT ![k] = c.value]
      /\ UNCHANGED <<pgVars, tombstone, work, index, outVars, steel, faults, stranded>>
  BY DEF Cancel, At, revVars
<1>2. ClaimMade(k, c)
  <2>1. ClaimsAs(k, "cancel", 0, c)
    BY <1>0, HandoffAssumption DEF ClaimsAs
  <2> QED BY <2>1, ClaimStepFacts
<1>3. OutStep
  BY <1>0, SameOut, FaultsCounted DEF NoFault, HandoffInv, HandoffSane, TypeOK
<1>4. RecStep
  BY <1>2 DEF ClaimMade
<1>5. UNCHANGED proc \/ HandlerMoves(r, proc'[r])
  <2>1. CASE c.reply # "claimed"
    BY <2>1 DEF Cancel
  <2>2. CASE c.reply = "claimed"
    <3>1. proc' = [proc EXCEPT ![r] = Begun("cancel", "cancelRenew", d)]
      BY <2>2 DEF Cancel, Begun
    <3>2. ClaimOf(k, d)
      BY <1>2, <2>2 DEF ClaimMade
    <3> HIDE DEF d, c
    <3> QED BY <1>0, <3>1, <3>2, RequestMoves
  <2> QED BY <2>1, <2>2
<1> QED BY <1>0, <1>3, <1>4, <1>5, SameIndex, SameSteel, SameRev DEF HandoffStep, SharedStep

-----------------------------------------------------------------------------
(* The sweep and the revocation.                                            *)

(* A handler between two claims goes on without one. *)
LEMMA BetweenMoves ==
  ASSUME HandoffInv, NEW r \in Replicas, proc[r].pc \in BetweenPcs \cup {"idle", "settle"},
         NEW n \in Task, proc' = [proc EXCEPT ![r] = n],
         n.pc \in BetweenPcs \cup {"settle", "finish"},
         n.claim = NoClaim \/ (n.claim = proc[r].claim /\ n.op = proc[r].op),
         \A c \in n.todo : c \in proc[r].todo \/ ClaimOf(c.k, c),
         OneClaimEach(n), RevokeFollows(proc[r], n)
  PROVE  HandlerMoves(r, proc'[r])
<1> DEFINE p == proc[r]
<1>1. proc'[r] = n
  BY DEF HandoffInv, HandoffSane, TypeOK
<1>2. p \in Task /\ HandlerSane(p)
  BY HandlerFacts
<1>3. HandlerSane(n)
  BY <1>2, IdleFacts DEF ClaimOf, HandlerSane, ClaimSane, StartPcs, ConfirmPcs, CancelPcs, BetweenPcs
<1>4. ClaimsFollow(p, n)
  BY IdleFacts DEF ClaimOf, ClaimsFollow, Owned
<1>5. StartsFollow(p, n) /\ LetsGo(p, n) /\ PcsBacked(n)
  BY IdleFacts, AbsentAssumption DEF StartsFollow, LetsGo, Starts, Unstored, Holds, PcsBacked, BetweenPcs
<1> QED BY <1>1, <1>3, <1>4, <1>5 DEF HandlerMoves

(* A timer or the route begins a sweep or a revocation. *)
LEMMA TimerMoves ==
  ASSUME HandoffInv, NEW r \in Replicas, proc[r].pc = "idle",
         NEW n \in Task, proc' = [proc EXCEPT ![r] = n], n.claim = NoClaim, n.todo = {},
         (n.op = "sweep" /\ n.pc = "reclaim") \/ (n.op = "revoke" /\ n.pc = "mark")
  PROVE  HandlerMoves(r, proc'[r])
<1>1. OneClaimEach(n)
  BY DEF OneClaimEach
<1>2. RevokeFollows(proc[r], n)
  BY DEF RevokeFollows
<1> QED BY <1>1, <1>2, BetweenMoves DEF BetweenPcs

LEMMA SweepExpiredSteps ==
  ASSUME HandoffInv, NEW r \in Replicas, SweepExpired(r)
  PROVE  HandoffStep
<1> DEFINE S == {k \in Connects : Lapsed(k)}
           n == [Idle EXCEPT !.op = "sweep", !.pc = "reclaim", !.page = S]
<1>0. proc[r].pc = "idle" /\ UNCHANGED <<pgVars, tombstone, work, index, outVars, rec, steel, faults, stranded>>
  BY DEF SweepExpired, At, revVars
<1>1. proc' = [proc EXCEPT ![r] = n]
  BY DEF SweepExpired
<1>2. S \subseteq Connects
  OBVIOUS
<1> HIDE DEF S
<1>3. n \in Task /\ n.claim = NoClaim /\ n.todo = {} /\ n.op = "sweep" /\ n.pc = "reclaim"
  <2>1. Idle \in Task /\ Idle.claim = NoClaim /\ Idle.todo = {}
    BY IdleFacts DEF Idle
  <2> QED BY <1>2, <2>1 DEF Task, Ops, PCs
<1> HIDE DEF n
<1>4. HandlerMoves(r, proc'[r])
  BY <1>0, <1>1, <1>3, TimerMoves
<1>5. OutStep
  BY <1>0, SameOut, FaultsCounted DEF NoFault, HandoffInv, HandoffSane, TypeOK
<1> QED BY <1>0, <1>4, <1>5, SameRec, SameIndex, SameSteel, SameRev DEF HandoffStep, SharedStep

LEMMA ClaimIntentSteps ==
  ASSUME HandoffInv, NEW r \in Replicas, ClaimIntent(r)
  PROVE  HandoffStep
<1> DEFINE f == [q \in Replicas |-> proc[q].itok]
           tok == FreshOf({f[q] : q \in Replicas} \cup {intent.tok})
           n == [Idle EXCEPT !.op = "revoke", !.pc = "mark", !.itok = tok]
<1>0. /\ proc[r].pc = "idle" /\ intent.st = "open"
      /\ UNCHANGED <<consent, tombstone, work, index, outVars, rec, steel, faults, stranded>>
  BY DEF ClaimIntent, At, revVars
<1>1. tok = FreshOf({proc[q].itok : q \in Replicas} \cup {intent.tok})
  <2>1. {f[q] : q \in Replicas} = {proc[q].itok : q \in Replicas}
    OBVIOUS
  <2> QED BY <2>1
<1>2. tok \in Tokens
  <2>1. f \in [Replicas -> Tokens]
    BY HandlerFacts DEF Task
  <2> HIDE DEF f
  <2> QED BY <2>1, FreshWorkToken
<1> HIDE DEF tok
<1>3. proc' = [proc EXCEPT ![r] = n] /\ intent' = [intent EXCEPT !.tok = tok, !.leased = TRUE]
  BY <1>1 DEF ClaimIntent
<1>4. n \in Task /\ n.claim = NoClaim /\ n.todo = {} /\ n.op = "revoke" /\ n.pc = "mark"
  <2>1. Idle \in Task /\ Idle.claim = NoClaim /\ Idle.todo = {}
    BY IdleFacts DEF Idle
  <2> QED BY <1>2, <2>1 DEF Task, Ops, PCs
<1> HIDE DEF n
<1>5. HandlerMoves(r, proc'[r])
  BY <1>0, <1>3, <1>4, TimerMoves
<1>6. RevStep
  BY <1>0, <1>2, <1>3 DEF RevStep, HandoffInv, HandoffSane, TypeOK
<1>7. OutStep
  BY <1>0, SameOut, FaultsCounted DEF NoFault, HandoffInv, HandoffSane, TypeOK
<1> QED BY <1>0, <1>5, <1>6, <1>7, SameRec, SameIndex, SameSteel DEF HandoffStep, SharedStep

LEMMA EmergencyCancelSteps ==
  ASSUME HandoffInv, NEW r \in Replicas, EmergencyCancel(r)
  PROVE  HandoffStep
<1> DEFINE n == [Idle EXCEPT !.op = "revoke", !.pc = "mark"]
<1>0. proc[r].pc = "idle" /\ UNCHANGED <<pgVars, tombstone, work, index, outVars, rec, steel, stranded>>
  BY DEF EmergencyCancel, At, revVars
<1>1. proc' = [proc EXCEPT ![r] = n]
  BY DEF EmergencyCancel
<1>2. n \in Task /\ n.claim = NoClaim /\ n.todo = {} /\ n.op = "revoke" /\ n.pc = "mark"
  <2>1. Idle \in Task /\ Idle.claim = NoClaim /\ Idle.todo = {}
    BY IdleFacts DEF Idle
  <2> QED BY <2>1 DEF Task, Ops, PCs
<1> HIDE DEF n
<1>3. HandlerMoves(r, proc'[r])
  BY <1>0, <1>1, <1>2, TimerMoves
<1>4. OutStep
  BY <1>0, SameOut, FaultsCounted DEF EmergencyCancel, Fault, HandoffInv, HandoffSane, TypeOK
<1> QED BY <1>0, <1>3, <1>4, SameRec, SameIndex, SameSteel, SameRev DEF HandoffStep, SharedStep

(* A handler at one of these steps, and what it may rely on. *)
LEMMA BetweenHandler ==
  ASSUME HandoffInv, NEW r \in Replicas, proc[r].pc \in BetweenPcs
  PROVE  /\ proc[r].claim = NoClaim /\ proc[r].op \notin {"start", "confirm", "cancel"}
         /\ proc[r].op = "revoke" /\ proc[r].pc # "mark" => tombstone
         /\ proc[r].page \subseteq Connects
         /\ \A c \in proc[r].todo : c \in Claim /\ ClaimSane(c) /\ c.tok # 0 /\ c.k # None
<1>1. \A c \in proc[r].todo : c \in Claim /\ ClaimSane(c) /\ c.tok # 0 /\ c.k # None
  BY HandlerFacts, AbsentAssumption DEF HandlerSane, Task, ClaimSane
<1> QED BY <1>1, HandlerFacts DEF OneClaimEach, HandoffInv, RevocationCovers, BetweenPcs, Task

(* A listed or indexed session is taken off the page, with its claim if it   *)
(* was claimed.                                                              *)
LEMMA PageMoves ==
  ASSUME HandoffInv, NEW r \in Replicas, proc[r].pc \in {"reclaim", "page"}, UNCHANGED tombstone,
         NEW k \in proc[r].page, NEW n \in Task, proc' = [proc EXCEPT ![r] = n],
         n.op = proc[r].op, n.pc = proc[r].pc, n.claim = proc[r].claim, n.page = proc[r].page \ {k},
         NEW d, n.todo = proc[r].todo \/ (n.todo = proc[r].todo \cup {d} /\ ClaimOf(k, d))
  PROVE  HandlerMoves(r, proc'[r])
<1> DEFINE p == proc[r]
<1>1. /\ OneClaimEach(p) /\ p.claim = NoClaim /\ p.op \notin {"start", "confirm", "cancel"}
      /\ p.op = "revoke" => tombstone
  BY HandlerFacts, BetweenHandler DEF BetweenPcs
<1>2. \A c \in n.todo : c \in p.todo \/ (c = d /\ ClaimOf(c.k, c) /\ c.k = k)
  BY DEF ClaimOf
<1>3. \A c \in p.todo : c.k \notin p.page /\ c.k # None
  BY <1>1, BetweenHandler DEF OneClaimEach, BetweenPcs
<1>4. k # None
  BY BetweenHandler, AbsentAssumption DEF BetweenPcs
<1>5. OneClaimEach(n)
  BY <1>1, <1>2, <1>3, <1>4, IdleFacts DEF OneClaimEach
<1>6. RevokeFollows(p, n)
  BY <1>1 DEF RevokeFollows
<1> QED BY <1>1, <1>2, <1>5, <1>6, BetweenMoves DEF BetweenPcs

(* A handler between claims goes to another such step. *)
LEMMA PassesOn ==
  ASSUME HandoffInv, NEW r \in Replicas, proc[r].pc \in BetweenPcs, NEW n \in Task,
         proc' = [proc EXCEPT ![r] = n], n.claim = proc[r].claim, n.todo = proc[r].todo,
         n.op = proc[r].op \/ (proc[r].op = "sweep" /\ n.op = "sweepRevoked"),
         n.pc \in {"next", "advance", "settle"}
           \/ (n.pc \in {"claimWork", "scan", "page"} /\ proc[r].todo = {}),
         proc[r].pc = "mark" => tombstone', tombstone => tombstone'
  PROVE  HandlerMoves(r, proc'[r])
<1> DEFINE p == proc[r]
<1>1. /\ OneClaimEach(p) /\ p.claim = NoClaim /\ p.op \notin {"start", "confirm", "cancel"}
      /\ p.op = "revoke" /\ p.pc # "mark" => tombstone
  BY HandlerFacts, BetweenHandler
<1>2. OneClaimEach(n)
  BY <1>1 DEF OneClaimEach, BetweenPcs
<1>3. RevokeFollows(p, n)
  BY <1>1 DEF RevokeFollows
<1> QED BY <1>1, <1>2, <1>3, BetweenMoves DEF BetweenPcs

LEMMA ReclaimExpiredSteps ==
  ASSUME HandoffInv, NEW r \in Replicas, ReclaimExpired(r)
  PROVE  HandoffStep
<1> DEFINE p == proc[r]
<1>0. p.pc = "reclaim" /\ UNCHANGED <<pgVars, tombstone, work, index, outVars, steel, stranded, faults>>
  BY DEF ReclaimExpired, At, revVars, NoFault
<1>1. OutStep
  BY <1>0, SameOut, FaultsCounted DEF NoFault, HandoffInv, HandoffSane, TypeOK
<1>2. p \in Task /\ p.page \subseteq Connects
  BY <1>0, HandlerFacts, BetweenHandler DEF BetweenPcs
<1>3. ASSUME NEW k \in p.page, Lapsed(k), NEW v, v = Reclaimed(rec[k], FreshToken(k)),
             rec' = [rec EXCEPT ![k] = v],
             proc' = [proc EXCEPT ![r].page = @ \ {k}, ![r].todo = @ \cup {ToClaim(k, v)}]
      PROVE  HandlerMoves(r, proc'[r]) /\ RecStep
  <2> DEFINE d == ToClaim(k, v)
             n == [p EXCEPT !.page = p.page \ {k}, !.todo = p.todo \cup {d}]
  <2>1. k \in Connects /\ rec[k] # None /\ rec[k] \in Record /\ RecordSane(rec[k]) /\ rec[k].tok # 0
    BY <1>2, <1>3 DEF Lapsed, HandoffInv, HandoffSane, TypeOK, RecordsSane
  <2>2. FreshToken(k) \in Tokens \ {0}
    BY <2>1, FreshTokenFacts DEF HandoffInv
  <2>3. v \in Record /\ RecordSane(v) /\ Evolves(rec[k], v) /\ v.tok # 0
    BY <1>3, <2>1, <2>2, ReclaimedFacts
  <2>4. RecStep /\ rec'[k] = v /\ v # None
    BY <1>3, <2>1, <2>3, OneRecord
  <2>5. ClaimOf(k, d)
    BY <2>1, <2>3, <2>4, ToClaimFacts DEF ClaimOf
  <2>6. d \in Claim
    BY <2>5 DEF ClaimOf
  <2>7. proc' = [proc EXCEPT ![r] = n]
    BY <1>3 DEF HandoffInv, HandoffSane, TypeOK
  <2> HIDE DEF d
  <2>8. n \in Task
    BY <1>2, <2>6 DEF Task
  <2>9. n.op = p.op /\ n.pc = p.pc /\ n.claim = p.claim /\ n.page = p.page \ {k} /\ n.todo = p.todo \cup {d}
    BY <1>2 DEF Task
  <2> HIDE DEF n
  <2> QED BY <1>0, <2>4, <2>5, <2>7, <2>8, <2>9, PageMoves
<1>4. ASSUME NEW k \in p.page, UNCHANGED rec, proc' = [proc EXCEPT ![r].page = @ \ {k}]
      PROVE  HandlerMoves(r, proc'[r]) /\ RecStep
  <2> DEFINE n == [p EXCEPT !.page = p.page \ {k}]
  <2>1. proc' = [proc EXCEPT ![r] = n]
    BY <1>4 DEF HandoffInv, HandoffSane, TypeOK
  <2>2. n \in Task
    BY <1>2 DEF Task
  <2>3. n.op = p.op /\ n.pc = p.pc /\ n.claim = p.claim /\ n.page = p.page \ {k} /\ n.todo = p.todo
    BY <1>2 DEF Task
  <2> HIDE DEF n
  <2> QED BY <1>0, <1>4, <2>1, <2>2, <2>3, PageMoves, SameRec
<1>5. ASSUME Go(r, "next"), UNCHANGED rec
      PROVE  HandlerMoves(r, proc'[r]) /\ RecStep
  <2> DEFINE n == [p EXCEPT !.pc = "next"]
  <2>1. proc' = [proc EXCEPT ![r] = n]
    BY <1>5 DEF Go, HandoffInv, HandoffSane, TypeOK
  <2>2. n \in Task
    BY <1>2 DEF Task, PCs
  <2>3. n.op = p.op /\ n.pc = "next" /\ n.claim = p.claim /\ n.todo = p.todo
    BY <1>2 DEF Task
  <2> HIDE DEF n
  <2> QED BY <1>0, <1>5, <2>1, <2>2, <2>3, PassesOn, SameRec DEF BetweenPcs
<1>6. HandlerMoves(r, proc'[r]) /\ RecStep
  BY <1>3, <1>4, <1>5 DEF ReclaimExpired
<1> QED BY <1>0, <1>1, <1>6, SameIndex, SameSteel, SameRev DEF HandoffStep, SharedStep

LEMMA NextClaimSteps ==
  ASSUME HandoffInv, NEW r \in Replicas, NextClaim(r)
  PROVE  HandoffStep
<1> DEFINE p == proc[r]
<1>0. p.pc = "next" /\ UNCHANGED <<pgVars, tombstone, work, index, outVars, rec, steel, stranded, faults>>
  BY DEF NextClaim, At, revVars, NoFault
<1>1. OutStep
  BY <1>0, SameOut, FaultsCounted DEF NoFault, HandoffInv, HandoffSane, TypeOK
<1>2. /\ p \in Task /\ HandlerSane(p) /\ OneClaimEach(p)
      /\ p.op \notin {"start", "confirm", "cancel"} /\ (p.op = "revoke" => tombstone)
  BY <1>0, HandlerFacts, BetweenHandler DEF BetweenPcs
<1>3. ASSUME NEW c \in p.todo,
             proc' = [proc EXCEPT ![r].todo = @ \ {c}, ![r].claim = c,
                                  ![r].pc = IF p.op = "sweep" THEN "state" ELSE "cancelRenew"]
      PROVE  HandlerMoves(r, proc'[r])
  <2> DEFINE pc == IF p.op = "sweep" THEN "state" ELSE "cancelRenew"
             n == [p EXCEPT !.todo = p.todo \ {c}, !.claim = c, !.pc = pc]
  <2>1. proc'[r] = n /\ proc' = [proc EXCEPT ![r] = n]
    BY <1>3 DEF HandoffInv, HandoffSane, TypeOK
  <2>2. c \in Claim /\ c \in HeldClaim /\ c.tok # 0 /\ ClaimSane(c)
    BY <1>2 DEF Task, HandlerSane, Claim, HeldClaim
  <2>3. pc \in {"state", "cancelRenew"}
    OBVIOUS
  <2> HIDE DEF pc
  <2>4. n \in Task
    BY <1>2, <2>2, <2>3 DEF Task, PCs
  <2>5. n.op = p.op /\ n.pc = pc /\ n.claim = c /\ n.todo = p.todo \ {c}
    BY <1>2 DEF Task
  <2> HIDE DEF p, n
  <2>6. HandlerSane(n)
    BY <1>2, <2>2, <2>3, <2>5 DEF HandlerSane, ConfirmPcs, CancelPcs, StartPcs
  <2>7. OneClaimEach(n)
    BY <1>2, <2>3, <2>5, <1>3 DEF OneClaimEach, BetweenPcs
  <2>8. ClaimsFollow(p, n)
    BY <1>3, <2>5 DEF ClaimsFollow, Owned
  <2>9. StartsFollow(p, n) /\ LetsGo(p, n) /\ PcsBacked(n) /\ RevokeFollows(p, n)
    BY <1>0, <1>2, <2>3, <2>5 DEF StartsFollow, LetsGo, Starts, Holds, PcsBacked, RevokeFollows
  <2> QED BY <2>1, <2>4, <2>6, <2>7, <2>8, <2>9 DEF HandlerMoves, p
<1>4. ASSUME p.todo = {},
             proc' = [proc EXCEPT ![r].op = IF @ = "sweep" THEN "sweepRevoked" ELSE @,
                                  ![r].pc = IF p.op = "sweep" THEN "claimWork" ELSE "settle"]
      PROVE  HandlerMoves(r, proc'[r])
  <2> DEFINE pc == IF p.op = "sweep" THEN "claimWork" ELSE "settle"
             o == IF p.op = "sweep" THEN "sweepRevoked" ELSE p.op
             n == [p EXCEPT !.op = o, !.pc = pc]
  <2>1. proc' = [proc EXCEPT ![r] = n]
    BY <1>4 DEF HandoffInv, HandoffSane, TypeOK
  <2>2. n \in Task
    BY <1>2 DEF Task, Ops, PCs
  <2>3. n.op = o /\ n.pc = pc /\ n.claim = p.claim /\ n.todo = p.todo
    BY <1>2 DEF Task
  <2> HIDE DEF n
  <2> QED BY <1>0, <1>4, <2>1, <2>2, <2>3, PassesOn DEF BetweenPcs
<1>5. HandlerMoves(r, proc'[r])
  BY <1>3, <1>4 DEF NextClaim
<1> QED BY <1>0, <1>1, <1>5, SameRec, SameIndex, SameSteel, SameRev DEF HandoffStep, SharedStep

LEMMA CheckClaimStateSteps ==
  ASSUME HandoffInv, NEW r \in Replicas, CheckClaimState(r)
  PROVE  HandoffStep
<1> DEFINE c == proc[r].claim
<1>0. proc[r].pc = "state" /\ UNCHANGED <<pgVars, tombstone, work, index, outVars, rec, steel, stranded, faults>>
  BY DEF CheckClaimState, At, revVars, NoFault
<1>1. WorksOnClaim(proc[r])
  BY <1>0, HandlerFacts DEF WorksOnClaim, HandlerSane, CancelPcs
<1>2. OutStep
  BY <1>0, SameOut, FaultsCounted DEF NoFault, HandoffInv, HandoffSane, TypeOK
<1>3. Go(r, "cancelRenew") \/ DoneWithClaim(r) \/ (c.act # "cancel" /\ Go(r, "renew"))
  BY DEF CheckClaimState
<1>4. CASE DoneWithClaim(r)
  BY <1>0, <1>1, <1>2, <1>4, DoneMoves, SameRec, SameIndex, SameSteel, SameRev DEF HandoffStep, SharedStep
<1>5. CASE Go(r, "cancelRenew")
  <2>1. PcsBacked(proc'[r])
    BY <1>5, GoTo DEF PcsBacked
  <2>2. HandlerMoves(r, proc'[r])
    BY <1>0, <1>1, <1>5, <2>1, GoMoves DEF ConfirmPcs, CancelPcs
  <2> QED BY <1>0, <1>2, <2>2, SameRec, SameIndex, SameSteel, SameRev DEF HandoffStep, SharedStep
<1>6. CASE c.act # "cancel" /\ Go(r, "renew")
  <2>1. PcsBacked(proc'[r])
    BY <1>6, GoTo DEF PcsBacked
  <2>2. c.act = "confirm"
    BY <1>1, <1>6, ClaimHandler
  <2>3. HandlerMoves(r, proc'[r])
    BY <1>0, <1>1, <1>6, <2>1, <2>2, GoMoves DEF ConfirmPcs
  <2> QED BY <1>0, <1>2, <2>3, SameRec, SameIndex, SameSteel, SameRev DEF HandoffStep, SharedStep
<1> QED BY <1>3, <1>4, <1>5, <1>6

(* The end of cancelByConsent; only an empty index, or work that is gone,    *)
(* counts as success.                                                        *)
LEMMA ConcludeMoves ==
  ASSUME HandoffInv, NEW r \in Replicas, proc[r].pc \in {"mark", "claimWork", "settle"},
         NEW b \in BOOLEAN, Conclude(r, b),
         ~b => proc[r].pc = "settle" /\ (index = {} \/ work = None)
  PROVE  HandlerMoves(r, proc'[r])
<1> DEFINE p == proc[r]
<1>1. p \in Task /\ OneClaimEach(p)
  BY HandlerFacts
<1>2. CASE p.op = "revoke"
  <2> DEFINE v == p.bad \/ b
             n == [p EXCEPT !.pc = "finish", !.bad = v, !.wtok = 0]
  <2>1. proc' = [proc EXCEPT ![r] = n]
    BY <1>2 DEF Conclude, HandoffInv, HandoffSane, TypeOK
  <2>2. v \in BOOLEAN /\ 0 \in Tokens /\ (~v => ~b)
    BY HandoffAssumption, FS_CardinalityType DEF Tokens
  <2> HIDE DEF v
  <2>3. n \in Task
    BY <1>1, <2>2 DEF Task, PCs
  <2>4. n.op = p.op /\ n.pc = "finish" /\ n.claim = p.claim /\ n.todo = p.todo /\ n.bad = v
    BY <1>1 DEF Task
  <2> HIDE DEF n
  <2>5. OneClaimEach(n)
    BY <1>1, <1>2, <2>4 DEF OneClaimEach, BetweenPcs
  <2>6. RevokeFollows(p, n)
    BY <1>2, <2>2, <2>4 DEF RevokeFollows
  <2> QED BY <2>1, <2>3, <2>4, <2>5, <2>6, BetweenMoves DEF BetweenPcs
<1>3. CASE p.op # "revoke"
  <2>1. Finish(r)
    BY <1>3 DEF Conclude
  <2> QED BY <2>1, FinishMoves DEF Holds
<1> QED BY <1>2, <1>3

LEMMA MarkConsentRevokedSteps ==
  ASSUME HandoffInv, NEW r \in Replicas, MarkConsentRevoked(r)
  PROVE  HandoffStep
<1> DEFINE p == proc[r]
<1>0. p.pc = "mark" /\ UNCHANGED <<pgVars, index, outVars, rec, steel, stranded>>
  BY DEF MarkConsentRevoked, At
<1>1. OutStep
  BY <1>0, SameOut, FaultsCounted DEF MarkConsentRevoked, Fault, HandoffInv, HandoffSane, TypeOK
<1>2. CASE /\ tombstone' = TRUE /\ Go(r, "claimWork")
           /\ work' = IF work = None THEN [seen |-> {}, tok |-> 0, leased |-> FALSE] ELSE work
  <2> DEFINE n == [p EXCEPT !.pc = "claimWork"]
  <2>1. proc' = [proc EXCEPT ![r] = n]
    BY <1>2 DEF Go, HandoffInv, HandoffSane, TypeOK
  <2>2. p \in Task /\ p.todo = {}
    BY <1>0, HandlerFacts DEF OneClaimEach
  <2>3. n \in Task
    BY <2>2 DEF Task, PCs
  <2>4. n.op = p.op /\ n.pc = "claimWork" /\ n.claim = p.claim /\ n.todo = p.todo
    BY <2>2 DEF Task
  <2> HIDE DEF n
  <2>5. HandlerMoves(r, proc'[r])
    BY <1>0, <1>2, <2>1, <2>2, <2>3, <2>4, PassesOn DEF BetweenPcs
  <2>6. [seen |-> {}, tok |-> 0, leased |-> FALSE] \in RevocationWork
    BY HandoffAssumption, FS_CardinalityType DEF RevocationWork, Tokens
  <2>7. work' \in RevocationWork \cup {None} /\ work' # None
    BY <1>2, <2>6, AbsentAssumption DEF HandoffInv, HandoffSane, TypeOK
  <2>8. RevStep
    BY <1>0, <1>2, <2>7 DEF RevStep, pgVars, HandoffInv, HandoffSane, TypeOK
  <2> QED BY <1>0, <1>1, <2>5, <2>8, SameRec, SameIndex, SameSteel DEF HandoffStep, SharedStep
<1>3. CASE Conclude(r, TRUE) /\ UNCHANGED <<tombstone, work>>
  <2>1. HandlerMoves(r, proc'[r])
    BY <1>0, <1>3, ConcludeMoves
  <2> QED BY <1>0, <1>1, <1>3, <2>1, SameRec, SameIndex, SameSteel, SameRev DEF HandoffStep, SharedStep
<1> QED BY <1>2, <1>3 DEF MarkConsentRevoked

LEMMA ClaimRevocationWorkSteps ==
  ASSUME HandoffInv, NEW r \in Replicas, ClaimRevocationWork(r)
  PROVE  HandoffStep
<1> DEFINE p == proc[r]
           f == [q \in Replicas |-> proc[q].wtok]
           tok == FreshOf({f[q] : q \in Replicas} \cup {work.tok})
<1>0. p.pc = "claimWork" /\ UNCHANGED <<pgVars, tombstone, index, outVars, rec, steel, stranded, faults>>
  BY DEF ClaimRevocationWork, At, NoFault
<1>1. OutStep
  BY <1>0, SameOut, FaultsCounted DEF NoFault, HandoffInv, HandoffSane, TypeOK
<1>2. tok = FreshOf({proc[q].wtok : q \in Replicas} \cup {work.tok})
  <2>1. {f[q] : q \in Replicas} = {proc[q].wtok : q \in Replicas}
    OBVIOUS
  <2> QED BY <2>1
<1>3. tok \in Tokens
  <2>1. f \in [Replicas -> Tokens]
    BY HandlerFacts DEF Task
  <2> HIDE DEF f
  <2> QED BY <2>1, FreshWorkToken
<1> HIDE DEF tok
<1>4. CASE work = None \/ (work.tok # 0 /\ work.leased)
  <2>1. Conclude(r, TRUE) /\ UNCHANGED work
    BY <1>4 DEF ClaimRevocationWork
  <2>2. HandlerMoves(r, proc'[r])
    BY <1>0, <2>1, ConcludeMoves
  <2> QED BY <1>0, <1>1, <2>1, <2>2, SameRec, SameIndex, SameSteel, SameRev DEF HandoffStep, SharedStep
<1>5. CASE ~(work = None \/ (work.tok # 0 /\ work.leased))
  <2> DEFINE n == [p EXCEPT !.pc = "scan", !.wtok = tok, !.cursor = work.seen]
  <2>1. work \in RevocationWork
    BY <1>5 DEF HandoffInv, HandoffSane, TypeOK
  <2>2. /\ proc' = [proc EXCEPT ![r] = n]
        /\ work' = [work EXCEPT !.tok = tok, !.leased = TRUE]
    BY <1>2, <1>5 DEF ClaimRevocationWork, HandoffInv, HandoffSane, TypeOK
  <2>3. p \in Task /\ p.todo = {}
    BY <1>0, HandlerFacts DEF OneClaimEach
  <2>4. n \in Task
    BY <1>3, <2>1, <2>3 DEF Task, PCs, RevocationWork
  <2>5. n.op = p.op /\ n.pc = "scan" /\ n.claim = p.claim /\ n.todo = p.todo
    BY <2>3 DEF Task
  <2> HIDE DEF n
  <2>6. HandlerMoves(r, proc'[r])
    BY <1>0, <2>2, <2>3, <2>4, <2>5, PassesOn DEF BetweenPcs
  <2>7. work' \in RevocationWork /\ work' # None
    BY <1>3, <2>1, <2>2, AbsentAssumption DEF RevocationWork
  <2>8. RevStep
    BY <1>0, <1>5, <2>7 DEF RevStep, pgVars, HandoffInv, HandoffSane, TypeOK
  <2> QED BY <1>0, <1>1, <2>6, <2>8, SameRec, SameIndex, SameSteel DEF HandoffStep, SharedStep
<1> QED BY <1>4, <1>5

LEMMA ScanIndexSteps ==
  ASSUME HandoffInv, NEW r \in Replicas, ScanIndex(r)
  PROVE  HandoffStep
<1> DEFINE p == proc[r]
           left == index \ p.cursor
<1>0. p.pc = "scan" /\ UNCHANGED <<pgVars, tombstone, work, index, outVars, rec, steel, stranded, faults>>
  BY DEF ScanIndex, At, NoFault, revVars
<1>1. OutStep
  BY <1>0, SameOut, FaultsCounted DEF NoFault, HandoffInv, HandoffSane, TypeOK
<1>2. PICK P \in SUBSET left :
        proc' = [proc EXCEPT ![r].pc = "page", ![r].page = P,
                             ![r].cursor = IF P = left THEN {} ELSE @ \cup P]
  BY DEF ScanIndex
<1> DEFINE cur == IF P = left THEN {} ELSE p.cursor \cup P
           n == [p EXCEPT !.pc = "page", !.page = P, !.cursor = cur]
<1>3. proc' = [proc EXCEPT ![r] = n]
  BY <1>2 DEF HandoffInv, HandoffSane, TypeOK
<1>4. p \in Task /\ p.todo = {}
  BY <1>0, HandlerFacts DEF OneClaimEach
<1>5. P \subseteq Connects /\ cur \subseteq Connects
  BY <1>4 DEF Task, HandoffInv, HandoffSane, TypeOK
<1> HIDE DEF cur
<1>6. n \in Task
  BY <1>4, <1>5 DEF Task, PCs
<1>7. n.op = p.op /\ n.pc = "page" /\ n.claim = p.claim /\ n.todo = p.todo
  BY <1>4 DEF Task
<1> HIDE DEF n
<1>8. HandlerMoves(r, proc'[r])
  BY <1>0, <1>3, <1>4, <1>6, <1>7, PassesOn DEF BetweenPcs
<1> QED BY <1>0, <1>1, <1>8, SameRec, SameIndex, SameSteel, SameRev DEF HandoffStep, SharedStep

LEMMA ClaimPageSteps ==
  ASSUME HandoffInv, NEW r \in Replicas, ClaimPage(r)
  PROVE  HandoffStep
<1> DEFINE p == proc[r]
<1>0. p.pc = "page" /\ UNCHANGED <<pgVars, tombstone, work, outVars, steel, stranded, faults>>
  BY DEF ClaimPage, At, NoFault
<1>1. OutStep
  BY <1>0, SameOut, FaultsCounted DEF NoFault, HandoffInv, HandoffSane, TypeOK
<1>2. p \in Task /\ p.page \subseteq Connects
  BY <1>0, HandlerFacts, BetweenHandler DEF BetweenPcs
<1>3. ASSUME NEW k \in p.page, rec[k] = None, index' = index \ {k}, UNCHANGED rec,
             proc' = [proc EXCEPT ![r].page = @ \ {k}]
      PROVE  HandlerMoves(r, proc'[r]) /\ RecStep /\ IndexStep
  <2> DEFINE n == [p EXCEPT !.page = p.page \ {k}]
  <2>1. proc' = [proc EXCEPT ![r] = n]
    BY <1>3 DEF HandoffInv, HandoffSane, TypeOK
  <2>2. n \in Task
    BY <1>2 DEF Task
  <2>3. n.op = p.op /\ n.pc = p.pc /\ n.claim = p.claim /\ n.page = p.page \ {k} /\ n.todo = p.todo
    BY <1>2 DEF Task
  <2> HIDE DEF n
  <2>4. IndexStep
    BY <1>3 DEF IndexStep, HandoffInv, HandoffSane, TypeOK
  <2> QED BY <1>0, <1>3, <2>1, <2>2, <2>3, <2>4, PageMoves, SameRec
<1>4. ASSUME NEW k \in p.page, NEW c, c = ClaimHandoff(k, "cancel", 0), rec[k] # None,
             rec' = [rec EXCEPT ![k] = c.value], UNCHANGED index,
             proc' = [proc EXCEPT ![r].page = @ \ {k},
                        ![r].todo = IF c.reply = "claimed" THEN @ \cup {ToClaim(k, c.value)} ELSE @,
                        ![r].bad = @ \/ (c.reply = "busy" /\ p.op = "revoke")]
      PROVE  HandlerMoves(r, proc'[r]) /\ RecStep /\ IndexStep
  <2> DEFINE d == ToClaim(k, c.value)
             T == IF c.reply = "claimed" THEN p.todo \cup {d} ELSE p.todo
             b == p.bad \/ (c.reply = "busy" /\ p.op = "revoke")
             n == [p EXCEPT !.page = p.page \ {k}, !.todo = T, !.bad = b]
  <2>1. ClaimMade(k, c)
    <3>1. ClaimsAs(k, "cancel", 0, c)
      BY <1>4, HandoffAssumption DEF ClaimsAs
    <3> QED BY <1>2, <3>1, ClaimStepFacts
  <2>2. RecStep
    BY <2>1 DEF ClaimMade
  <2>3. T = p.todo \/ (T = p.todo \cup {d} /\ ClaimOf(k, d))
    BY <2>1 DEF ClaimMade
  <2>4. proc' = [proc EXCEPT ![r] = n]
    BY <1>4 DEF HandoffInv, HandoffSane, TypeOK
  <2>5. b \in BOOLEAN
    BY <1>2 DEF Task
  <2> HIDE DEF d, T, b
  <2>6. T \subseteq Claim
    BY <1>2, <2>3 DEF Task, ClaimOf
  <2>7. n \in Task
    BY <1>2, <2>5, <2>6 DEF Task
  <2>8. n.op = p.op /\ n.pc = p.pc /\ n.claim = p.claim /\ n.page = p.page \ {k} /\ n.todo = T
    BY <1>2 DEF Task
  <2> HIDE DEF n
  <2> QED BY <1>0, <1>4, <2>2, <2>3, <2>4, <2>7, <2>8, PageMoves, SameIndex
<1>5. ASSUME Go(r, "advance"), UNCHANGED <<rec, index>>
      PROVE  HandlerMoves(r, proc'[r]) /\ RecStep /\ IndexStep
  <2> DEFINE n == [p EXCEPT !.pc = "advance"]
  <2>1. proc' = [proc EXCEPT ![r] = n]
    BY <1>5 DEF Go, HandoffInv, HandoffSane, TypeOK
  <2>2. n \in Task
    BY <1>2 DEF Task, PCs
  <2>3. n.op = p.op /\ n.pc = "advance" /\ n.claim = p.claim /\ n.todo = p.todo
    BY <1>2 DEF Task
  <2> HIDE DEF n
  <2> QED BY <1>0, <1>5, <2>1, <2>2, <2>3, PassesOn, SameRec, SameIndex DEF BetweenPcs
<1>6. HandlerMoves(r, proc'[r]) /\ RecStep /\ IndexStep
  BY <1>3, <1>4, <1>5 DEF ClaimPage
<1> QED BY <1>0, <1>1, <1>6, SameSteel, SameRev DEF HandoffStep, SharedStep

LEMMA AdvanceWorkSteps ==
  ASSUME HandoffInv, NEW r \in Replicas, AdvanceWork(r)
  PROVE  HandoffStep
<1> DEFINE p == proc[r]
           owned == work # None /\ work.tok = p.wtok
           b == p.bad \/ (~owned /\ p.op = "revoke")
           n == [p EXCEPT !.pc = "next", !.wtok = 0, !.cursor = {}, !.bad = b]
<1>0. /\ p.pc = "advance" /\ UNCHANGED <<pgVars, tombstone, index, outVars, rec, steel, stranded, faults>>
      /\ work' = IF owned THEN [seen |-> p.cursor, tok |-> 0, leased |-> FALSE] ELSE work
  BY DEF AdvanceWork, At, NoFault
<1>1. OutStep
  BY <1>0, SameOut, FaultsCounted DEF NoFault, HandoffInv, HandoffSane, TypeOK
<1>2. p \in Task /\ 0 \in Tokens
  BY HandlerFacts, HandoffAssumption, FS_CardinalityType DEF Tokens
<1>3. proc' = [proc EXCEPT ![r] = n]
  BY DEF AdvanceWork, HandoffInv, HandoffSane, TypeOK
<1>4. b \in BOOLEAN
  BY <1>2 DEF Task
<1>5. /\ work' \in RevocationWork \cup {None}
      /\ work' = None => work = None
      /\ work' # None => work # None
  <2>1. [seen |-> p.cursor, tok |-> 0, leased |-> FALSE] \in RevocationWork
    BY <1>2 DEF RevocationWork, Task
  <2> QED BY <1>0, <2>1, AbsentAssumption DEF HandoffInv, HandoffSane, TypeOK
<1> HIDE DEF b
<1>6. n \in Task
  BY <1>2, <1>4 DEF Task, PCs
<1>7. n.op = p.op /\ n.pc = "next" /\ n.claim = p.claim /\ n.todo = p.todo
  BY <1>2 DEF Task
<1> HIDE DEF n
<1>8. HandlerMoves(r, proc'[r])
  BY <1>0, <1>3, <1>6, <1>7, PassesOn DEF BetweenPcs
<1>9. RevStep
  BY <1>0, <1>5 DEF RevStep, pgVars, HandoffInv, HandoffSane, TypeOK
<1> QED BY <1>0, <1>1, <1>8, <1>9, SameRec, SameIndex, SameSteel DEF HandoffStep, SharedStep

LEMMA SettleRevocationSteps ==
  ASSUME HandoffInv, NEW r \in Replicas, SettleRevocation(r)
  PROVE  HandoffStep
<1>0. proc[r].pc = "settle" /\ UNCHANGED <<pgVars, tombstone, index, outVars, rec, steel, stranded>>
  BY DEF SettleRevocation, At
<1>1. OutStep
  BY <1>0, SameOut, FaultsCounted DEF SettleRevocation, Fault, HandoffInv, HandoffSane, TypeOK
<1>2. CASE /\ work' = IF index = {} THEN None ELSE work
           /\ Conclude(r, index # {} /\ work # None)
  <2> DEFINE b == index # {} /\ work # None
  <2>1. b \in BOOLEAN /\ (~b => index = {} \/ work = None) /\ Conclude(r, b)
    BY <1>2
  <2> HIDE DEF b
  <2>2. HandlerMoves(r, proc'[r])
    BY <1>0, <2>1, ConcludeMoves
  <2>3. RevStep
    BY <1>0, <1>2 DEF RevStep, pgVars, HandoffInv, HandoffSane, TypeOK
  <2> QED BY <1>0, <1>1, <2>2, <2>3, SameRec, SameIndex, SameSteel DEF HandoffStep, SharedStep
<1>3. CASE Conclude(r, TRUE) /\ UNCHANGED work
  <2>1. HandlerMoves(r, proc'[r])
    BY <1>0, <1>3, ConcludeMoves
  <2> QED BY <1>0, <1>1, <1>3, <2>1, SameRec, SameIndex, SameSteel, SameRev DEF HandoffStep, SharedStep
<1> QED BY <1>2, <1>3 DEF SettleRevocation

LEMMA FinishIntentSteps ==
  ASSUME HandoffInv, NEW r \in Replicas, FinishIntent(r)
  PROVE  HandoffStep
<1> DEFINE p == proc[r]
           st == IF p.bad THEN "open" ELSE "done"
<1>0. /\ p.pc = "finish" /\ Finish(r)
      /\ UNCHANGED <<consent, tombstone, work, index, outVars, rec, steel, stranded>>
      /\ intent' = intent \/ intent' = [st |-> st, tok |-> 0, leased |-> FALSE]
  BY DEF FinishIntent, At, revVars
<1>1. OutStep
  BY <1>0, SameOut, FaultsCounted DEF FinishIntent, Fault, HandoffInv, HandoffSane, TypeOK
<1>2. HandlerMoves(r, proc'[r])
  BY <1>0, FinishMoves DEF Holds
<1>3. 0 \in Tokens
  BY HandoffAssumption, FS_CardinalityType DEF Tokens
<1>4. intent' \in [st : {"none", "open", "done"}, tok : Tokens, leased : BOOLEAN]
  <2>1. CASE intent' = intent
    BY <2>1 DEF HandoffInv, HandoffSane, TypeOK
  <2>2. CASE intent' = [st |-> st, tok |-> 0, leased |-> FALSE]
    BY <1>3, <2>2
  <2> QED BY <1>0, <2>1, <2>2
<1>5. intent'.st = "done" => intent.st = "done" \/ ~p.bad
  BY <1>0
<1>6. RevStep
  BY <1>0, <1>4, <1>5 DEF RevStep, HandoffInv, HandoffSane, TypeOK
<1> QED BY <1>0, <1>1, <1>2, <1>6, SameRec, SameIndex, SameSteel DEF HandoffStep, SharedStep

LEMMA RequestRevocationSteps ==
  ASSUME HandoffInv, RequestRevocation
  PROVE  HandoffStep
<1>0. /\ UNCHANGED <<tombstone, work, index, outVars, rec, steel, proc, stranded, faults>>
      /\ consent' = "revoked" /\ intent' = [intent EXCEPT !.st = "open"]
  BY DEF RequestRevocation, revVars
<1>1. OutStep
  BY <1>0, SameOut, FaultsCounted DEF NoFault, HandoffInv, HandoffSane, TypeOK
<1>2. intent' \in [st : {"none", "open", "done"}, tok : Tokens, leased : BOOLEAN] /\ intent'.st = "open"
  BY <1>0 DEF HandoffInv, HandoffSane, TypeOK
<1>3. RevStep
  BY <1>0, <1>2 DEF RevStep, HandoffInv, HandoffSane, TypeOK
<1> QED BY <1>0, <1>1, <1>3, SameRec, SameIndex, SameSteel DEF HandoffStep, SharedStep

-----------------------------------------------------------------------------
(* Time, crashes and the ends of a session.                                 *)

LEMMA ClaimLapsesSteps ==
  ASSUME HandoffInv, NEW k \in Connects, ClaimLapses(k)
  PROVE  HandoffStep
<1>0. /\ UNCHANGED <<pgVars, tombstone, work, index, outVars, steel, proc, stranded>>
      /\ rec[k] # None /\ rec' = [rec EXCEPT ![k].leased = FALSE]
  BY DEF ClaimLapses, revVars
<1>1. FaultsStep
  BY FaultsCounted DEF ClaimLapses
<1>2. OutStep
  BY <1>0, <1>1, SameOut DEF HandoffInv, HandoffSane, TypeOK
<1>3. rec' = [rec EXCEPT ![k] = [rec[k] EXCEPT !.leased = FALSE]]
  BY <1>0
<1>4. RecStep
  BY <1>0, <1>3, OneLease
<1> QED BY <1>0, <1>2, <1>4, SameIndex, SameSteel, SameRev DEF HandoffStep, SharedStep

LEMMA WorkLapsesSteps ==
  ASSUME HandoffInv, WorkLapses
  PROVE  HandoffStep
<1>0. /\ UNCHANGED <<pgVars, tombstone, index, outVars, rec, steel, proc, stranded>>
      /\ work # None /\ work' = [work EXCEPT !.leased = FALSE]
  BY DEF WorkLapses
<1>1. FaultsStep
  BY FaultsCounted DEF WorkLapses
<1>2. OutStep
  BY <1>0, <1>1, SameOut DEF HandoffInv, HandoffSane, TypeOK
<1>3. work' \in RevocationWork /\ work' # None
  BY <1>0, AbsentAssumption DEF RevocationWork, HandoffInv, HandoffSane, TypeOK
<1>4. RevStep
  BY <1>0, <1>3 DEF RevStep, pgVars, HandoffInv, HandoffSane, TypeOK
<1> QED BY <1>0, <1>2, <1>4, SameRec, SameIndex, SameSteel DEF HandoffStep, SharedStep

LEMMA IntentLapsesSteps ==
  ASSUME HandoffInv, IntentLapses
  PROVE  HandoffStep
<1>0. /\ UNCHANGED <<consent, tombstone, work, index, outVars, rec, steel, proc, stranded>>
      /\ intent' = [intent EXCEPT !.leased = FALSE]
  BY DEF IntentLapses, revVars
<1>1. FaultsStep
  BY FaultsCounted DEF IntentLapses
<1>2. OutStep
  BY <1>0, <1>1, SameOut DEF HandoffInv, HandoffSane, TypeOK
<1>3. /\ intent' \in [st : {"none", "open", "done"}, tok : Tokens, leased : BOOLEAN]
      /\ intent'.st = intent.st
  BY <1>0 DEF HandoffInv, HandoffSane, TypeOK
<1>4. RevStep
  BY <1>0, <1>3 DEF RevStep, HandoffInv, HandoffSane, TypeOK
<1> QED BY <1>0, <1>2, <1>4, SameRec, SameIndex, SameSteel DEF HandoffStep, SharedStep

LEMMA CrashSteps ==
  ASSUME HandoffInv, NEW r \in Replicas, Crash(r)
  PROVE  HandoffStep
<1>0. /\ UNCHANGED <<pgVars, tombstone, work, index, outVars, rec, steel>> /\ Finish(r)
      /\ stranded' = stranded \cup {k \in Connects : Holds(proc[r], k)}
  BY DEF Crash, revVars, HoldsUnstored, Holds, Starts
<1>1. OutStep
  BY <1>0, SameOut, FaultsCounted DEF Crash, HandoffInv, HandoffSane, TypeOK
<1>2. HandlerMoves(r, proc'[r])
  BY <1>0, FinishMoves
<1> QED BY <1>0, <1>1, <1>2, SameRec, SameIndex, SameSteel, SameRev DEF HandoffStep, SharedStep

LEMMA RecordExpiresSteps ==
  ASSUME HandoffInv, NEW k \in Connects, RecordExpires(k)
  PROVE  HandoffStep
<1>0. /\ UNCHANGED <<pgVars, tombstone, work, index, outVars, steel, proc, faults>>
      /\ rec' = [rec EXCEPT ![k] = None] /\ stranded' = stranded \cup {k}
  BY DEF RecordExpires, revVars
<1>1. OutStep
  BY <1>0, SameOut, FaultsCounted DEF NoFault, HandoffInv, HandoffSane, TypeOK
<1>2. RecStep
  BY <1>0 DEF RecStep, HandoffInv, HandoffSane, TypeOK, RecordsSane
<1> QED BY <1>0, <1>1, <1>2, SameIndex, SameSteel, SameRev DEF HandoffStep, SharedStep

LEMMA SessionEndsSteps ==
  ASSUME HandoffInv, NEW k \in Connects, PipelineReleases(k) \/ SteelExpires(k)
  PROVE  HandoffStep
<1>0. /\ UNCHANGED <<pgVars, tombstone, work, index, outVars, rec, proc, faults, stranded>>
      /\ steel' = [steel EXCEPT ![k] = "gone"]
  BY DEF PipelineReleases, SteelExpires, revVars
<1>1. OutStep
  BY <1>0, SameOut, FaultsCounted DEF NoFault, HandoffInv, HandoffSane, TypeOK
<1> QED BY <1>0, <1>1, GoneStep, SameRec, SameIndex, SameRev DEF HandoffStep, SharedStep

-----------------------------------------------------------------------------
(* The invariant and what follows from it.                                  *)

LEMMA InitHandoff == ASSUME Init PROVE HandoffInv
<1> USE DEF Init
<1>1. 0 \in Tokens /\ 0 \in 0 .. MaxConfirms /\ 0 \in 0 .. MaxFaults
  BY HandoffAssumption, FaultsAssumption, FS_CardinalityType DEF Tokens
<1>2. \A r \in Replicas : proc[r] = Idle
  OBVIOUS
<1>3. Owned(Idle) = {} /\ Idle.op = "idle" /\ Idle.pc = "idle"
  BY IdleFacts DEF Owned, Idle
<1>4. TypeOK
  BY <1>1, IdleFacts DEF TypeOK
<1>5. HandoffSane
  BY <1>2, <1>4, IdleFacts DEF HandoffSane, HandlersSane, RecordsSane
<1>6. StartsAlone
  BY <1>2, <1>3 DEF StartsAlone, Starts, Unstored, Holds, Untouched
<1>7. CancelledGone /\ SearchStored
  BY <1>2, <1>3 DEF CancelledGone, SearchStored
<1>8. OneSearch
  BY <1>2, <1>3 DEF OneSearch, ScansAs
<1>9. RevocationCovers
  BY <1>2, <1>3 DEF RevocationCovers
<1>10. SessionsAccounted
  BY DEF SessionsAccounted
<1> QED BY <1>5, <1>6, <1>7, <1>8, <1>9, <1>10 DEF HandoffInv

(* Every action of the specification has one of the effects HandoffStep     *)
(* allows.                                                                   *)
LEMMA NextSteps == ASSUME HandoffInv, Next PROVE HandoffStep
<1>1. CASE RequestRevocation \/ WorkLapses \/ IntentLapses
  BY <1>1, RequestRevocationSteps, WorkLapsesSteps, IntentLapsesSteps
<1>2. ASSUME NEW r \in Replicas, StartStep(r) PROVE HandoffStep
  BY <1>2, CreateSessionSteps, SecureHandoffSteps, PutHandoffSteps, AssertConsentSteps,
     CleanupClaimSteps, TerminateSteps, RestoreCancellationSteps DEF StartStep
<1>3. ASSUME NEW r \in Replicas, ClaimStep(r) PROVE HandoffStep
  BY <1>3, AssertBudgetSteps, StoreSearchSteps, RenewAgainSteps, StartSnapshotSteps, AckHandoffSteps,
     RecheckSteps, CancelRenewSteps, ReleaseSteps, CancelAckSteps, DeferSteps DEF ClaimStep
<1>4. ASSUME NEW r \in Replicas, SweepStep(r) PROVE HandoffStep
  BY <1>4, ReclaimExpiredSteps, NextClaimSteps, CheckClaimStateSteps, MarkConsentRevokedSteps,
     ClaimRevocationWorkSteps, ScanIndexSteps, ClaimPageSteps, AdvanceWorkSteps,
     SettleRevocationSteps, FinishIntentSteps DEF SweepStep
<1>5. ASSUME NEW r \in Replicas, SweepExpired(r) \/ ClaimIntent(r) \/ EmergencyCancel(r) \/ Crash(r)
      PROVE  HandoffStep
  BY <1>5, SweepExpiredSteps, ClaimIntentSteps, EmergencyCancelSteps, CrashSteps
<1>6. ASSUME NEW r \in Replicas, NEW k \in Connects,
             StartConnect(r, k) \/ Confirm(r, k) \/ Cancel(r, k)
      PROVE  HandoffStep
  BY <1>6, StartConnectSteps, ConfirmSteps, CancelSteps
<1>7. ASSUME NEW k \in Connects,
             ClaimLapses(k) \/ RecordExpires(k) \/ PipelineReleases(k) \/ SteelExpires(k)
      PROVE  HandoffStep
  BY <1>7, ClaimLapsesSteps, RecordExpiresSteps, SessionEndsSteps
<1> QED BY <1>1, <1>2, <1>3, <1>4, <1>5, <1>6, <1>7 DEF Next

LEMMA StutterKeeps == ASSUME HandoffInv, UNCHANGED vars PROVE HandoffInv'
<1>1. HandoffStep
  <2>1. UNCHANGED <<pgVars, tombstone, work, index, outVars, rec, steel, proc, faults, stranded>>
    BY DEF vars, handoffState, pgVars, outVars
  <2>2. OutStep
    BY <2>1, SameOut, FaultsCounted DEF NoFault, HandoffInv, HandoffSane, TypeOK
  <2> QED BY <2>1, <2>2, SameRec, SameIndex, SameSteel, SameRev DEF HandoffStep, SharedStep
<1> QED BY <1>1, StepKeepsInv

LEMMA HandoffInvariant == Spec => []HandoffInv
<1>1. Init => HandoffInv
  BY InitHandoff
<1>2. HandoffInv /\ [Next]_vars => HandoffInv'
  BY NextSteps, StepKeepsInv, StutterKeeps
<1> QED BY <1>1, <1>2, PTL DEF Spec

(* Handlers, registry, index, outbox and bounds keep their types; a token    *)
(* is always left for the next claim.                                        *)
THEOREM TypeCorrect == Spec => []TypeOK
<1>1. HandoffInv => TypeOK
  BY DEF HandoffInv, HandoffSane
<1> QED BY <1>1, HandoffInvariant, PTL

(* However many replicas repeat, defer, reclaim or race a confirmation, one  *)
(* attended session starts scans under one search id only, whose record is   *)
(* stored (confirmAndScan, enqueueClaimedConfirmation).                      *)
THEOREM OneScan == Spec => []OneScanPerHandoff
<1>1. ASSUME HandoffInv PROVE OneScanPerHandoff
  <2>1. jobs \subseteq searches
    BY <1>1 DEF HandoffInv, SearchStored
  <2>2. ASSUME ~ReuseWarmSessions, NEW i \in jobs, NEW j \in jobs, i[1] = j[1]
        PROVE  i = j
    <3>1. i \in Connects \X (1 .. MaxConfirms) /\ j \in Connects \X (1 .. MaxConfirms)
      BY <1>1 DEF HandoffInv, HandoffSane, TypeOK
    <3>2. i = <<i[1], i[2]>> /\ j = <<i[1], j[2]>> /\ i[1] \in Connects
          /\ i[2] \in 1 .. MaxConfirms /\ j[2] \in 1 .. MaxConfirms
      BY <2>2, <3>1
    <3>3. ScansAs(i[1], i[2]) /\ ScansAs(i[1], j[2])
      BY <2>1, <3>2 DEF ScansAs
    <3>4. i[2] = j[2]
      BY <1>1, <2>2, <3>2, <3>3 DEF HandoffInv, OneSearch
    <3> QED BY <3>2, <3>4
  <2> QED BY <2>1, <2>2 DEF OneScanPerHandoff
<1> QED BY <1>1, HandoffInvariant, PTL

(* A live Steel session always has an owner that will release it: the start  *)
(* that created it, a stored handoff, a started scan, or - after a crash, a  *)
(* failed best-effort release or the end of its lease - its own timeout.     *)
THEOREM SessionsOwned == Spec => []SessionsAccounted
<1>1. HandoffInv => SessionsAccounted
  BY DEF HandoffInv
<1> QED BY <1>1, HandoffInvariant, PTL

(* Once the revocation intent is completed, no session of the consent can be *)
(* confirmed, whichever replicas race the scan of the reverse index.         *)
THEOREM RevocationFinal == Spec => []RevocationIsFinal
<1>1. HandoffInv => RevocationIsFinal
  BY DEF HandoffInv, RevocationCovers, Final, RevocationIsFinal
<1> QED BY <1>1, HandoffInvariant, PTL

-----------------------------------------------------------------------------
(* The in-memory registry of a development server computes what the scripts  *)
(* of the Redis registry do.                                                *)

LEMMA SameClaim ==
  ASSUME NEW v \in Record, RecordSane(v), NEW action \in {"confirm", "cancel"}, NEW search, NEW token
  PROVE  MemoryClaim(v, action, search, token) = ClaimScript(v, action, search, token)
<1> DEFINE asked == [v EXCEPT !.cancel = @ \/ action = "cancel"]
           again == asked.handed /\ action = "confirm"
           opened == IF again THEN [asked EXCEPT !.handed = FALSE, !.search = 0] ELSE asked
           act == IF opened.cancel THEN "cancel" ELSE action
           taken == [opened EXCEPT !.tok = token, !.act = act, !.leased = TRUE,
                       !.search = IF act = "confirm" /\ @ = 0 THEN search ELSE @]
           adopted == IF act = "confirm" /\ opened.search = 0
                      THEN [opened EXCEPT !.search = search] ELSE opened
           took == [adopted EXCEPT !.tok = token, !.act = act, !.leased = TRUE]
<1>1. asked = IF action = "cancel" THEN [v EXCEPT !.cancel = TRUE] ELSE v
  BY DEF Record
<1>2. action = "confirm" => asked = v
  BY <1>1
<1>3. taken = took
  BY DEF Record
<1>4. MemoryClaim(v, action, search, token) =
        IF again /\ (~ReuseWarmSessions \/ asked.cancel) THEN [reply |-> "handed_off", value |-> asked]
        ELSE IF opened.tok # 0 /\ opened.leased THEN [reply |-> "busy", value |-> opened]
        ELSE [reply |-> "claimed", value |-> took]
  <2> HIDE DEF asked
  <2> QED BY <1>1 DEF MemoryClaim
<1> QED BY <1>2, <1>3, <1>4 DEF ClaimScript

LEMMA SameScripts ==
  ASSUME NEW v \in Record, NEW action, NEW token
  PROVE  /\ MemoryAck(v, action) = AckScript(v, action)
         /\ MemoryReclaim(v, token) = Reclaimed(v, token)
         /\ MemoryRestore(token) = RestoredHandoff(token)
<1>1. MemoryAck(v, action) = AckScript(v, action)
  <2>1. CASE action # "confirm"
    BY <2>1 DEF MemoryAck, AckScript
  <2>2. CASE action = "confirm" /\ v.cancel
    BY <2>2 DEF MemoryAck, AckScript, Record
  <2>3. CASE action = "confirm" /\ ~v.cancel
    BY <2>3 DEF MemoryAck, AckScript, Record
  <2> QED BY <2>1, <2>2, <2>3
<1>2. MemoryReclaim(v, token) = Reclaimed(v, token)
  BY DEF MemoryReclaim, Reclaimed, Record
<1>3. MemoryRestore(token) = RestoredHandoff(token)
  <2> DEFINE w == RestoredHandoff(token)
  <2>1. /\ StoredHandoff = [cancel |-> FALSE, handed |-> FALSE, search |-> 0,
                            tok |-> 0, act |-> "none", leased |-> FALSE]
        /\ w = [StoredHandoff EXCEPT !.cancel = TRUE, !.tok = token, !.act = "cancel"]
    BY DEF StoredHandoff, RestoredHandoff
  <2>2. w = [cancel |-> TRUE, handed |-> FALSE, search |-> 0, tok |-> token, act |-> "cancel",
             leased |-> FALSE]
    BY <2>1, Zenon
  <2> QED BY <2>2 DEF MemoryRestore
<1> QED BY <1>1, <1>2, <1>3

(* For every handoff a run can produce, the registry of a development server *)
(* answers and stores what the Redis scripts do (the two implementations of  *)
(* ConnectSessionRegistry).                                                  *)
THEOREM RegistriesEqual == Spec => []RegistriesAgree
<1>1. ASSUME HandoffInv PROVE RegistriesAgree
  <2>1. ASSUME NEW k \in Connects, rec[k] # None
        PROVE  /\ \A action \in {"confirm", "cancel"} :
                    /\ MemoryClaim(rec[k], action, MaxConfirms, FreshToken(k))
                         = ClaimScript(rec[k], action, MaxConfirms, FreshToken(k))
                    /\ MemoryAck(rec[k], action) = AckScript(rec[k], action)
               /\ MemoryReclaim(rec[k], FreshToken(k)) = Reclaimed(rec[k], FreshToken(k))
               /\ MemoryRestore(FreshToken(k)) = RestoredHandoff(FreshToken(k))
    <3>1. rec[k] \in Record /\ RecordSane(rec[k])
      BY <1>1, <2>1 DEF HandoffInv, HandoffSane, TypeOK, RecordsSane
    <3> QED BY <3>1, SameClaim, SameScripts
  <2>2. ASSUME NEW r \in Replicas, proc[r].claim.tok # 0, NEW c, c = proc[r].claim
        PROVE  /\ MemoryRenew(c) = RenewState(c)
               /\ MemoryClaimState(c) = ClaimState(c)
               /\ MemoryDefer(c) = Deferred(c)
    BY DEF MemoryRenew, RenewState, MemoryClaimState, ClaimState, MemoryDefer, Deferred, Owns
  <2> QED BY <2>1, <2>2 DEF RegistriesAgree
<1> QED BY <1>1, HandoffInvariant, PTL

=============================================================================
