---------------------------- MODULE SearchHistory ----------------------------
(***************************************************************************)
(* Seek pagination of a user's scan history: GET /api/searches over        *)
(* UserScopedSearchStore.listPage and pageForUser.  Scans are created and  *)
(* deleted between two pages of a walk.  A record is its position: the     *)
(* creation time and, for equal times, the id.                             *)
(***************************************************************************)
EXTENDS Naturals, FiniteSets

CONSTANTS
  Users,     \* OIDC subjects
  Times,     \* creation times, a set of naturals
  Ids,       \* record ids, a set of naturals ordered as their text is
  Limits,    \* page sizes a caller asks for (0 is refused)
  MaxPage,   \* SEARCH_HISTORY_MAX_PAGE_SIZE
  NoCursor   \* the first page

VARIABLES
  rows,     \* the records, [user, at, id]
  walk,     \* the walker: user, cursor, what it was given, whether it ended
  standing  \* records that have been there since the walk began

historyVars == <<rows, walk, standing>>

Row == [user : Users, at : Times, id : Ids]
Position == [at : Times, id : Ids]

(* A cursor carries its owner's scope and is signed; only a holder differs. *)
Cursor == [scope : Users, pos : Position]

Walks == [user : Users, cursor : Cursor \cup {NoCursor}, given : SUBSET Row,
          twice : BOOLEAN, ended : BOOLEAN]

ASSUME HistoryAssumption ==
  /\ Times \subseteq Nat /\ Ids \subseteq Nat /\ MaxPage \in Nat
  /\ NoCursor \notin Cursor

PosOf(r) == [at |-> r.at, id |-> r.id]

(* (created_at, id) < (cursor) in row order. *)
Before(p, q) == p.at < q.at \/ (p.at = q.at /\ p.id < q.id)

(* The rows of one user after the cursor, newest first: the k newest. *)
Newest(S, k) ==
  {r \in S : Cardinality({q \in S : Before(PosOf(r), PosOf(q))}) < k}

Eligible(user, cursor) ==
  {r \in rows : r.user = user /\
                 (cursor = NoCursor \/ Before(PosOf(r), cursor.pos))}

(* limit + 1 rows are fetched; the extra one only proves there is a page more. *)
PageItems(user, cursor, limit) == Newest(Newest(Eligible(user, cursor), limit + 1), limit)

HasMore(user, cursor, limit) ==
  Cardinality(Newest(Eligible(user, cursor), limit + 1)) > limit

(* The cursor of the next page is the last item's position. *)
LastOf(items) == CHOOSE p \in {PosOf(r) : r \in items} :
                   \A r \in items : ~Before(PosOf(r), p)

(* parseSearchHistoryPageLimit and validateSearchPageOptions *)
LimitAccepted(limit) == limit \in 1..MaxPage

(* Broken variant: the scope is not part of the signed cursor. *)
CursorAcceptedUnscoped(user, cursor) == TRUE

(* decodeHistoryCursor refuses a cursor of another scope. *)
CursorAccepted(user, cursor) == cursor # NoCursor => cursor.scope = user

NewWalk(u) == [user |-> u, cursor |-> NoCursor, given |-> {}, twice |-> FALSE, ended |-> FALSE]

HistoryInit ==
  /\ rows \in SUBSET Row /\ IsFiniteSet(rows)
  /\ \A r, q \in rows : r.id = q.id => r = q
  /\ walk \in {NewWalk(u) : u \in Users}
  /\ standing = {r \in rows : r.user = walk.user}

(* GET /api/searches: a refused limit or cursor changes nothing. *)
GetPage ==
  \E limit \in Limits :
    LET user == walk.user
        items == PageItems(user, walk.cursor, limit)
    IN /\ ~walk.ended
       /\ LimitAccepted(limit) /\ CursorAccepted(user, walk.cursor)
       /\ walk' = [walk EXCEPT
            !.given = @ \cup items,
            !.twice = @ \/ walk.given \cap items # {},
            !.cursor = IF HasMore(user, @, limit)
                       THEN [scope |-> user, pos |-> LastOf(items)] ELSE @,
            !.ended = ~HasMore(user, walk.cursor, limit)]
       /\ UNCHANGED <<rows, standing>>

(* 400: the client that signed in as another user has to begin again. *)
RefuseCursor ==
  /\ ~CursorAccepted(walk.user, walk.cursor)
  /\ walk' = [walk EXCEPT !.cursor = NoCursor]
  /\ UNCHANGED <<rows, standing>>

(* Another user signs in where a walk was left off. *)
SignInAs(u) ==
  /\ u # walk.user
  /\ walk.cursor # NoCursor => walk.cursor.scope = walk.user
  /\ walk' = [walk EXCEPT !.user = u, !.given = {}, !.twice = FALSE, !.ended = FALSE]
  /\ standing' = {r \in rows : r.user = u}
  /\ UNCHANGED rows

(* A scan is saved with the current time, which never runs backwards. *)
SaveScan ==
  \E r \in Row :
    /\ \A q \in rows : q.id # r.id /\ q.at <= r.at
    /\ rows' = rows \cup {r}
    /\ UNCHANGED <<walk, standing>>

DeleteScan ==
  \E r \in rows :
    /\ rows' = rows \ {r} /\ standing' = standing \ {r}
    /\ UNCHANGED walk

HistoryNext ==
  \/ GetPage \/ RefuseCursor \/ SaveScan \/ DeleteScan
  \/ \E u \in Users : SignInAs(u)

HistorySpec == HistoryInit /\ [][HistoryNext]_historyVars

-----------------------------------------------------------------------------
HistoryTypeOK ==
  /\ rows \subseteq Row /\ standing \subseteq Row /\ walk \in Walks

(* A walk through the history shows every scan that was there all along,   *)
(* shows none twice and none of another user, although scans are saved and *)
(* deleted between its pages, the one the cursor stands on included        *)
(* (pageForUser, listPage).                                                *)
WalkComplete ==
  /\ ~walk.twice
  /\ \A r \in walk.given : r.user = walk.user
  /\ walk.ended => standing \subseteq walk.given
=============================================================================
