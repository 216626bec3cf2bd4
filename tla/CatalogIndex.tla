---------------------------- MODULE CatalogIndex ----------------------------
(***************************************************************************)
(* readDistroKidCatalogIndexFromPage: the list of releases read off a      *)
(* lazily loaded, possibly virtualised dashboard that may render a release *)
(* several times.  One sample of the page is a sequence of rows; between   *)
(* two samples, and between a sample and the load state read after it, the *)
(* page may show any other part of the catalogue.  The reader must not     *)
(* report a truncated or double-counted list as the whole catalogue.       *)
(***************************************************************************)
EXTENDS ModelBounds

CONSTANTS
  IndexReleases,     \* the account's releases
  CountedReleases,   \* those whose rows carry a list-level track count
  MaxReleases,       \* the configured cap on indexed releases
  MaxScrollRounds,   \* the load budget, in scroll rounds
  StableRounds,      \* quiet rounds required when a total is displayed
  UnknownStableRounds \* quiet rounds required when it is not

ASSUME IndexAssumption ==
  /\ IsFiniteSet(IndexReleases) /\ CountedReleases \subseteq IndexReleases
  /\ {MaxReleases, MaxScrollRounds, StableRounds} \subseteq Nat \ {0}
  /\ UnknownStableRounds \in Nat /\ UnknownStableRounds >= StableRounds
  /\ None \notin Nat

VARIABLES
  shown,     \* the rows the dashboard renders for each release
  step,      \* where the reader is, or the code it stopped with
  entries,   \* the accumulators: one per release the reader tells apart
  added,     \* the current sample found a new release
  clicked,   \* this round clicked "load more"
  strongest, \* the largest total read so far
  stable,    \* quiet rounds in a row
  round,     \* scroll rounds so far
  totalRead  \* the account's own total was read in some round

indexState == <<shown, step, entries, added, clicked, strongest, stable, round,
                totalRead>>
indexVars == <<indexState, boundVars>>

IndexErrorCodes ==
  {"AUTHENTICATION_REQUIRED", "RELEASE_IDENTITY_MISSING",
   "RELEASE_IDENTITY_CONFLICT", "RELEASE_LIMIT_REACHED", "LOAD_BUDGET_EXHAUSTED",
   "AUTHENTICATION_EXPIRED", "NO_RECOGNIZABLE_RELEASES", "UNSAFE_RELEASE_URL"}

-----------------------------------------------------------------------------
(* What the dashboard renders.  A rendering has a stable id or not, and a  *)
(* link: the release's own, the menu link every row shares, one to another *)
(* host, one that does not parse, or none.  The renderings of one release  *)
(* have their id or their own link in common.                              *)
RowShapes ==
  {{<<TRUE, "own">>}, {<<TRUE, "own">>, <<TRUE, "none">>},
   {<<TRUE, "own">>, <<FALSE, "own">>}, {<<TRUE, "own">>, <<TRUE, "menu">>},
   {<<FALSE, "own">>}, {<<TRUE, "none">>}, {<<FALSE, "menu">>},
   {<<TRUE, "foreign">>}, {<<FALSE, "broken">>}, {<<FALSE, "none">>}}

(* A row as the visible-row read returns it.  A list-level track count is  *)
(* absent, or a positive number that two renderings may disagree on.       *)
RowsOf(r) ==
  {[id    |-> IF s[1] THEN r ELSE None,
    href  |-> <<s[2], IF s[2] \in {"none", "menu"} THEN None ELSE r>>,
    count |-> c] : s \in shown[r], c \in {None} \cup IF r \in CountedReleases THEN 1..2 ELSE {}}

VisibleRows == UNION {RowsOf(r) : r \in IndexReleases}

IndexInit ==
  /\ shown \in [IndexReleases -> RowShapes]
  /\ step = "open" /\ entries = {} /\ added = FALSE /\ clicked = FALSE
  /\ strongest = None /\ stable = 0 /\ round = 0 /\ totalRead = FALSE

Stop(code) ==
  /\ step' = code
  /\ UNCHANGED <<shown, entries, added, clicked, strongest, stable, round, totalRead,
                 boundVars>>

(* goto, and the check that it did not land on another host or a login page. *)
OpenIndex ==
  /\ step = "open"
  /\ \/ Stop("AUTHENTICATION_REQUIRED")
     \/ Stop("sample")

-----------------------------------------------------------------------------
HasHref(row) == row.href[1] # "none"

IdMatch(row) == {e \in entries : row.id # None /\ row.id \in e.ids}

HrefMatch(row) == {e \in entries : HasHref(row) /\ row.href \in e.hrefs}

NewEntry(row) ==
  [ids |-> {}, hrefs |-> {}, id |-> row.id, count |-> row.count, conflict |-> FALSE,
   heard |-> {}]

(* Two different list-level counts leave the expectation unknown for good. *)
MergeCatalogIndexRow(e, row) ==
  LET conflict == e.conflict \/ (None \notin {e.count, row.count} /\ e.count # row.count)
  IN  [e EXCEPT !.conflict = conflict,
                !.id = IF e.id # None THEN e.id ELSE row.id,
                !.count = IF conflict THEN None
                          ELSE IF e.count # None THEN e.count ELSE row.count]

Aliased(e, row) ==
  [e EXCEPT !.ids = IF row.id # None THEN @ \cup {row.id} ELSE @,
            !.hrefs = IF HasHref(row) THEN @ \cup {row.href} ELSE @,
            !.heard = @ \cup ({row.count} \ {None})]

(* A row that names two releases, or a release under a second id, is a conflict. *)
Conflicting(row) ==
  \/ \E e \in IdMatch(row), f \in HrefMatch(row) : e # f
  \/ \E e \in HrefMatch(row) : row.id # None /\ e.ids \notin {{}, {row.id}}

(* mergeVisibleRows, one row of the sample. *)
MergeRow ==
  /\ step = "sample"
  /\ \E row \in VisibleRows :
       \/ row.href[1] = "broken" /\ Stop("UNSAFE_RELEASE_URL")
       \/ /\ row.id = None /\ ~HasHref(row)
          /\ Stop("RELEASE_IDENTITY_MISSING")
       \/ /\ row.href[1] # "broken" /\ Conflicting(row)
          /\ Stop("RELEASE_IDENTITY_CONFLICT")
       \/ /\ row.href[1] # "broken" /\ (row.id # None \/ HasHref(row)) /\ ~Conflicting(row)
          /\ LET known == IF IdMatch(row) # {} THEN IdMatch(row) ELSE HrefMatch(row)
             IN  IF known = {}
                 THEN /\ entries' = entries \cup {Aliased(NewEntry(row), row)}
                      /\ added' = TRUE
                 ELSE LET e == CHOOSE k \in known : TRUE
                      IN  /\ entries' = (entries \ {e})
                                        \cup {Aliased(MergeCatalogIndexRow(e, row), row)}
                          /\ UNCHANGED added
          /\ UNCHANGED <<shown, step, clicked, strongest, stable, round, totalRead, boundVars>>

EndSample ==
  /\ step = "sample"
  /\ Stop("state")

-----------------------------------------------------------------------------
(* The displayed total: absent, or a count of some or of all the releases.  *)
(* Several totals on one page count as their maximum.                       *)
Totals == {None} \cup 0..Cardinality(IndexReleases)

(* Broken variant: the total of the last page state, not the strongest. *)
StrongestLatest(total) == total

Strongest(total) ==
  IF total = None \/ (strongest # None /\ strongest > total) THEN strongest ELSE total

(* readCatalogLoadState and the verdict of the round.  quiet: nothing pending, *)
(* no height change, no "load more", every scroll surface at its end.          *)
ReadLoadState ==
  /\ step = "state"
  /\ \E total \in Totals, quiet \in BOOLEAN :
       LET best == Strongest(total)
           calm == IF round > 0 /\ quiet /\ ~clicked /\ ~added THEN stable + 1 ELSE 0
           size == Cardinality(entries)
           excess == round > 0 /\ best # None /\ size > best /\ calm >= StableRounds
           enough == IF best = None THEN UnknownStableRounds ELSE StableRounds
           settled == round > 0 /\ calm >= enough /\ (best = None \/ size = best)
       IN  /\ strongest' = best
           /\ stable' = calm
           /\ totalRead' = (totalRead \/ total = Cardinality(IndexReleases))
           /\ step' = IF excess THEN "RELEASE_IDENTITY_CONFLICT"
                      ELSE IF settled THEN "finish" ELSE "scroll"
           /\ UNCHANGED <<shown, entries, added, clicked, round, boundVars>>

(* clickCatalogLoadMore and the scroll to the end of every surface: a click   *)
(* on the control, or none there (an evaluate that fails counts as none).      *)
ClickAndScroll == clicked' \in BOOLEAN

(* The top of the loop: the cap, the click and the scroll. *)
ScrollRound ==
  /\ step = "scroll" /\ round < MaxScrollRounds
  /\ IF Cardinality(entries) >= MaxReleases THEN Stop("RELEASE_LIMIT_REACHED")
     ELSE /\ ClickAndScroll
          /\ added' = FALSE
          /\ round' = round + 1
          /\ step' = "sample"
          /\ UNCHANGED <<shown, entries, strongest, stable, totalRead, boundVars>>

ExhaustBudget ==
  /\ step = "scroll" /\ round = MaxScrollRounds
  /\ Stop("LOAD_BUDGET_EXHAUSTED")

(* The checks after the loop, and the entries returned. *)
FinishIndex ==
  /\ step = "finish"
  /\ \/ Stop("AUTHENTICATION_EXPIRED")
     \/ Stop(IF entries = {} THEN "NO_RECOGNIZABLE_RELEASES"
             ELSE IF Cardinality(entries) >= MaxReleases THEN "RELEASE_LIMIT_REACHED"
             ELSE IF \E e \in entries : \E h \in e.hrefs : h[1] = "foreign"
                  THEN "UNSAFE_RELEASE_URL"
             ELSE "done")

IndexNext ==
  \/ OpenIndex \/ MergeRow \/ EndSample \/ ReadLoadState
  \/ ScrollRound \/ ExhaustBudget \/ FinishIndex

IndexSpec == IndexInit /\ [][IndexNext]_indexVars

-----------------------------------------------------------------------------
IndexTypeOK ==
  /\ step \in {"open", "sample", "state", "scroll", "finish", "done"} \cup IndexErrorCodes
  /\ \A e \in entries :
       /\ e.ids \subseteq IndexReleases /\ e.id \in IndexReleases \cup {None}
       /\ e.count \in 1..2 \cup {None}
  /\ {added, clicked, totalRead} \subseteq BOOLEAN
  /\ strongest \in Totals /\ stable <= round /\ round \in 0..MaxScrollRounds

(* When the dashboard showed the account's total in any round, the list the   *)
(* reader returns is the catalogue: one entry for each release, none of them  *)
(* merged from two releases and none missing, whatever the page showed, hid   *)
(* or rendered twice meanwhile.                                               *)
IndexExact ==
  step = "done" /\ totalRead =>
    /\ Cardinality(entries) = Cardinality(IndexReleases)
    /\ \A e \in entries : Cardinality(e.ids) <= 1

(* A returned track count was contradicted by no rendering of that release:   *)
(* it goes into the completeness verdict as an independent expectation.       *)
CountsUncontradicted ==
  step = "done" => \A e \in entries : e.count # None => e.heard = {e.count}

(* What the index reader promises the planner. *)
IndexSound == IndexExact /\ CountsUncontradicted
=============================================================================
