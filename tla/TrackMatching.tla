---------------------------- MODULE TrackMatching ----------------------------
(***************************************************************************)
(* The matching engine (packages/matching): how a track of the             *)
(* distributor's catalogue is compared with the uploads of a store.        *)
(* Similarities and scores are thousandths.  A title is a main part and at *)
(* most one segment (a bracketed group, a "- ..." part or a trailing       *)
(* "feat ..."); a name is the set of the artists it joins ("A & B").       *)
(***************************************************************************)
EXTENDS ModelBounds, Integers

CONSTANTS
  NearBases,    \* pairs of base titles at least 90 per cent alike
  CommonBases   \* base titles of one short or common word

-----------------------------------------------------------------------------
(* parseTitle: featured artists and version tags are taken out of the title, *)
(* any other segment stays part of the base.                                 *)
ParseTitle(title) ==
  LET seg == title.seg
      kind == IF seg = None THEN "none" ELSE seg.kind
  IN [base     |-> IF kind = "plain" THEN <<title.main, seg.val>> ELSE <<title.main>>,
      versions |-> IF kind = "version" THEN {seg.val} ELSE {},
      featured |-> IF kind = "feat" THEN seg.val ELSE {}]

\* normalizeArtistSet: every artist a name joins, and the whole name.
ArtistKeys(names) ==
  UNION {{{part} : part \in n} \union {n} : n \in names \ {{}}}

\* toNormalizedItem, for a catalogue row and for an upload.
NormalizedItem(raw) ==
  LET parsed == ParseTitle(raw.title)
  IN [base |-> parsed.base, versions |-> parsed.versions, isrc |-> raw.isrc, dur |-> raw.dur,
      keys |-> ArtistKeys({raw.artist} \union {{f} : f \in parsed.featured})]

-----------------------------------------------------------------------------
(* Similarities. *)
TitleSimilarity(s, t) ==
  IF s = t THEN 1000 ELSE IF {s, t} \in NearBases THEN 920 ELSE 300

SmallerOf(m, n) == IF m < n THEN m ELSE n

Overlap(s, t) ==
  IF s = {} \/ t = {} THEN 0
  ELSE (1000 * Cardinality(s \intersect t)) \div SmallerOf(Cardinality(s), Cardinality(t))

VersionMismatch(s, t) == s.versions # t.versions
VersionScore(s, t) ==
  IF ~VersionMismatch(s, t) THEN 1000
  ELSE IF Overlap(s.versions, t.versions) = 0 THEN 0 ELSE 500

Tolerance == 15
Delta(s, t) == IF s.dur > t.dur THEN s.dur - t.dur ELSE t.dur - s.dur
DurationScore(s, t) ==
  IF None \in {s.dur, t.dur} THEN None
  ELSE IF Delta(s, t) <= Tolerance THEN 1000
  ELSE IF Delta(s, t) <= 3 * Tolerance THEN 500 ELSE 0

ClassifyConfidence(score) ==
  IF score >= 980 THEN "confirmed" ELSE IF score >= 900 THEN "strong"
  ELSE IF score >= 750 THEN "probable" ELSE IF score >= 500 THEN "weak" ELSE "no-match"

-----------------------------------------------------------------------------
(* scoreMatch: equal ISRCs are confirmed at once, metadata is weighted and  *)
(* capped.                                                                  *)
SameIsrc(s, t) == s.isrc # None /\ s.isrc = t.isrc
IsrcConflict(s, t) == None \notin {s.isrc, t.isrc} /\ s.isrc # t.isrc
ArtistMismatch(s, t) == Overlap(s.keys, t.keys) = 0

Weighted(s, t) ==
  LET d == DurationScore(s, t)
      sum == 55 * TitleSimilarity(s.base, t.base) + 30 * Overlap(s.keys, t.keys)
             + 10 * VersionScore(s, t)
  IN IF d = None THEN sum \div 95 ELSE (sum + 5 * d) \div 100

ScoreCaps(s, t) ==
  (IF IsrcConflict(s, t) THEN {400} ELSE {})
    \union (IF VersionMismatch(s, t) THEN {600} ELSE {})
    \union (IF ArtistMismatch(s, t) THEN {550} ELSE {})
    \union (IF DurationScore(s, t) = 0 THEN {600} ELSE {})

MetadataScoreCap == 970
MetadataScore(s, t) ==
  LET scores == ScoreCaps(s, t) \union {Weighted(s, t)}
      capped == CHOOSE c \in scores : \A other \in scores : c <= other
      common == s.base \in CommonBases /\ s.isrc = None
  IN SmallerOf(IF common THEN (85 * capped) \div 100 ELSE capped, MetadataScoreCap)

ScoreMatch(s, t) == IF SameIsrc(s, t) THEN 1000 ELSE MetadataScore(s, t)

-----------------------------------------------------------------------------
(* matchAgainstCatalog decides on the first candidate with the best score.  *)
\* Broken variant: the candidates are not sorted by their scores.
BestIndexUnsorted(s, items) == 1

BestIndex(s, items) ==
  CHOOSE i \in DOMAIN items :
    \A j \in DOMAIN items :
      \/ ScoreMatch(s, items[j]) < ScoreMatch(s, items[i])
      \/ ScoreMatch(s, items[j]) = ScoreMatch(s, items[i]) /\ i <= j

Decision(s, t) ==
  LET band == ClassifyConfidence(ScoreMatch(s, t))
      strongTitle == /\ TitleSimilarity(s.base, t.base) >= 900
                     /\ SameIsrc(s, t) \/ ~VersionMismatch(s, t)
  IN IF band \in {"confirmed", "strong"} /\ ~ArtistMismatch(s, t) THEN "matched"
     ELSE IF band = "probable" THEN "review"
     ELSE IF ArtistMismatch(s, t) /\ strongTitle THEN "wrong-profile"
     ELSE "unmatched"

\* detectDuplicateIsrcs: an ISRC on recordings with different base titles.
DuplicateIsrcs(items) ==
  {k \in {t.isrc : t \in items} \ {None} :
     Cardinality({t.base : t \in {u \in items : u.isrc = k}}) > 1}
=============================================================================
