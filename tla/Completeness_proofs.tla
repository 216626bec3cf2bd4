------------------------- MODULE Completeness_proofs -------------------------
(***************************************************************************)
(* Facts about the convergence of retried releases, for every set of       *)
(* releases, tracks and fields.                                            *)
(***************************************************************************)
EXTENDS Completeness, FiniteSetTheorems, WellFoundedInduction, TLAPS

-----------------------------------------------------------------------------
(* strongerEvidence *)

\* strongerEvidence returns one of its two arguments' evidence and never the weaker one.
LEMMA StrongerEvidenceBound ==
    ASSUME NEW a \in Evidence, NEW b \in Evidence
    PROVE  /\ StrongerEvidence(a, b) \in Evidence
           /\ StrongerEvidence(a, b) \in {a, b}
           /\ EvidenceRank(StrongerEvidence(a, b)) >= EvidenceRank(a)
           /\ EvidenceRank(StrongerEvidence(a, b)) >= EvidenceRank(b)
BY DEF Evidence, EvidenceRank, StrongerEvidence

\* Backfilling the same evidence a second time changes nothing.
LEMMA StrongerEvidenceAbsorbs ==
    ASSUME NEW a \in Evidence, NEW b \in Evidence
    PROVE  StrongerEvidence(a, StrongerEvidence(a, b)) = StrongerEvidence(a, b)
BY DEF Evidence, EvidenceRank, StrongerEvidence

-----------------------------------------------------------------------------
(* The correlation of tracks *)

\* Of the rows a track can be taken for there is a first one.
LEMMA FirstCandidate ==
    ASSUME NEW track, NEW listing \in Seq(Track), Candidates(track, listing) # {}
    PROVE  Min(Candidates(track, listing)) \in Candidates(track, listing)
<1> DEFINE C == Candidates(track, listing)
<1>1. C \subseteq Nat
  BY DEF Candidates
<1>2. \E i \in C : \A j \in C : i <= j
  <2>1. \A R, S : IsWellFoundedOn(R, S) => \A T : T \subseteq S /\ T # {} =>
            \E x \in T : \A y \in T : ~(<<y, x>> \in R)
    BY WFMin
  <2>2. PICK i \in C : \A j \in C : ~(<<j, i>> \in OpToRel(<, Nat))
    BY <1>1, <2>1, NatLessThanWellFounded
  <2>3. \A j \in C : ~(j < i)
    BY <1>1, <2>2 DEF OpToRel
  <2> QED BY <1>1, <2>3
<1> HIDE DEF C
<1> QED BY <1>2 DEF Min, C

\* The first of one.
LEMMA OnlyCandidate ==
    ASSUME NEW track, NEW listing \in Seq(Track), NEW j, Candidates(track, listing) = {j}
    PROVE  Min(Candidates(track, listing)) = j
BY FirstCandidate

\* A backfilled track is the same track: it keeps its number, its title and the id it has.
LEMMA MergeTrackFacts ==
    ASSUME NEW track \in Track, NEW listing \in Seq(Track)
    PROVE  LET C == Candidates(track, listing)
               m == MergeTrack(track, listing)
           IN  /\ m \in Track
               /\ m.number = track.number /\ m.title = track.title
               /\ track.id # NoTrackId => m.id = track.id
               /\ C = {} => m = track
               /\ C # {} =>
                     /\ Min(C) \in C /\ listing[Min(C)] \in Track
                     /\ m.id = IF track.id = NoTrackId THEN listing[Min(C)].id ELSE track.id
                     /\ m.isrc = StrongerEvidence(track.isrc, listing[Min(C)].isrc)
<1> DEFINE C == Candidates(track, listing)
           m == MergeTrack(track, listing)
<1>1. CASE C = {}
  <2>1. m = track
    BY <1>1 DEF MergeTrack
  <2> QED BY <1>1, <2>1
<1>2. CASE C # {}
  <2>1. Min(C) \in C
    BY <1>2, FirstCandidate
  <2>2. listing[Min(C)] \in Track
    BY <2>1 DEF Candidates
  <2>3. m = [track EXCEPT !.id = IF @ = NoTrackId THEN listing[Min(C)].id ELSE @,
                          !.isrc = StrongerEvidence(@, listing[Min(C)].isrc)]
    BY <1>2 DEF MergeTrack
  <2>4. StrongerEvidence(track.isrc, listing[Min(C)].isrc) \in Evidence
    BY <2>2, StrongerEvidenceBound DEF Track
  <2> HIDE DEF m, C
  <2>5. m \in Track
    BY <2>2, <2>3, <2>4 DEF Track
  <2>6. /\ m.number = track.number /\ m.title = track.title
        /\ m.id = IF track.id = NoTrackId THEN listing[Min(C)].id ELSE track.id
        /\ m.isrc = StrongerEvidence(track.isrc, listing[Min(C)].isrc)
    BY <2>3 DEF Track
  <2> QED BY <1>2, <2>1, <2>2, <2>5, <2>6 DEF m, C
<1> QED BY <1>1, <1>2

-----------------------------------------------------------------------------
(* mergeCanonicalRelease *)

\* A canonical release is a record of fields with evidence and of listed tracks.
LEMMA CanonicalReleaseShape ==
    ASSUME NEW F \in SUBSET Fields, NEW f \in [F -> Evidence], NEW tracks \in Seq(Track)
    PROVE  [fields |-> f, tracks |-> tracks] \in CanonicalRelease
BY DEF CanonicalRelease

\* The fields and the rows of a merged release, one by one.
LEMMA MergeShape ==
    ASSUME NEW base \in CanonicalRelease, NEW extra \in CanonicalRelease
    PROVE  LET m == MergeCanonicalRelease(base, extra)
           IN  /\ m = [fields |-> m.fields, tracks |-> m.tracks]
               /\ DOMAIN base.fields \in SUBSET Fields /\ DOMAIN extra.fields \in SUBSET Fields
               /\ base.fields \in [DOMAIN base.fields -> Evidence]
               /\ extra.fields \in [DOMAIN extra.fields -> Evidence]
               /\ base.tracks \in Seq(Track) /\ extra.tracks \in Seq(Track)
               /\ m.fields \in [DOMAIN base.fields \cup DOMAIN extra.fields -> Evidence]
               /\ \A f \in DOMAIN base.fields \cup DOMAIN extra.fields :
                     m.fields[f] = IF f \notin DOMAIN extra.fields THEN base.fields[f]
                                   ELSE IF f \notin DOMAIN base.fields THEN extra.fields[f]
                                   ELSE StrongerEvidence(base.fields[f], extra.fields[f])
               /\ base.tracks = <<>> => m.tracks = extra.tracks
               /\ base.tracks # <<>> =>
                     m.tracks = [i \in 1 .. Len(base.tracks) |-> MergeTrack(base.tracks[i], extra.tracks)]
               /\ m.tracks \in Seq(Track)
<1>1. PICK F \in SUBSET Fields : base.fields \in [F -> Evidence]
  BY DEF CanonicalRelease
<1>2. PICK G \in SUBSET Fields : extra.fields \in [G -> Evidence]
  BY DEF CanonicalRelease
<1>3. base.tracks \in Seq(Track) /\ extra.tracks \in Seq(Track)
  BY DEF CanonicalRelease
<1> DEFINE m == MergeCanonicalRelease(base, extra)
           merged == [f \in F \cup G |->
                        IF f \notin G THEN base.fields[f]
                        ELSE IF f \notin F THEN extra.fields[f]
                        ELSE StrongerEvidence(base.fields[f], extra.fields[f])]
<1>4. m = [fields |-> m.fields, tracks |-> m.tracks]
  BY DEF MergeCanonicalRelease
<1>5. m.fields = merged
  BY <1>1, <1>2 DEF MergeCanonicalRelease
<1>6. merged \in [F \cup G -> Evidence]
  BY <1>1, <1>2, StrongerEvidenceBound
<1>7. base.tracks = <<>> => m.tracks = extra.tracks
  BY DEF MergeCanonicalRelease
<1>8. base.tracks # <<>> =>
        m.tracks = [i \in 1 .. Len(base.tracks) |-> MergeTrack(base.tracks[i], extra.tracks)]
  BY <1>3 DEF MergeCanonicalRelease
<1>9. m.tracks \in Seq(Track)
  <2>1. \A i \in 1 .. Len(base.tracks) : MergeTrack(base.tracks[i], extra.tracks) \in Track
    BY <1>3, MergeTrackFacts
  <2>2. CASE base.tracks # <<>>
    BY <1>3, <1>8, <2>1, <2>2
  <2> QED BY <1>3, <1>7, <2>2
<1> HIDE DEF m
<1> QED BY <1>1, <1>2, <1>3, <1>4, <1>5, <1>6, <1>7, <1>8, <1>9 DEF m

\* Merging two readings of a release gives a canonical release.
LEMMA MergeType ==
    ASSUME NEW base \in CanonicalRelease, NEW extra \in CanonicalRelease
    PROVE  MergeCanonicalRelease(base, extra) \in CanonicalRelease
<1> DEFINE m == MergeCanonicalRelease(base, extra)
           D == DOMAIN base.fields \cup DOMAIN extra.fields
<1>1. m.fields \in [D -> Evidence] /\ D \in SUBSET Fields /\ m.tracks \in Seq(Track)
      /\ m = [fields |-> m.fields, tracks |-> m.tracks]
  BY MergeShape
<1> HIDE DEF m, D
<1> QED BY <1>1, CanonicalReleaseShape DEF m

\* A field is known at least as well after the merge as in either reading, and a track at least as
\* well as the one row of the backfill it can be taken for.
LEMMA MergeKeepsEvidence ==
    ASSUME NEW base \in CanonicalRelease, NEW extra \in CanonicalRelease
    PROVE  LET m == MergeCanonicalRelease(base, extra)
           IN  /\ \A f \in DOMAIN extra.fields :
                     /\ f \in DOMAIN m.fields
                     /\ EvidenceRank(m.fields[f]) >= EvidenceRank(extra.fields[f])
               /\ \A i \in DOMAIN m.tracks, j \in DOMAIN extra.tracks :
                     Candidates(m.tracks[i], extra.tracks) = {j} =>
                        EvidenceRank(m.tracks[i].isrc) >= EvidenceRank(extra.tracks[j].isrc)
<1> DEFINE m == MergeCanonicalRelease(base, extra)
           F == DOMAIN base.fields
           G == DOMAIN extra.fields
<1>0. /\ base.fields \in [F -> Evidence] /\ extra.fields \in [G -> Evidence]
      /\ base.tracks \in Seq(Track) /\ extra.tracks \in Seq(Track)
      /\ m.fields \in [F \cup G -> Evidence]
      /\ \A f \in F \cup G : m.fields[f] = IF f \notin G THEN base.fields[f]
                                           ELSE IF f \notin F THEN extra.fields[f]
                                           ELSE StrongerEvidence(base.fields[f], extra.fields[f])
      /\ base.tracks = <<>> => m.tracks = extra.tracks
      /\ base.tracks # <<>> =>
            m.tracks = [i \in 1 .. Len(base.tracks) |-> MergeTrack(base.tracks[i], extra.tracks)]
  BY MergeShape
<1> HIDE DEF m
<1>1. \A e \in Evidence : EvidenceRank(e) >= EvidenceRank(e)
  BY DEF Evidence, EvidenceRank
<1>2. ASSUME NEW f \in G
      PROVE  f \in DOMAIN m.fields /\ EvidenceRank(m.fields[f]) >= EvidenceRank(extra.fields[f])
  <2>1. f \in DOMAIN m.fields /\ extra.fields[f] \in Evidence
    BY <1>0, <1>2
  <2>2. CASE f \in F
    <3>1. m.fields[f] = StrongerEvidence(base.fields[f], extra.fields[f])
      BY <1>0, <1>2, <2>2
    <3>2. base.fields[f] \in Evidence
      BY <1>0, <2>2
    <3> QED BY <2>1, <3>1, <3>2, StrongerEvidenceBound
  <2>3. CASE f \notin F
    <3>1. m.fields[f] = extra.fields[f]
      BY <1>0, <1>2, <2>3
    <3> QED BY <1>1, <2>1, <3>1
  <2> QED BY <2>2, <2>3
<1>3. ASSUME NEW i \in DOMAIN m.tracks, NEW j \in DOMAIN extra.tracks,
             Candidates(m.tracks[i], extra.tracks) = {j}
      PROVE  EvidenceRank(m.tracks[i].isrc) >= EvidenceRank(extra.tracks[j].isrc)
  <2>1. extra.tracks[j] \in Track /\ extra.tracks[j].isrc \in Evidence
    <3>1. extra.tracks[j] \in Track
      BY <1>0, <1>3
    <3> QED BY <3>1 DEF Track
  <2>2. CASE base.tracks = <<>>
    <3>1. m.tracks = extra.tracks
      BY <1>0, <2>2
    <3>2. i \in Candidates(m.tracks[i], extra.tracks)
      BY <1>3, <3>1 DEF Candidates, Correlated
    <3>3. m.tracks[i] = extra.tracks[j]
      BY <1>3, <3>1, <3>2
    <3> QED BY <1>1, <2>1, <3>3
  <2>3. CASE base.tracks # <<>>
    <3> DEFINE t == base.tracks[i]
               u == m.tracks[i]
               C == Candidates(t, extra.tracks)
    <3>1. m.tracks = [k \in 1 .. Len(base.tracks) |-> MergeTrack(base.tracks[k], extra.tracks)]
      BY <1>0, <2>3
    <3>2. i \in 1 .. Len(base.tracks)
      BY <1>3, <3>1
    <3>3. t \in Track
      BY <1>0, <3>2
    <3>4. u = MergeTrack(t, extra.tracks)
      BY <3>1, <3>2
    <3> HIDE DEF t, u
    <3>5. /\ u.number = t.number /\ u.title = t.title
          /\ t.id # NoTrackId => u.id = t.id
          /\ C = {} => u = t
          /\ C # {} => u.isrc = StrongerEvidence(t.isrc, extra.tracks[Min(C)].isrc)
      BY <1>0, <3>3, <3>4, MergeTrackFacts
    <3>6. C \subseteq Candidates(u, extra.tracks)
      BY <3>5 DEF Candidates, Correlated
    <3>7. Candidates(u, extra.tracks) = {j}
      BY <1>3 DEF u
    <3>8. C # {}
      BY <3>5, <3>7
    <3>9. C = {j}
      BY <3>6, <3>7, <3>8
    <3>10. Min(C) = j
      BY <1>0, <3>9, OnlyCandidate
    <3>11. u.isrc = StrongerEvidence(t.isrc, extra.tracks[j].isrc)
      BY <3>5, <3>8, <3>10
    <3>12. EvidenceRank(u.isrc) >= EvidenceRank(extra.tracks[j].isrc)
      <4>1. t.isrc \in Evidence
        BY <3>3 DEF Track
      <4> QED BY <2>1, <3>11, <4>1, StrongerEvidenceBound
    <3> QED BY <3>12 DEF u
  <2> QED BY <2>2, <2>3
<1>4. /\ \A f \in G : f \in DOMAIN m.fields /\ EvidenceRank(m.fields[f]) >= EvidenceRank(extra.fields[f])
      /\ \A i \in DOMAIN m.tracks, j \in DOMAIN extra.tracks :
            Candidates(m.tracks[i], extra.tracks) = {j} =>
               EvidenceRank(m.tracks[i].isrc) >= EvidenceRank(extra.tracks[j].isrc)
  BY <1>2, <1>3
<1> QED BY <1>4 DEF m

\* Backfilling fields with what they were merged to changes none of them.
LEMMA FieldsAbsorb ==
    ASSUME NEW base \in CanonicalRelease, NEW extra \in CanonicalRelease
    PROVE  MergeCanonicalRelease(base, MergeCanonicalRelease(base, extra)).fields
             = MergeCanonicalRelease(base, extra).fields
<1> DEFINE once == MergeCanonicalRelease(base, extra)
           twice == MergeCanonicalRelease(base, once)
           F == DOMAIN base.fields
           G == DOMAIN extra.fields
<1>1. once \in CanonicalRelease
  BY MergeType
<1>2. /\ once.fields \in [F \cup G -> Evidence]
      /\ base.fields \in [F -> Evidence] /\ extra.fields \in [G -> Evidence]
      /\ \A f \in F \cup G : once.fields[f] = IF f \notin G THEN base.fields[f]
                                              ELSE IF f \notin F THEN extra.fields[f]
                                              ELSE StrongerEvidence(base.fields[f], extra.fields[f])
  BY MergeShape
<1> HIDE DEF once
<1>3. /\ twice.fields \in [F \cup DOMAIN once.fields -> Evidence]
      /\ \A f \in F \cup DOMAIN once.fields :
            twice.fields[f] = IF f \notin DOMAIN once.fields THEN base.fields[f]
                              ELSE IF f \notin F THEN once.fields[f]
                              ELSE StrongerEvidence(base.fields[f], once.fields[f])
  BY <1>1, MergeShape
<1> HIDE DEF twice
<1>4. DOMAIN once.fields = F \cup G
  BY <1>2
<1>5. \A e \in Evidence : StrongerEvidence(e, e) = e
  BY DEF StrongerEvidence
<1>6. ASSUME NEW f \in F \cup G PROVE twice.fields[f] = once.fields[f]
  <2>1. CASE f \notin F
    BY <1>3, <1>4, <2>1
  <2>2. CASE f \in F
    <3>1. twice.fields[f] = StrongerEvidence(base.fields[f], once.fields[f])
      BY <1>3, <1>4, <2>2
    <3>2. CASE f \in G
      BY <1>2, <2>2, <3>1, <3>2, StrongerEvidenceAbsorbs
    <3>3. CASE f \notin G
      BY <1>2, <1>5, <2>2, <3>1, <3>3
    <3> QED BY <3>2, <3>3
  <2> QED BY <2>1, <2>2
<1> QED BY <1>2, <1>3, <1>4, <1>6 DEF once, twice

\* Where no row of the merged listing can be taken for another, each row is backfilled from itself,
\* which changes nothing.
LEMMA TracksAbsorb ==
    ASSUME NEW base \in CanonicalRelease, NEW extra \in CanonicalRelease,
           ToldApart(MergeCanonicalRelease(base, extra).tracks)
    PROVE  MergeCanonicalRelease(base, MergeCanonicalRelease(base, extra)).tracks
             = MergeCanonicalRelease(base, extra).tracks
<1> DEFINE once == MergeCanonicalRelease(base, extra)
           twice == MergeCanonicalRelease(base, once)
<1>1. once \in CanonicalRelease /\ once.tracks \in Seq(Track) /\ base.tracks \in Seq(Track)
  BY MergeType, MergeShape
<1>2. CASE base.tracks = <<>>
  BY <1>1, <1>2, MergeShape
<1>3. CASE base.tracks # <<>>
  <2> DEFINE N == Len(base.tracks)
  <2>1. /\ once.tracks = [i \in 1 .. N |-> MergeTrack(base.tracks[i], extra.tracks)]
        /\ extra.tracks \in Seq(Track)
    BY <1>3, MergeShape
  <2>2. twice.tracks = [i \in 1 .. N |-> MergeTrack(base.tracks[i], once.tracks)]
    BY <1>1, <1>3, MergeShape
  <2> HIDE DEF once, twice
  <2>3. ASSUME NEW i \in 1 .. N PROVE MergeTrack(base.tracks[i], once.tracks) = once.tracks[i]
    <3> DEFINE t == base.tracks[i]
               m == once.tracks[i]
    <3>1. t \in Track /\ m = MergeTrack(t, extra.tracks) /\ m \in Track /\ i \in DOMAIN once.tracks
      BY <1>1, <2>1, <2>3
    <3>2. m.number = t.number /\ m.title = t.title /\ (t.id # NoTrackId => m.id = t.id)
      BY <2>1, <3>1, MergeTrackFacts
    <3>3. m.isrc = t.isrc \/ \E e \in Evidence : m.isrc = StrongerEvidence(t.isrc, e)
      <4> HIDE DEF t, m
      <4> QED BY <2>1, <3>1, MergeTrackFacts DEF Track
    <3> HIDE DEF t, m
    <3>4. Candidates(t, once.tracks) = {i}
      <4>1. i \in Candidates(t, once.tracks)
        BY <3>1, <3>2 DEF Candidates, Correlated, m
      <4>2. ASSUME NEW j \in Candidates(t, once.tracks), j # i PROVE FALSE
        <5>1. j \in DOMAIN once.tracks /\ Correlated(t, once.tracks[j])
          BY <4>2 DEF Candidates
        <5>2. Correlated(m, once.tracks[j])
          BY <3>2, <5>1 DEF Correlated
        <5> QED BY <3>1, <4>2, <5>1, <5>2 DEF ToldApart, once, m
      <4> QED BY <4>1, <4>2
    <3>5. /\ MergeTrack(t, once.tracks) \in Track
          /\ MergeTrack(t, once.tracks).number = t.number /\ MergeTrack(t, once.tracks).title = t.title
          /\ MergeTrack(t, once.tracks).id = IF t.id = NoTrackId THEN m.id ELSE t.id
          /\ MergeTrack(t, once.tracks).isrc = StrongerEvidence(t.isrc, m.isrc)
      <4>1. Min(Candidates(t, once.tracks)) = i
        BY <1>1, <3>4, OnlyCandidate
      <4> QED BY <1>1, <3>1, <3>4, <4>1, MergeTrackFacts DEF m
    <3>6. StrongerEvidence(t.isrc, m.isrc) = m.isrc
      <4>1. StrongerEvidence(t.isrc, t.isrc) = t.isrc
        BY DEF StrongerEvidence
      <4>2. t.isrc \in Evidence
        BY <3>1 DEF Track
      <4> QED BY <3>3, <4>1, <4>2, StrongerEvidenceAbsorbs
    <3>7. \A x, y \in Track : (x.id = y.id /\ x.number = y.number /\ x.title = y.title
                                   /\ x.isrc = y.isrc) => x = y
      BY DEF Track
    <3>8. MergeTrack(t, once.tracks) = m
      BY <3>1, <3>2, <3>5, <3>6, <3>7
    <3> QED BY <3>8 DEF t, m
  <2>4. once.tracks = [i \in 1 .. N |-> once.tracks[i]]
    BY <2>1
  <2>5. twice.tracks = once.tracks
    BY <2>2, <2>3, <2>4
  <2> QED BY <2>5 DEF once, twice
<1> QED BY <1>2, <1>3

\* Merging the same newer reading again changes nothing when the merged rows can be told apart.
LEMMA MergeAbsorbs ==
    ASSUME NEW base \in CanonicalRelease, NEW extra \in CanonicalRelease,
           ToldApart(MergeCanonicalRelease(base, extra).tracks)
    PROVE  MergeCanonicalRelease(base, MergeCanonicalRelease(base, extra))
             = MergeCanonicalRelease(base, extra)
<1> DEFINE once == MergeCanonicalRelease(base, extra)
           twice == MergeCanonicalRelease(base, once)
<1>1. once \in CanonicalRelease /\ once = [fields |-> once.fields, tracks |-> once.tracks]
  BY MergeType, MergeShape
<1>2. twice = [fields |-> twice.fields, tracks |-> twice.tracks]
  BY <1>1, MergeShape
<1>3. twice.fields = once.fields /\ twice.tracks = once.tracks
  BY FieldsAbsorb, TracksAbsorb
<1> HIDE DEF once, twice
<1> QED BY <1>1, <1>2, <1>3 DEF once, twice

\* Merging a reading with itself changes nothing when its rows can be told apart.
LEMMA MergeSelf ==
    ASSUME NEW rel \in CanonicalRelease, ToldApart(rel.tracks)
    PROVE  MergeCanonicalRelease(rel, rel) = rel
<1> DEFINE m == MergeCanonicalRelease(rel, rel)
           F == DOMAIN rel.fields
<1>1. /\ m = [fields |-> m.fields, tracks |-> m.tracks]
      /\ rel.fields \in [F -> Evidence] /\ m.fields \in [F \cup F -> Evidence]
      /\ rel.tracks \in Seq(Track)
  BY MergeShape
<1>2. m.fields = rel.fields
  <2>1. ASSUME NEW f \in F PROVE m.fields[f] = rel.fields[f]
    <3>1. m.fields[f] = StrongerEvidence(rel.fields[f], rel.fields[f])
      BY <2>1, MergeShape
    <3> QED BY <3>1 DEF StrongerEvidence
  <2> HIDE DEF m, F
  <2> QED BY <1>1, <2>1
<1>3. m.tracks = rel.tracks
  <2>1. CASE rel.tracks = <<>>
    BY <2>1, MergeShape
  <2>2. CASE rel.tracks # <<>>
    <3>1. m.tracks = [i \in 1 .. Len(rel.tracks) |-> MergeTrack(rel.tracks[i], rel.tracks)]
      BY <2>2, MergeShape
    <3>2. ASSUME NEW i \in 1 .. Len(rel.tracks) PROVE MergeTrack(rel.tracks[i], rel.tracks) = rel.tracks[i]
      <4> DEFINE t == rel.tracks[i]
                 n == MergeTrack(t, rel.tracks)
      <4>1. t \in Track /\ i \in DOMAIN rel.tracks
        BY <1>1, <3>2
      <4>2. Candidates(t, rel.tracks) = {i}
        <5>1. i \in Candidates(t, rel.tracks)
          BY <4>1 DEF Candidates, Correlated
        <5>2. \A j \in Candidates(t, rel.tracks) : j = i
          BY <4>1 DEF Candidates, ToldApart
        <5> QED BY <5>1, <5>2
      <4>3. Min(Candidates(t, rel.tracks)) = i
        BY <1>1, <4>2, OnlyCandidate
      <4>4. /\ n \in Track /\ n.number = t.number /\ n.title = t.title /\ n.id = t.id
            /\ n.isrc = StrongerEvidence(t.isrc, t.isrc)
        BY <1>1, <4>1, <4>2, <4>3, MergeTrackFacts
      <4>5. n.isrc = t.isrc
        BY <4>4 DEF StrongerEvidence
      <4>6. \A x, y \in Track : (x.id = y.id /\ x.number = y.number /\ x.title = y.title
                                     /\ x.isrc = y.isrc) => x = y
        BY DEF Track
      <4> HIDE DEF t, n
      <4>7. n = t
        BY <4>1, <4>4, <4>5, <4>6
      <4> QED BY <4>7 DEF t, n
    <3> HIDE DEF m
    <3> QED BY <1>1, <3>1, <3>2
  <2> QED BY <2>1, <2>2
<1>4. rel = [fields |-> rel.fields, tracks |-> rel.tracks]
  BY DEF CanonicalRelease
<1> HIDE DEF m
<1> QED BY <1>1, <1>2, <1>3, <1>4 DEF m

\* Backfilled from a release without extractor-owned gaps, in which each row finds a candidate, a
\* reading has none either: whichever row is taken.
LEMMA MergeCaptured ==
    ASSUME NEW base \in CanonicalRelease, NEW extra \in CanonicalRelease,
           ~ReleaseNeedsMetadataRetry(extra),
           DOMAIN base.fields \subseteq DOMAIN extra.fields,
           \A i \in DOMAIN base.tracks : Candidates(base.tracks[i], extra.tracks) # {}
    PROVE  ~ReleaseNeedsMetadataRetry(MergeCanonicalRelease(base, extra))
<1> DEFINE m == MergeCanonicalRelease(base, extra)
           F == DOMAIN base.fields
           G == DOMAIN extra.fields
<1>0. /\ base.fields \in [F -> Evidence] /\ extra.fields \in [G -> Evidence]
      /\ base.tracks \in Seq(Track) /\ extra.tracks \in Seq(Track)
      /\ m.fields \in [F \cup G -> Evidence]
      /\ \A f \in F \cup G : m.fields[f] = IF f \notin G THEN base.fields[f]
                                           ELSE IF f \notin F THEN extra.fields[f]
                                           ELSE StrongerEvidence(base.fields[f], extra.fields[f])
      /\ base.tracks = <<>> => m.tracks = extra.tracks
      /\ base.tracks # <<>> =>
            m.tracks = [i \in 1 .. Len(base.tracks) |-> MergeTrack(base.tracks[i], extra.tracks)]
  BY MergeShape
<1> HIDE DEF m
<1>1. \A a, b \in Evidence : b # "NOT_CAPTURED" => StrongerEvidence(a, b) # "NOT_CAPTURED"
  BY DEF Evidence, EvidenceRank, StrongerEvidence
<1>2. /\ \A f \in G : extra.fields[f] # "NOT_CAPTURED"
      /\ \A i \in DOMAIN extra.tracks : extra.tracks[i].isrc # "NOT_CAPTURED"
  BY DEF ReleaseNeedsMetadataRetry, AuditedStatuses
<1>3. ASSUME NEW f \in DOMAIN m.fields PROVE m.fields[f] # "NOT_CAPTURED"
  <2>1. f \in G /\ f \in F \cup G
    BY <1>0, <1>3
  <2>2. extra.fields[f] # "NOT_CAPTURED" /\ extra.fields[f] \in Evidence
    BY <1>0, <1>2, <2>1
  <2>3. CASE f \in F
    <3>1. m.fields[f] = StrongerEvidence(base.fields[f], extra.fields[f]) /\ base.fields[f] \in Evidence
      BY <1>0, <2>1, <2>3
    <3> QED BY <1>1, <2>2, <3>1
  <2>4. CASE f \notin F
    <3>1. m.fields[f] = extra.fields[f]
      BY <1>0, <2>1, <2>4
    <3> QED BY <2>2, <3>1
  <2> QED BY <2>3, <2>4
<1>4. ASSUME NEW i \in DOMAIN m.tracks PROVE m.tracks[i].isrc # "NOT_CAPTURED"
  <2>1. CASE base.tracks = <<>>
    <3>1. m.tracks = extra.tracks
      BY <1>0, <2>1
    <3> QED BY <1>2, <1>4, <3>1
  <2>2. CASE base.tracks # <<>>
    <3> DEFINE t == base.tracks[i]
               C == Candidates(t, extra.tracks)
    <3>1. m.tracks = [k \in 1 .. Len(base.tracks) |-> MergeTrack(base.tracks[k], extra.tracks)]
      BY <1>0, <2>2
    <3>2. i \in 1 .. Len(base.tracks) /\ i \in DOMAIN base.tracks
      BY <1>0, <1>4, <3>1
    <3>3. t \in Track /\ C # {} /\ m.tracks[i] = MergeTrack(t, extra.tracks)
      <4>1. t \in Track
        BY <1>0, <3>2
      <4>2. m.tracks[i] = MergeTrack(t, extra.tracks)
        BY <3>1, <3>2
      <4>3. C # {}
        BY <3>2
      <4> QED BY <4>1, <4>2, <4>3
    <3> HIDE DEF t, C
    <3>4. Min(C) \in C /\ extra.tracks[Min(C)] \in Track
          /\ m.tracks[i].isrc = StrongerEvidence(t.isrc, extra.tracks[Min(C)].isrc)
      BY <1>0, <3>3, MergeTrackFacts DEF C
    <3>5. Min(C) \in DOMAIN extra.tracks
      BY <3>4 DEF Candidates, C
    <3>6. t.isrc \in Evidence /\ extra.tracks[Min(C)].isrc \in Evidence
      BY <3>3, <3>4 DEF Track
    <3>7. extra.tracks[Min(C)].isrc # "NOT_CAPTURED"
      BY <1>2, <3>5
    <3> QED BY <1>1, <3>4, <3>6, <3>7
  <2> QED BY <2>1, <2>2
<1> QED BY <1>3, <1>4 DEF ReleaseNeedsMetadataRetry, AuditedStatuses, m

\* A row of a merged listing is the row of the newer reading with its number, so the reading's rows
\* find candidates in what they were merged to.
LEMMA MergedFindCandidates ==
    ASSUME NEW base \in CanonicalRelease, NEW extra \in CanonicalRelease
    PROVE  LET m == MergeCanonicalRelease(base, extra)
           IN  /\ DOMAIN base.fields \subseteq DOMAIN m.fields
               /\ \A i \in DOMAIN base.tracks : Candidates(base.tracks[i], m.tracks) # {}
<1> DEFINE m == MergeCanonicalRelease(base, extra)
           F == DOMAIN base.fields
           G == DOMAIN extra.fields
<1>0. /\ base.tracks \in Seq(Track) /\ extra.tracks \in Seq(Track)
      /\ m.fields \in [F \cup G -> Evidence]
      /\ base.tracks # <<>> =>
            m.tracks = [i \in 1 .. Len(base.tracks) |-> MergeTrack(base.tracks[i], extra.tracks)]
  BY MergeShape
<1> HIDE DEF m
<1>1. F \subseteq DOMAIN m.fields
  BY <1>0
<1>2. ASSUME NEW i \in DOMAIN base.tracks PROVE i \in Candidates(base.tracks[i], m.tracks)
  <2>1. base.tracks # <<>> /\ i \in 1 .. Len(base.tracks) /\ base.tracks[i] \in Track
    BY <1>0, <1>2
  <2>2. i \in DOMAIN m.tracks /\ m.tracks[i] = MergeTrack(base.tracks[i], extra.tracks)
    BY <1>0, <2>1
  <2>3. m.tracks[i].number = base.tracks[i].number
    BY <1>0, <2>1, <2>2, MergeTrackFacts
  <2> QED BY <2>2, <2>3 DEF Candidates, Correlated
<1> QED BY <1>1, <1>2 DEF m

\* A reading always finds itself.
LEMMA SelfFindsCandidates ==
    ASSUME NEW rel \in CanonicalRelease
    PROVE  \A i \in DOMAIN rel.tracks : Candidates(rel.tracks[i], rel.tracks) # {}
<1>1. \A i \in DOMAIN rel.tracks : i \in Candidates(rel.tracks[i], rel.tracks)
  BY DEF Candidates, Correlated
<1> QED BY <1>1

-----------------------------------------------------------------------------
(* convergeReleaseRetryOutcome *)

\* What the two kinds of outcomes carry.
LEMMA OutcomeShape ==
    ASSUME NEW o \in Outcome \cup {NoOutcome}
    PROVE  /\ o.kind = "COMPLETED" => o.release \in CanonicalRelease /\ o = Completed(o.release)
           /\ o.kind = "FAILED" => o.reason \in Reasons /\ o = Failed(o.reason)
           /\ o.kind = "NONE" => o = NoOutcome
           /\ o.kind \in {"COMPLETED", "FAILED", "NONE"}
BY DEF Outcome, NoOutcome, Completed, Failed

\* A converged outcome is an outcome.
LEMMA ConvergeType ==
    ASSUME NEW previous \in Outcome \cup {NoOutcome}, NEW incoming \in Outcome
    PROVE  Converge(previous, incoming) \in Outcome
<1>1. \A rel \in CanonicalRelease : Completed(rel) \in Outcome
  BY DEF Outcome, Completed
<1>2. CASE previous.kind = "COMPLETED" /\ incoming.kind = "COMPLETED"
  BY <1>1, <1>2, OutcomeShape, MergeType DEF Converge
<1>3. CASE previous.kind = "COMPLETED" /\ incoming.kind # "COMPLETED"
  BY <1>1, <1>3, OutcomeShape DEF Converge
<1>4. CASE previous.kind # "COMPLETED"
  BY <1>4 DEF Converge
<1> QED BY <1>2, <1>3, <1>4

\* Converging the same reading a second time changes nothing when the rows of what it was converged
\* to can be told apart, or when it failed.
LEMMA ConvergeReplay ==
    ASSUME NEW previous \in Outcome \cup {NoOutcome}, NEW incoming \in Outcome,
           incoming.kind = "COMPLETED" => ToldApart(Converge(previous, incoming).release.tracks)
    PROVE  Converge(Converge(previous, incoming), incoming) = Converge(previous, incoming)
<1>1. \A rel : Completed(rel).kind = "COMPLETED" /\ Completed(rel).release = rel
  BY DEF Completed
<1>2. CASE previous.kind = "COMPLETED" /\ incoming.kind = "COMPLETED"
  <2> DEFINE base == incoming.release
             once == MergeCanonicalRelease(base, previous.release)
  <2>1. base \in CanonicalRelease /\ previous.release \in CanonicalRelease
    BY <1>2, OutcomeShape
  <2>2. Converge(previous, incoming) = Completed(once)
    BY <1>2 DEF Converge
  <2>3. ToldApart(once.tracks)
    BY <1>1, <1>2, <2>2
  <2>4. MergeCanonicalRelease(base, once) = once
    BY <2>1, <2>3, MergeAbsorbs
  <2> HIDE DEF base, once
  <2>5. Converge(Completed(once), incoming) = Completed(MergeCanonicalRelease(base, once))
    BY <1>1, <1>2 DEF Converge, base
  <2> QED BY <2>2, <2>4, <2>5
<1>3. CASE previous.kind = "COMPLETED" /\ incoming.kind # "COMPLETED"
  BY <1>3 DEF Converge
<1>4. CASE previous.kind # "COMPLETED" /\ incoming.kind = "COMPLETED"
  BY <1>1, <1>4, OutcomeShape, MergeSelf DEF Converge
<1>5. CASE previous.kind # "COMPLETED" /\ incoming.kind # "COMPLETED"
  BY <1>5 DEF Converge
<1> QED BY <1>2, <1>3, <1>4, <1>5

\* What was converged from a reading is not worse after the same reading is converged again, told
\* apart or not: it stays completed, and without extractor-owned gaps if it had none.
LEMMA ConvergeAgain ==
    ASSUME NEW previous \in Outcome \cup {NoOutcome}, NEW incoming \in Outcome
    PROVE  LET once == Converge(previous, incoming)
               twice == Converge(once, incoming)
           IN  /\ once.kind = "COMPLETED" => twice.kind = "COMPLETED"
               /\ FullyComplete(once) => FullyComplete(twice)
<1> DEFINE once == Converge(previous, incoming)
           twice == Converge(once, incoming)
<1>1. \A rel : Completed(rel).kind = "COMPLETED" /\ Completed(rel).release = rel
  BY DEF Completed
<1>2. CASE incoming.kind # "COMPLETED"
  <2>1. twice = once
    BY <1>2 DEF Converge
  <2> QED BY <2>1
<1>3. CASE incoming.kind = "COMPLETED" /\ previous.kind = "COMPLETED"
  <2> DEFINE base == incoming.release
             m == MergeCanonicalRelease(base, previous.release)
  <2>1. base \in CanonicalRelease /\ previous.release \in CanonicalRelease
    BY <1>3, OutcomeShape
  <2>2. m \in CanonicalRelease
    BY <2>1, MergeType
  <2>3. /\ DOMAIN base.fields \subseteq DOMAIN m.fields
        /\ \A i \in DOMAIN base.tracks : Candidates(base.tracks[i], m.tracks) # {}
    BY <2>1, MergedFindCandidates
  <2> HIDE DEF base, m
  <2>4. ~ReleaseNeedsMetadataRetry(m) => ~ReleaseNeedsMetadataRetry(MergeCanonicalRelease(base, m))
    BY <2>1, <2>2, <2>3, MergeCaptured
  <2>5. once = Completed(m)
    BY <1>3 DEF Converge, base, m
  <2>6. twice = Completed(MergeCanonicalRelease(base, m))
    BY <1>1, <1>3, <2>5 DEF Converge, base
  <2> QED BY <1>1, <2>4, <2>5, <2>6 DEF FullyComplete
<1>4. CASE incoming.kind = "COMPLETED" /\ previous.kind # "COMPLETED"
  <2> DEFINE base == incoming.release
  <2>1. base \in CanonicalRelease
    BY <1>4, OutcomeShape
  <2>2. once = incoming /\ twice = Completed(MergeCanonicalRelease(base, base))
    BY <1>4 DEF Converge
  <2>3. ~ReleaseNeedsMetadataRetry(base) => ~ReleaseNeedsMetadataRetry(MergeCanonicalRelease(base, base))
    BY <2>1, SelfFindsCandidates, MergeCaptured
  <2> QED BY <1>1, <2>2, <2>3 DEF FullyComplete
<1> QED BY <1>2, <1>3, <1>4

-----------------------------------------------------------------------------
(* reconcile and deriveStatus *)

CompleteStatuses == {"COMPLETE", "COMPLETE_WITH_SOURCE_GAPS"}

\* reconcile counts as many failed and as many completed releases as there are.
LEMMA ReconcileFacts ==
    ASSUME IsFiniteSet(Releases), NEW index, NEW outs, DOMAIN index \in SUBSET Releases
    PROVE  LET c == Reconcile(index, outs)
           IN  /\ c.failed > 0 <=> FailedIds(outs) # {}
               /\ c.completed = 0 <=> CompletedIds(outs) = {}
               /\ c.expected > 0 <=> DOMAIN index # {}
               /\ c.unresolved = {r \in DOMAIN index : outs[r].kind = "NONE"}
               /\ c.reasons = {outs[r].reason : r \in FailedIds(outs)}
               /\ c.tracksOff <=>
                     /\ ExpectedTracksKnown(index)
                     /\ TracksListed(outs, CompletedIds(outs)) # TracksAnnounced(index)
               /\ c.notCaptured =
                     {r \in CompletedIds(outs) : ReleaseNeedsMetadataRetry(outs[r].release)}
<1> DEFINE c == Reconcile(index, outs)
<1>1. \A S \in SUBSET Releases :
         /\ Cardinality(S) \in Nat /\ (Cardinality(S) = 0 <=> S = {})
  BY FS_Subset, FS_CardinalityType, FS_EmptySet
<1>2. CompletedIds(outs) \in SUBSET Releases /\ FailedIds(outs) \in SUBSET Releases
  BY DEF CompletedIds, FailedIds
<1>3. /\ c.failed = Cardinality(FailedIds(outs))
      /\ c.completed = Cardinality(CompletedIds(outs))
      /\ c.expected = Cardinality(DOMAIN index)
      /\ c.unresolved = {r \in DOMAIN index : outs[r].kind = "NONE"}
      /\ c.reasons = {outs[r].reason : r \in FailedIds(outs)}
      /\ c.tracksOff = (/\ ExpectedTracksKnown(index)
                        /\ TracksListed(outs, CompletedIds(outs)) # TracksAnnounced(index))
      /\ c.notCaptured = {r \in CompletedIds(outs) : ReleaseNeedsMetadataRetry(outs[r].release)}
  BY DEF Reconcile
<1> HIDE DEF c
<1>4. /\ c.failed > 0 <=> FailedIds(outs) # {}
      /\ c.completed = 0 <=> CompletedIds(outs) = {}
      /\ c.expected > 0 <=> DOMAIN index # {}
  <2>1. \A n \in Nat : n > 0 <=> n # 0
    OBVIOUS
  <2> QED BY <1>1, <1>2, <1>3, <2>1
<1> QED BY <1>3, <1>4 DEF c

\* A COMPLETE verdict means that nothing the index lists is missing, failed or partly read, and
\* that the announced tracks were found.
LEMMA CompleteVerdict ==
    ASSUME IsFiniteSet(Releases), NEW index, NEW outs \in [Releases -> Outcome \cup {NoOutcome}],
           DOMAIN index \in SUBSET Releases,
           StatusOf(index, outs) \in CompleteStatuses
    PROVE  /\ \A r \in DOMAIN index : FullyComplete(outs[r])
           /\ ~Reconcile(index, outs).tracksOff
<1> DEFINE c == Reconcile(index, outs)
<1>1. c.unresolved = {} /\ ~(c.failed > 0) /\ c.notCaptured = {} /\ ~c.tracksOff
  BY DEF StatusOf, DeriveStatus, CompleteStatuses
<1>2. ASSUME NEW r \in DOMAIN index PROVE FullyComplete(outs[r])
  <2>1. r \in Releases /\ outs[r] \in Outcome \cup {NoOutcome}
    OBVIOUS
  <2>2. outs[r].kind # "NONE" /\ outs[r].kind # "FAILED"
    BY <1>1, <2>1, ReconcileFacts DEF FailedIds
  <2>3. outs[r].kind = "COMPLETED"
    BY <2>1, <2>2, OutcomeShape
  <2> QED BY <1>1, <2>1, <2>3, ReconcileFacts DEF CompletedIds, FullyComplete
<1> QED BY <1>1, <1>2

=============================================================================
