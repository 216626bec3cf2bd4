-------------------------- MODULE MCRetryConvergence --------------------------
(* Two releases of up to two tracks, one release-level field; every announced   *)
(* track count and the listings that differ in what tracks are correlated by.   *)
EXTENDS RetryConvergence

CONSTANTS r1, r2, k1, k2, t1, t2, upc

MCReleases == {r1, r2}
MCTrackIds == {k1, k2}
MCTitles   == {t1, t2}
MCFields   == {upc}

\* Indexes of no, one and two releases, with and without announced track counts.
MCCatalogues ==
    {[r \in {} |-> 0]} \cup [{r1} -> {0, 1}] \cup [{r1, r2} -> {0, 2}]

Row(id, number, title) == [id |-> id, number |-> number, title |-> title]

\* What the parsers may list: nothing, one of two tracks, two tracks from the page or from the
\* distributor's JSON, renumbered tracks, and two tracks of the same title.
Listings ==
    {<<>>,
     <<Row(NoTrackId, 1, t1)>>,
     <<Row(NoTrackId, 1, t2)>>,
     <<Row(NoTrackId, 1, t1), Row(NoTrackId, 2, t2)>>,
     <<Row(k1, 1, t1), Row(k2, 2, t2)>>,
     <<Row(k2, 1, t2), Row(k1, 2, t1)>>,
     <<Row(NoTrackId, 1, t1), Row(NoTrackId, 2, t1)>>}

WithEvidence(listing, ev) ==
    [i \in DOMAIN listing |-> [id |-> listing[i].id, number |-> listing[i].number,
                               title |-> listing[i].title, isrc |-> ev[i]]]

\* An ISRC of a release of two tracks is read or not; one of them may be absent at the source.
Findings(listing) ==
    IF Len(listing) < 2
    THEN [DOMAIN listing -> Evidence]
    ELSE [DOMAIN listing -> {"PRESENT", "NOT_CAPTURED"}] \cup {<<"ABSENT_AT_SOURCE", "NOT_CAPTURED">>}

\* The parser always emits the upc field.
Completions(listings) ==
    UNION {{Completed([fields |-> [f \in MCFields |-> status], tracks |-> WithEvidence(l, ev)]) :
                status \in {"PRESENT", "NOT_CAPTURED"}, ev \in Findings(l)} :
           l \in listings}

\* The second release is there for the verdict on both: its listings leave out a track or none.
MCReadings ==
    [r \in MCReleases |->
        Completions(IF r = r1 THEN Listings
                    ELSE {<<Row(NoTrackId, 1, t1)>>, <<Row(NoTrackId, 1, t1), Row(NoTrackId, 2, t2)>>})
          \cup {Failed(why) : why \in Reasons}]

=============================================================================
