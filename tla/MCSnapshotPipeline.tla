-------------------------- MODULE MCSnapshotPipeline --------------------------
(* Small instances of the pipeline for TLC. *)
EXTENDS SnapshotPipeline, TLC

CONSTANTS r1, r2, upc, w1, w2, s1

MCReleases  == {r1, r2}
MCTrackIds  == {}
MCTitles    == {}
MCFields    == {upc}
MCPosition  == [r \in Releases |-> IF r = r1 THEN 1 ELSE 2]

Reading(status) == Completed([fields |-> upc :> status, tracks |-> <<>>])
Full == Reading("PRESENT")
Gaps == Reading("NOT_CAPTURED")

\* The catalogue lists both releases, without track counts.
MCCatalogue == {[r \in {r1, r2} |-> 0]}
\* A second reading of the catalogue may list one release more, or one fewer.
MCCatalogues == {[r \in {r1, r2} |-> 0], [r \in {r2} |-> 0]}

\* A reading succeeds, misses a field, or fails transiently.
MCReadings == {Full, Gaps, Failed("REQUEST_FAILED")}
\* One release only, for the runs with more actors and faults.
MCOne       == {r1}
MCOneIndex  == {[r \in {r1} |-> 0]}
MCTwoReadings == {Full, Failed("REQUEST_FAILED")}
MCOneReading  == {Full}

WorkerSymmetry == Permutations({w1, w2})
=============================================================================
