------------------------- MODULE MCCatalogueReading -------------------------
(* Values for the constants of CatalogueReading, for TLC. *)
EXTENDS CatalogueReading

CONSTANTS x1, x2, x3, p1, p2, w1, t1, t2, e1, e2, a1, a2, s1, s2

\* Catalogue rows and uploads of the audit: an ISRC used twice, a remix, a
\* featured artist, a stranger's upload under the same ISRC, a hidden upload.
Title(m, s) == [main |-> m, seg |-> s]
Plain == Title("song", None)
Remix == Title("song", [kind |-> "version", val |-> "remix"])
Featuring == Title("song", [kind |-> "feat", val |-> {"guest"}])

ExportRow(t, i, d, r, o) ==
  [title |-> t, artist |-> {"artist"}, isrc |-> i, dur |-> d, rel |-> r, opt |-> o]
MCRows ==
  {ExportRow(Plain, "i1", 100, "r1", TRUE), ExportRow(Featuring, None, None, "r1", FALSE),
   ExportRow(Remix, None, 100, "r2", TRUE), ExportRow(Title("intro", None), "i1", None, "r2", TRUE)}

Upload(t, by, i, d, p, l, s) ==
  [title |-> t, artist |-> by, isrc |-> i, dur |-> d, profile |-> p, listed |-> l, status |-> s]
MCUploads ==
  {Upload(Plain, {"artist"}, None, 100, "own", TRUE, "live"),
   Upload(Plain, {"artist", "guest"}, "i1", None, "own", TRUE, "private-unplayable"),
   Upload(Title("songs", None), {"stranger"}, "i1", None, "own", TRUE, "live"),
   Upload(Remix, {"artist"}, "i2", 160, "other", TRUE, "removed-takedown"),
   Upload(Remix, {"stranger"}, None, 130, "other", FALSE, "live")}
MCNear == {{<<"song">>, <<"songs">>}}
MCCommon == {<<"intro">>}

\* Every song is known to LyricFind; the stores have it or not.
MCTruth == [Songs -> {[stores |-> st, broad |-> TRUE] : st \in BOOLEAN}]
=============================================================================
