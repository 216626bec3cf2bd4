------------------------------ MODULE StoreScan ------------------------------
(***************************************************************************)
(* One track against one store: the provider reads the artist's catalogue  *)
(* (prepareStorePresence), then scanStorePresence gives the verdict.  The  *)
(* store's answers may fail, stop early, repeat a cursor or lose an item,  *)
(* and every cap may cut the walk short.  None of these may turn a track   *)
(* that is live into one reported "not live", save for the answers that    *)
(* Deezer and SoundCloud take for the end of a listing although they are   *)
(* none.                                                                   *)
(***************************************************************************)
EXTENDS ModelBounds

CONSTANTS
  StoreTracks,  \* titles a profile may hold; one is the track scanned
  Scanned,      \* that track
  StoreLimit,   \* catalogMaxTracks, in items of the walk
  AlbumCap      \* MAX_ALBUMS of the Deezer provider

ASSUME StoreAssumption ==
  /\ IsFiniteSet(StoreTracks) /\ Scanned \in StoreTracks
  /\ {StoreLimit, AlbumCap} \subseteq Nat \ {0}
  /\ None \notin {"live", "not-live", "wrong-profile", "unverifiable"}

VARIABLES
  provider,   \* the store's provider
  onStore,    \* the tracks of the profile the provider resolves
  isrcOwner,  \* whom the store credits the track's ISRC to
  quick,      \* index-only scan
  at,         \* where the scan of this store is
  left,       \* tracks the walk has not been given yet
  got,        \* tracks in the catalogue index
  pending,    \* albums still to be expanded
  fetched,    \* items examined
  complete,   \* the provider's pagination.complete so far
  tries,      \* failed attempts of the request under way
  degraded,   \* supplementalDegraded
  mistaken,   \* an answer was taken for the end of a listing that it is not
  verdict     \* the status reported, or None

scanState == <<provider, onStore, isrcOwner, quick, at, left, got, pending, fetched,
               complete, tries, degraded, mistaken, verdict>>
scanVars == <<scanState, boundVars>>
scanInputs == <<provider, onStore, isrcOwner, quick, boundVars>>

-----------------------------------------------------------------------------
(* createStoreScanTargets: what each provider can do. *)
Cursored == {"TIDAL", "SoundCloud", "Spotify", "Deezer"}
OneShot == {"Apple Music / iTunes", "Audiomack"}
ConfirmOnly == {"YouTube Music", "web search"}
Providers == Cursored \cup OneShot \cup ConfirmOnly

HasIsrcLookup == {"Deezer", "Spotify"}
HasTitleSearch == {"Deezer", "Spotify", "Apple Music / iTunes"} \cup ConfirmOnly

(* The fast path drops the confirm-only stores. *)
ScanTargets(fast) == IF fast THEN Providers \ ConfirmOnly ELSE Providers

ScanInit ==
  /\ quick \in BOOLEAN
  /\ provider \in ScanTargets(quick)
  /\ onStore \in SUBSET StoreTracks
  /\ isrcOwner \in {"own", "other", "nobody"}
  /\ isrcOwner = "own" => Scanned \in onStore
  /\ at = IF provider \in ConfirmOnly THEN "index" ELSE "resolve"
  /\ left = onStore /\ got = {} /\ pending = {} /\ fetched = 0
  /\ complete = (provider \notin ConfirmOnly \cup {"Spotify"})
  /\ tries = 0 /\ degraded = FALSE /\ mistaken = FALSE /\ verdict = None

-----------------------------------------------------------------------------
(* Broken variant: the limit counts the retries, not the attempts. *)
AttemptsAfterFirst == IF provider \in {"TIDAL", "Spotify"} THEN MaxAttempts + 1 ELSE 1

(* fetchWithRetry retries transport errors, 408, 425, 429 and 5xx; a 401     *)
(* gets one new token.  The other providers take a failed request as it is.  *)
Attempts == IF provider \in {"TIDAL", "Spotify"} THEN MaxAttempts ELSE 1

RequestUnderWay ==
  \/ at \in {"resolve", "page"}
  \/ at = "isrc" /\ provider \in HasIsrcLookup
  \/ at = "title" /\ provider \in HasTitleSearch

RetryRequest ==
  /\ RequestUnderWay /\ tries + 1 < Attempts
  /\ tries' = tries + 1
  /\ UNCHANGED <<at, left, got, pending, fetched, complete, degraded, mistaken, verdict,
                 scanInputs>>

(* The step's last attempt failed. *)
OutOfAttempts == tries + 1 = Attempts

(* What resolving the artist may find: the profile itself (an exact profile  *)
(* URL), an exact name, a profile that is someone else's, or none.            *)
TidalArtist == {"profile", "name", "none"}
SoundCloudUser == {"profile", "name", "stranger", "none"}
AudiomackSlug == {"profile", "name", "stranger", "none"}
DeezerArtist == {"name", "none"}
ItunesArtist == {"name", "none"}
SpotifyArtist == {"name", "none"}

Resolutions ==
  CASE provider = "TIDAL" -> TidalArtist
    [] provider = "SoundCloud" -> SoundCloudUser
    [] provider = "Audiomack" -> AudiomackSlug
    [] provider = "Deezer" -> DeezerArtist
    [] provider = "Spotify" -> SpotifyArtist
    [] OTHER -> ItunesArtist

(* A catalogue counts as complete only when the artist was identified, and   *)
(* TIDAL proves no absence by a name alone.                                  *)
ResolveArtist ==
  /\ at = "resolve"
  /\ \E r \in Resolutions :
       /\ complete' = (complete /\ r \notin {"none", "stranger"}
                                /\ (r = "name" => provider # "TIDAL"))
       /\ at' = IF r = "none" THEN "index" ELSE "page"
       /\ left' = IF r \in {"none", "stranger"} THEN {} ELSE left
  /\ tries' = 0
  /\ UNCHANGED <<got, pending, fetched, degraded, mistaken, verdict, scanInputs>>

-----------------------------------------------------------------------------
(* Where a walk goes on: albums listed by the walk are expanded first. *)
AfterWalk(albums) == IF albums # {} THEN "expand" ELSE "index"

(* Broken variant: a page that failed ends the walk like a last page. *)
PageFailedUnnoticed ==
  /\ at = "page" /\ provider \in Cursored
  /\ OutOfAttempts
  /\ complete' = complete
  /\ at' = AfterWalk(pending)
  /\ tries' = 0
  /\ UNCHANGED <<left, got, pending, fetched, degraded, mistaken, verdict, scanInputs>>

(* A page request fails, or TIDAL's or Spotify's body carries no list: incomplete. *)
PageFailed ==
  /\ at = "page" /\ provider \in Cursored
  /\ OutOfAttempts
  /\ complete' = FALSE
  /\ at' = AfterWalk(pending)
  /\ tries' = 0
  /\ UNCHANGED <<left, got, pending, fetched, degraded, mistaken, verdict, scanInputs>>

(* An answer with a good status but no list in its body, an error object say: *)
(* Deezer and SoundCloud take it for an empty last page.                       *)
PageWithoutList ==
  /\ at = "page" /\ provider \in {"Deezer", "SoundCloud"}
  /\ mistaken' = (mistaken \/ left # {})
  /\ at' = AfterWalk(pending)
  /\ tries' = 0
  /\ UNCHANGED <<left, got, pending, fetched, complete, degraded, verdict, scanInputs>>

(* The link that ends a page: none on the last one, else the next page; or a  *)
(* cursor already visited, one that leaves the provider's API, or no link     *)
(* although the announced total says there is more.                           *)
Links(rest) ==
  IF rest = {} THEN {"none"} ELSE {"next", "repeated", "invalid", "early"}

(* What is left of a page at a cap on the items examined. *)
Within(cap, items) ==
  {t \in SUBSET items :
     Cardinality(t) = IF Cardinality(items) < cap - fetched THEN Cardinality(items)
                      ELSE cap - fetched}

(* One page examined: "more" when the walk goes on, whole when the page gave  *)
(* no reason to call the catalogue incomplete.                                *)
Walk(items, taken, kept, more, whole) ==
  /\ fetched' = fetched + Cardinality(taken)
  /\ left' = left \ items
  /\ complete' = (complete /\ whole)
  /\ IF provider = "Deezer" THEN pending' = pending \cup kept /\ UNCHANGED got
     ELSE got' = got \cup kept /\ UNCHANGED pending
  /\ at' = IF more THEN "page" ELSE AfterWalk(pending')
  /\ tries' = 0
  /\ UNCHANGED <<degraded, verdict, scanInputs>>

(* A TIDAL page: items beyond the limit are cut off, a relationship without a *)
(* usable resource is counted, and a page that does not advance ends the walk. *)
TidalPage ==
  /\ at = "page" /\ provider = "TIDAL"
  /\ \E items \in SUBSET left : \E link \in Links(left \ items) :
     \E taken \in Within(StoreLimit, items) : \E unusable \in SUBSET taken :
       LET full == fetched + Cardinality(taken) >= StoreLimit
           goesOn == link = "next" /\ ~full /\ taken # {}
       IN  Walk(items, taken, taken \ unusable, goesOn,
                taken = items /\ unusable = {} /\ (goesOn \/ link = "none"))
  /\ UNCHANGED mistaken

SoundCloudPage ==
  /\ at = "page" /\ provider = "SoundCloud"
  /\ \E items \in SUBSET left : \E link \in Links(left \ items) \ {"early"} :
     \E taken \in Within(StoreLimit, items) :
       LET full == fetched + Cardinality(taken) >= StoreLimit
           goesOn == link = "next" /\ ~full /\ items # {}
       IN  Walk(items, taken, taken, goesOn, taken = items /\ (goesOn \/ link = "none"))
  /\ UNCHANGED mistaken

(* A page of Spotify's ranked search, whose end proves nothing. *)
SpotifyPage ==
  /\ at = "page" /\ provider = "Spotify"
  /\ \E items \in SUBSET left : \E link \in Links(left \ items) \ {"invalid"} :
     \E taken \in Within(StoreLimit, items) :
       LET full == fetched + Cardinality(taken) >= StoreLimit
       IN  Walk(items, taken, taken, link = "next" /\ ~full /\ items # {}, FALSE)
  /\ UNCHANGED mistaken

(* Deezer lists albums.  It reads on after an empty page, and a cursor that    *)
(* leaves its host is taken for the last page.                                 *)
DeezerAlbums ==
  /\ at = "page" /\ provider = "Deezer"
  /\ \E items \in SUBSET left : \E link \in Links(left \ items) \ {"early"} :
     \E taken \in Within(AlbumCap, items) :
       LET full == fetched + Cardinality(taken) >= AlbumCap
       IN  /\ Walk(items, taken, taken, link = "next" /\ ~full,
                    taken = items /\ link # "repeated" /\ ~(full /\ link = "next"))
           /\ mistaken' = (mistaken \/ link = "invalid")

(* iTunes answers once, the artist entity among the songs, and a full answer   *)
(* counts as truncated.                                                        *)
ItunesSongs ==
  /\ at = "page" /\ provider = "Apple Music / iTunes"
  /\ \E answered \in BOOLEAN : \E songs \in Within(StoreLimit, left) :
       Walk(left, songs, IF answered THEN songs ELSE {}, FALSE,
            answered /\ Cardinality(songs) + 1 < StoreLimit)
  /\ UNCHANGED mistaken

(* Audiomack answers with the uploads and their count; songs are kept up to   *)
(* the limit, and some uploads are albums still to be expanded.               *)
AudiomackUploads ==
  /\ at = "page" /\ provider = "Audiomack"
  /\ \E answered \in BOOLEAN, items \in SUBSET left : \E kept \in Within(StoreLimit, items) :
     \E albums \in SUBSET kept :
       /\ ~answered => items = {}
       /\ complete' = (complete /\ answered /\ items = left /\ kept = items)
       /\ fetched' = Cardinality(items)
       /\ left' = left \ items
       /\ pending' = albums /\ got' = kept \ albums
       /\ at' = AfterWalk(albums)
  /\ UNCHANGED <<tries, degraded, mistaken, verdict, scanInputs>>

AlbumsRead(read, whole) ==
  /\ got' = got \cup read /\ Cardinality(got') <= StoreLimit
  /\ complete' = (complete /\ whole)
  /\ pending' = {} /\ at' = "index" /\ tries' = 0
  /\ UNCHANGED <<left, fetched, degraded, verdict, scanInputs>>

(* readAlbum, by up to six workers: any of the requests may fail, and reaching *)
(* the track limit counts as a cut.  An answer without a list is an album      *)
(* without tracks.                                                             *)
DeezerTracks ==
  /\ at = "expand" /\ provider = "Deezer"
  /\ \E answered \in SUBSET pending : \E empty \in SUBSET answered :
       /\ AlbumsRead(answered \ empty,
                     answered = pending /\ Cardinality(answered \ empty) < StoreLimit)
       /\ mistaken' = (mistaken \/ empty # {})

(* albumTracks, one by one: inline, fetched, or not to be had. *)
AudiomackAlbums ==
  /\ at = "expand" /\ provider = "Audiomack"
  /\ \E read \in SUBSET pending : AlbumsRead(read, read = pending)
  /\ UNCHANGED mistaken

-----------------------------------------------------------------------------
(* scanStorePresence, for the track and this store. *)
Report(v) ==
  /\ verdict' = v
  /\ at' = "done"
  /\ tries' = 0
  /\ UNCHANGED <<left, got, pending, fetched, complete, degraded, mistaken, scanInputs>>

Continue(next, failed) ==
  /\ at' = next
  /\ degraded' = (degraded \/ failed)
  /\ tries' = 0
  /\ UNCHANGED <<left, got, pending, fetched, complete, mistaken, verdict, scanInputs>>

(* A miss proves absence only on an enumerable, completely read catalogue, *)
(* with every supplementary check answered.                                *)
Miss ==
  IF provider \in ConfirmOnly \/ ~complete \/ degraded THEN "unverifiable" ELSE "not-live"

(* The index of the artist's own catalogue, with no network call. *)
ScanIndex ==
  /\ at = "index"
  /\ IF Scanned \in got THEN Report("live")
     ELSE IF quick THEN Report(Miss)
     ELSE Continue("isrc", FALSE)

(* lookupIsrc credits the ISRC to an artist or to nobody; a request that   *)
(* fails throws, and so is no answer, but an error object of Deezer's with *)
(* a good status credits it to nobody.                                     *)
SpotifyIsrc == {isrcOwner} \cup IF OutOfAttempts THEN {"failed"} ELSE {}
DeezerIsrc == {isrcOwner, "failed"}

(* A track without an ISRC, or a store without the lookup, is not looked up. *)
IsrcAnswers ==
  {"nobody"} \cup CASE provider = "Spotify" -> SpotifyIsrc
                    [] provider = "Deezer" -> DeezerIsrc
                    [] OTHER -> {}

LookupIsrc ==
  /\ at = "isrc"
  /\ \E answer \in IsrcAnswers :
       CASE answer = "own" -> Report("live")
         [] answer = "other" -> Report("wrong-profile")
         [] OTHER -> Continue("title", answer = "failed")

(* searchTitle finds the track or not: a search need not rank it. *)
Found == {"miss"} \cup IF Scanned \in onStore THEN {"hit"} ELSE {}

SpotifyTitle == Found \cup IF OutOfAttempts THEN {"failed"} ELSE {}
DeezerTitle == Found \cup {"failed"}
ItunesTitle == Found \cup {"failed"}
(* A failed or withheld query comes back as no results. *)
YouTubeTitle == Found
WebTitle == Found

TitleAnswers ==
  CASE provider = "Spotify" -> SpotifyTitle
    [] provider = "Deezer" -> DeezerTitle
    [] provider = "Apple Music / iTunes" -> ItunesTitle
    [] provider = "YouTube Music" -> YouTubeTitle
    [] provider = "web search" -> WebTitle
    [] OTHER -> {"miss"}

SearchTitle ==
  /\ at = "title"
  /\ \E answer \in TitleAnswers :
       IF answer = "hit" THEN Report("live") ELSE Continue("miss", answer = "failed")

ReportMiss == at = "miss" /\ Report(Miss)

ScanNext ==
  \/ RetryRequest \/ ResolveArtist
  \/ PageFailed \/ PageWithoutList \/ TidalPage \/ SoundCloudPage \/ SpotifyPage \/ DeezerAlbums
  \/ ItunesSongs \/ AudiomackUploads \/ DeezerTracks \/ AudiomackAlbums
  \/ ScanIndex \/ LookupIsrc \/ SearchTitle \/ ReportMiss

ScanSpec == ScanInit /\ [][ScanNext]_scanVars

-----------------------------------------------------------------------------
ScanTypeOK ==
  /\ provider \in Providers /\ quick \in BOOLEAN
  /\ at \in {"resolve", "page", "expand", "index", "isrc", "title", "miss", "done"}
  /\ {left, got, pending} \subseteq SUBSET StoreTracks
  /\ tries \in 0..(MaxAttempts - 1) /\ {complete, degraded, mistaken} \subseteq BOOLEAN
  /\ verdict \in {None, "live", "not-live", "wrong-profile", "unverifiable"}

(* What is reported of the track is so.  "Not live" is said only of a track    *)
(* that the artist's profile does not hold: no outage, cap, early end, lost     *)
(* item or failed check becomes evidence of absence, for any provider.  Aside   *)
(* from the answers Deezer and SoundCloud take for the end of a listing, which  *)
(* do become one (README, section 3.2): a cursor Deezer drops, and a body       *)
(* without a list.                                                              *)
VerdictsTrue ==
  /\ verdict = "live" => Scanned \in onStore
  /\ verdict = "wrong-profile" => isrcOwner = "other"
  /\ verdict = "not-live" /\ ~mistaken => Scanned \notin onStore

(* The index of a catalogue said to be complete is the whole catalogue, for    *)
(* every provider: "complete: true is an explicit assertion that the provider  *)
(* reached the end of the upstream artist catalogue".                          *)
CompleteMeansEnd ==
  at \in {"index", "isrc", "title", "miss", "done"} /\ complete => got = onStore
=============================================================================
