----------------------------- MODULE PlaylistReads -----------------------------
(***************************************************************************)
(* How the provider clients read a collection page by page while people    *)
(* keep editing it, and what Browse (services/playlists.py) does with the  *)
(* result: it keeps complete reads in its cache and removes the entries a  *)
(* person picks from what the read showed.                                 *)
(*                                                                         *)
(* A page is addressed by the rows already received, by the link or cursor *)
(* the provider gave, or by its number; Subsonic gives all rows at once.   *)
(* The readers differ in what ends a read and in which bad answers they    *)
(* notice: no rows on a page that announces more (starved), a continuation *)
(* that does not advance (stuck), word that more follow but not where      *)
(* (torn), rows but no word of what follows (mute), neither rows nor such  *)
(* a word (bare), and Apple's 404 (absent).                                *)
(*                                                                         *)
(* The provider is external: a page is a slice of the collection as it is  *)
(* at that moment, and a cursor stands for a place in it.                  *)
(***************************************************************************)
EXTENDS Integers, Sequences, FiniteSets, SequencesExt, Subsequence

CONSTANTS
  Readers,     \* the readers of this instance
  Size,        \* rows of a full page (the code's are 20..200)
  MaxEntry,    \* bound: entries the collection ever has
  MaxBad,      \* bound: bad answers and busy caches, stuck cursors not counted
  MaxMoves     \* bound: reads, removals and edits by people

ASSUME ReadAssumption == {Size, MaxEntry, MaxBad, MaxMoves} \subseteq Nat /\ Size > 0

VARIABLES
  reader,   \* the reader, frozen
  shelf,    \* the collection: distinct entries, oldest number first created
  fresh,    \* the number of the next entry
  scan,     \* the read in progress, or the last one; total: as the first page gave it
  view,     \* the entries a person has before them, in order
  cache,    \* Browse's copy of a complete read
  cut,      \* the removal in progress
  picked,   \* entries people asked Browse to remove
  erased,   \* entries Browse has removed
  bad, moves   \* what is left of the bounds

readVars == <<reader, shelf, fresh, scan, view, cache, cut, picked, erased, bad, moves>>

------------------------------------------------------------------------------
(* The readers: what each does about a bad answer: raise, end as if it were *)
(* the last page, end if it is the first one and else raise (first), skip  *)
(* the page, ask the same again, count the rows on, or take a short page   *)
(* for the last.  "never": it cannot happen to this reader.                *)
Reader(by, starved, stuck, torn, mute, bare) ==
  [by |-> by, starved |-> starved, stuck |-> stuck, torn |-> torn, mute |-> mute, bare |-> bare,
   absent |-> "never", steady |-> FALSE, whole |-> FALSE, fresh |-> FALSE,
   keeps |-> FALSE, drops |-> "none"]
(* Mutants: an empty page ends the read; a cursor is followed whatever it is. *)
ByRowsUnchecked(starved, mute, bare) == Reader("rows", "end", "never", "never", mute, bare)
ByLinkUnchecked(starved, stuck, torn) == Reader("link", starved, "again", torn, "end", "end")
ByRows(starved, mute, bare) == Reader("rows", starved, "never", "never", mute, bare)
(* Where there is no link, a link-following reader sees the last page.     *)
ByLink(starved, stuck, torn) == Reader("link", starved, stuck, torn, "end", "end")
(* A read of a playlist for Browse: whole or page by page, and how the     *)
(* provider addresses an entry to remove.                                  *)
Whole(r, drops) == [r EXCEPT !.keeps = TRUE, !.drops = drops]
Paged(r, drops) == [r EXCEPT !.drops = drops]

SpotifyContents == Whole(ByRows("raise", "raise", "raise"), "entry")
SpotifyPage == Paged(ByRows("raise", "raise", "raise"), "entry")
SpotifyLibrary == ByRows("raise", "raise", "raise")
SpotifyLikes == ByRows("raise", "raise", "raise")
SpotifyApi == Whole(ByLink("skip", "again", "never"), "song")
SpotifyApiPage == Paged(ByRows("raise", "end", "end"), "song")
SpotifySaved == ByRows("raise", "end", "end")
Apple == [Whole(ByRows("raise", "end", "end"), "song") EXCEPT !.absent = "first"]
ApplePage == [Paged(ByRows("raise", "end", "end"), "song") EXCEPT !.absent = "first"]
Deezer == Whole(ByLink("skip", "again", "never"), "song")
DeezerPage == Paged(ByLink("raise", "raise", "count"), "song")
DeezerWeb == Whole(ByLink("raise", "raise", "raise"), "song")
DeezerWebLibrary == ByLink("skip", "end", "end")
DeezerWebLikes == ByLink("raise", "raise", "raise")
Qobuz == Whole(ByRows("raise", "short", "end"), "entry")
QobuzPage == Paged(ByRows("raise", "short", "end"), "entry")
QobuzLikes == ByRows("raise", "short", "end")
Tidal == Whole(ByLink("skip", "again", "end"), "entry")
TidalPage == Paged(ByLink("skip", "again", "raise"), "entry")
Amazon == Whole(ByLink("skip", "raise", "raise"), "entry")
AmazonPage == Paged(ByLink("raise", "raise", "raise"), "entry")
AmazonLikes == ByLink("skip", "raise", "raise")
YouTube == Whole(ByLink("skip", "again", "never"), "entry")
YouTubePage == Paged(ByLink("raise", "raise", "never"), "entry")
YouTubeiPage == [Paged(ByLink("never", "raise", "never"), "entry") EXCEPT !.bare = "first"]
YouTubeBrowser == [ByLink("raise", "raise", "never") EXCEPT !.whole = TRUE, !.bare = "raise"]
JellyfinLibrary == [ByRows("end", "short", "end") EXCEPT !.fresh = TRUE]
JellyfinPage == Whole(ByRows("raise", "short", "end"), "none")
Lastfm == Reader("page", "end", "never", "never", "end", "end")
ListenBrainz == [ByRows("raise", "raise", "raise") EXCEPT !.steady = TRUE]
Subsonic == Whole(Reader("all", "never", "never", "never", "raise", "raise"), "index")

EveryReader ==
  {SpotifyContents, SpotifyPage, SpotifyLibrary, SpotifyLikes, SpotifyApi, SpotifyApiPage,
   SpotifySaved, Apple, ApplePage, Deezer, DeezerPage, DeezerWeb, DeezerWebLibrary,
   DeezerWebLikes, Qobuz, QobuzPage, QobuzLikes, Tidal, TidalPage, Amazon, AmazonPage,
   AmazonLikes, YouTube, YouTubePage, YouTubeiPage, YouTubeBrowser, JellyfinLibrary,
   JellyfinPage, Lastfm, ListenBrainz, Subsonic}

ASSUME ReadersAssumption == Readers \subseteq EveryReader

(* The readers known to take a bad answer of a kind for a good one: they   *)
(* follow a link without looking at the page, take a page without rows or  *)
(* a link for the last one, or a 404 for an empty playlist.                *)
FollowsLinks ==
  {SpotifyApi, Deezer, DeezerPage, DeezerWeb, DeezerWebLibrary, DeezerWebLikes, Tidal, TidalPage,
   Amazon, AmazonPage, AmazonLikes, YouTube, YouTubePage, YouTubeiPage}
Blind ==
  LET untold == FollowsLinks \cup {SpotifyApiPage, SpotifySaved, Apple, ApplePage, Lastfm}
  IN [starved |-> {SpotifyApi, Deezer, DeezerWebLibrary, Tidal, TidalPage, Amazon, AmazonLikes,
                   YouTube, JellyfinLibrary, Lastfm},
      stuck   |-> {SpotifyApi, Deezer, DeezerWebLibrary, Tidal, TidalPage, YouTube},
      torn    |-> {DeezerWebLibrary, Tidal},
      mute    |-> untold \cup {YouTubeBrowser},
      bare    |-> untold \cup {Qobuz, QobuzPage, QobuzLikes, JellyfinLibrary, JellyfinPage},
      absent  |-> {Apple, ApplePage}]

------------------------------------------------------------------------------
NoScan == [open |-> FALSE, done |-> FALSE, got |-> <<>>, at |-> 0, total |-> -1, start |-> {},
           removed |-> 0, added |-> 0, sound |-> TRUE, raced |-> FALSE, turn |-> FALSE]
NoCache == [held |-> FALSE, rows |-> <<>>, raced |-> FALSE]
NoCut == [phase |-> "none", picks |-> {}, drifted |-> FALSE]

ReadTypeOK ==
  /\ reader \in Readers
  /\ shelf \in Seq(1..MaxEntry) /\ IsInjective(shelf)
  /\ fresh \in 1..(MaxEntry + 1)
  /\ scan.at \in Nat /\ scan.got \in Seq(1..MaxEntry) /\ scan.total \in -1..MaxEntry
  /\ ~(scan.open /\ scan.done)
  /\ view \in Seq(1..MaxEntry) /\ cache.rows \in Seq(1..MaxEntry)
  /\ cache.held => reader.keeps
  /\ cut.phase \in {"none", "check", "send"}
  /\ erased \subseteq 1..MaxEntry /\ picked \subseteq 1..MaxEntry

ReadInit ==
  /\ reader \in Readers
  /\ \E n \in 0..MaxEntry : shelf = [k \in 1..n |-> k] /\ fresh = n + 1
  /\ scan = NoScan /\ view = <<>> /\ cache = NoCache /\ cut = NoCut
  /\ picked = {} /\ erased = {}
  /\ bad = MaxBad /\ moves = MaxMoves

------------------------------------------------------------------------------
(* Opening a playlist: from the cache, unless a refresh is asked for or    *)
(* the count in the list of playlists differs, else by a new read.         *)
Opening == ~scan.open /\ moves > 0 /\ moves' = moves - 1

OpenCached ==
  /\ Opening
  /\ cache.held
  /\ scan' = NoScan /\ view' = cache.rows
  /\ UNCHANGED <<reader, shelf, fresh, cache, cut, picked, erased, bad>>

OpenFresh ==
  /\ Opening
  /\ scan' = [NoScan EXCEPT !.open = TRUE, !.start = ToSet(shelf), !.raced = cut.phase # "none"]
  /\ UNCHANGED <<reader, shelf, fresh, view, cache, cut, picked, erased, bad>>

------------------------------------------------------------------------------
(* One page.                                                               *)

Through == IF reader.by = "all" THEN Len(shelf) ELSE scan.at + Size
More == Through < Len(shelf)
Rows == SubSeq(shelf, scan.at + 1, IF More THEN Through ELSE Len(shelf))

(* The read raises: what it had is dropped.                                *)
Raise == scan' = NoScan /\ UNCHANGED <<view, cache>>

(* The read is complete.  A whole read of a playlist goes to the cache, in *)
(* one transaction or, when the database is busy, not at all.              *)
Done(s) ==
  IF reader.whole /\ Len(s.got) < s.total THEN Raise
  ELSE /\ scan' = [s EXCEPT !.open = FALSE, !.done = TRUE, !.at = 0, !.total = -1]
       /\ view' = s.got
       /\ \/ /\ reader.keeps
             /\ cache' = [held |-> TRUE, rows |-> s.got, raced |-> s.raced]
          \/ UNCHANGED cache

Onward(s, next) == scan' = [s EXCEPT !.at = next] /\ UNCHANGED <<view, cache>>

(* What was received with the rows of this page.                           *)
Got == [scan EXCEPT !.got = @ \o Rows,
                    !.total = IF @ = -1 /\ (reader.steady \/ reader.whole) THEN Len(shelf) ELSE @]
(* sound: this read took no bad answer of a kind its reader is known to    *)
(* take.                                                                   *)
Misled(s, blind) == [s EXCEPT !.sound = @ /\ reader \notin blind]

(* The answers the code knows to a bad page, s being what it has by then.  *)
(* The rows of a page received again are not added up; turn tells one such *)
(* request from the next.                                                  *)
Answer(does, blind, s) ==
  CASE does = "raise" -> Raise
    [] does = "end" -> Done(Misled(s, blind))
    [] does = "first" -> IF scan.at = 0 THEN Done(Misled(s, blind)) ELSE Raise
    [] does = "skip" -> Onward(Misled(s, blind), Through)
    [] does = "again" -> Onward([Misled(scan, blind) EXCEPT !.turn = ~@], scan.at)
    [] does = "count" -> Onward(s, scan.at + Len(Rows))
    [] does = "short" -> IF Len(Rows) < Size THEN Done(s) ELSE Onward(s, scan.at + Len(Rows))

(* ListenBrainz stops when the total has moved, Jellyfin when a page of    *)
(* playlists brings none that is new.                                      *)
Suspect ==
  \/ reader.steady /\ scan.total \notin {-1, Len(shelf)}
  \/ reader.fresh /\ Rows # <<>> /\ ToSet(Rows) \subseteq ToSet(scan.got)

NextAt == IF reader.by = "rows" THEN scan.at + Len(Rows) ELSE Through

ReadPage ==
  /\ scan.open
  /\ IF Suspect THEN Raise ELSE IF More THEN Onward(Got, NextAt) ELSE Done(Got)
  /\ UNCHANGED <<reader, shelf, fresh, cut, picked, erased, bad, moves>>

BadPage ==
  /\ scan.open
  /\ bad > 0 /\ bad' = bad - 1
  /\ UNCHANGED <<reader, shelf, fresh, cut, picked, erased, moves>>

(* No rows on a page that announces more: a total not reached, or a link.  *)
Starved ==
  /\ BadPage /\ reader.starved # "never" /\ (reader.by = "link" => More) /\ Rows # <<>>
  /\ Answer(reader.starved, Blind.starved, scan)

(* A continuation that is the one just used, as often as the reader asks.  *)
Stuck ==
  /\ scan.open /\ More /\ reader.stuck # "never"
  /\ Answer(reader.stuck, Blind.stuck, Got)
  /\ UNCHANGED <<reader, shelf, fresh, cut, picked, erased, bad, moves>>

(* More are announced, but the continuation is missing.                    *)
Torn ==
  /\ BadPage /\ reader.torn # "never" /\ More
  /\ Answer(reader.torn, Blind.torn, Got)

(* Rows, and neither a total nor a continuation.                           *)
Mute ==
  /\ BadPage /\ (reader.mute = "end" => More)
  /\ Answer(reader.mute, Blind.mute, [scan EXCEPT !.got = @ \o Rows])

(* Neither rows nor a total nor a continuation, although rows are left: an *)
(* empty body, a null object.                                              *)
Bare ==
  /\ BadPage /\ Rows # <<>>
  /\ Answer(reader.bare, Blind.bare, scan)

(* Apple's 404: an empty playlist on the first page, an error later.       *)
Absent ==
  /\ BadPage /\ reader.absent # "never"
  /\ Answer(reader.absent, Blind.absent, scan)

------------------------------------------------------------------------------
(* Removing picked entries.                                                *)

Stands(pick) == pick[1] \in DOMAIN shelf /\ shelf[pick[1]] = pick[2]
Shown == {<<k, view[k]>> : k \in DOMAIN view}
Overlapped == [scan EXCEPT !.raced = TRUE]

(* The copy is dropped; a database the engine keeps busy leaves it there.  *)
Forget ==
  \/ cache' = NoCache /\ UNCHANGED bad
  \/ bad > 0 /\ bad' = bad - 1 /\ cache' = [cache EXCEPT !.raced = cache.held]

(* Entries with an id of their own are addressed by it; the others must    *)
(* stand where the person saw them.                                        *)
Valid(picks) == reader.drops = "entry" \/ \A p \in picks : Stands(p)

(* remove_tracks: the copy in the cache goes before the first write.       *)
RemoveTracks(picks) ==
  /\ cut.phase = "none" /\ reader.drops # "none"
  /\ moves > 0 /\ moves' = moves - 1
  /\ Valid(picks)
  /\ cut' = [NoCut EXCEPT !.phase = IF reader.drops = "index" THEN "check" ELSE "send",
                        !.picks = picks]
  /\ picked' = picked \cup {p[2] : p \in picks}
  /\ Forget
  /\ scan' = Overlapped
  /\ UNCHANGED <<reader, shelf, fresh, view, erased>>

(* Subsonic takes positions, so its client reads the playlist once more.   *)
(* Mutant: it does not.                                                    *)
CheckNothing ==
  /\ cut.phase = "check"
  /\ cut' = [cut EXCEPT !.phase = "send", !.drifted = FALSE]
  /\ UNCHANGED <<reader, shelf, fresh, scan, view, cache, picked, erased, bad, moves>>

CheckPositions ==
  /\ cut.phase = "check"
  /\ cut' = IF \A p \in cut.picks : Stands(p) THEN [cut EXCEPT !.phase = "send", !.drifted = FALSE]
            ELSE NoCut
  /\ UNCHANGED <<reader, shelf, fresh, scan, view, cache, picked, erased, bad, moves>>

(* What the provider takes out for these picks.                            *)
Struck(picks) ==
  IF reader.drops = "index" THEN {shelf[k] : k \in {p[1] : p \in picks} \cap DOMAIN shelf}
  ELSE {p[2] : p \in picks} \cap ToSet(shelf)

(* The removal requests; an error between them leaves part of the picks.   *)
SendRemovals ==
  /\ cut.phase = "send"
  /\ \E part \in SUBSET cut.picks :
       /\ IF part = cut.picks THEN UNCHANGED bad ELSE bad > 0 /\ bad' = bad - 1
       /\ shelf' = Kept(shelf, ToSet(shelf) \ Struck(part))
       /\ erased' = erased \cup Struck(part)
       /\ scan' = [Overlapped EXCEPT !.removed = @ + Cardinality(Struck(part))]
  /\ cut' = NoCut
  /\ UNCHANGED <<reader, fresh, view, cache, picked, moves>>

------------------------------------------------------------------------------
(* People add at the end, or at the head of a newest-first collection.     *)
Edited == moves > 0 /\ moves' = moves - 1 /\ cut' = [cut EXCEPT !.drifted = (@ \/ cut.phase = "send")]

PersonPuts ==
  /\ Edited
  /\ fresh <= MaxEntry /\ fresh' = fresh + 1
  /\ \/ shelf' = Append(shelf, fresh)
     \/ shelf' = <<fresh>> \o shelf
  /\ scan' = [scan EXCEPT !.added = @ + 1]
  /\ UNCHANGED <<reader, view, cache, picked, erased, bad>>

PersonTakes(k) ==
  /\ Edited
  /\ shelf' = RemoveAt(shelf, k)
  /\ scan' = [scan EXCEPT !.removed = @ + 1]
  /\ UNCHANGED <<reader, fresh, view, cache, picked, erased, bad>>

AnswerPage == ReadPage \/ Starved \/ Stuck \/ Torn \/ Mute \/ Bare \/ Absent

ReadNext ==
  \/ OpenCached \/ OpenFresh
  \/ ReadPage \/ Starved \/ Stuck \/ Torn \/ Mute \/ Bare \/ Absent
  \/ \E picks \in SUBSET Shown \ {{}} : RemoveTracks(picks)
  \/ CheckPositions \/ SendRemovals
  \/ PersonPuts
  \/ \E k \in DOMAIN shelf : PersonTakes(k)

(* Every request is answered or times out, well or badly.                  *)
ReadSpec == ReadInit /\ [][ReadNext]_readVars /\ WF_readVars(AnswerPage)

------------------------------------------------------------------------------
(* Readers that a cursor which never advances keeps asking.                *)
Endless == {SpotifyApi, Deezer, Tidal, TidalPage, YouTube}

(* Reconciliation takes an entry a read misses for one a person removed.   *)
(* Whatever the pages were, a read that ends well misses no more of the    *)
(* entries that were there all the time than were removed while it ran,    *)
(* and shows no more of them twice than were added.  Exempt are the reads  *)
(* that took a bad page for a good one, each of a kind that is known of    *)
(* its reader (Blind).                                                     *)
MissedOnlyByShifts ==
  scan.done /\ scan.sound =>
    /\ Cardinality((scan.start \cap ToSet(shelf)) \ ToSet(scan.got)) <= scan.removed
    /\ Len(scan.got) - Cardinality(ToSet(scan.got)) <= scan.added

(* The cache never shows an entry Browse has removed, unless a read ran    *)
(* while the entry was being removed or the database was busy: what was    *)
(* stored before the removal goes, even when the removal fails half-way.   *)
RemovedIsForgotten ==
  cache.held /\ ~cache.raced => ToSet(cache.rows) \cap erased = {}

(* What a read returns, and what the cache shows of it later, is what the  *)
(* provider had.                                                           *)
ReadsAreTrue == ReadTypeOK /\ MissedOnlyByShifts /\ RemovedIsForgotten

(* Of the entries a person did not pick none is removed, however the       *)
(* playlist drifted since it was opened (remove_tracks); Subsonic's        *)
(* positions must also hold from its last look to its request.             *)
OnlyPickedGo == [][erased' \subseteq picked' \/ cut.drifted \/ ~(erased \subseteq picked)]_readVars

(* A provider whose cursor stands still ends the read all the same.        *)
ReadEnds == (reader \notin Endless /\ scan.open) ~> ~scan.open
=============================================================================
