----------------------------- MODULE ResolveCache -----------------------------
(***************************************************************************)
(* The resolve caches (engine/resolve_cache.py, services/resolve_cache.py): *)
(* one file per account of a provider, which says to what catalog id a      *)
(* source track resolves.  A pass loads a copy, resolves against it for     *)
(* minutes and saves at its end; meanwhile other passes and people load,    *)
(* edit and save the same file.  A load overlays what sibling accounts of   *)
(* the provider know; a save merges only what its session changed.          *)
(*                                                                          *)
(* One source track: a file is merged key by key.  Its entry is Absent,     *)
(* Miss (searched, found nothing), an id, or Raw, a link a person pasted    *)
(* into an older version that stands for the first id.                      *)
(***************************************************************************)
EXTENDS Integers, FiniteSets

CONSTANTS
  Provider,     \* the providers of this instance
  Account,      \* accounts of the provider
  Session,      \* copies of a cache in memory; bound: as many at one time
  Found,        \* what a search may find: ids
  MaxLoads, MaxFaults   \* bounds: sessions in all, failing searches and refused adds

Absent == -1
Miss == 0
Raw == 9
Norm(v) == IF v = Raw THEN 1 ELSE v

ASSUME CacheAssumption ==
  /\ Provider \subseteq {"apple", "ytmusic", "spotify", "deezer", "qobuz", "tidal", "amazon"}
  /\ Found \subseteq Nat \ {Miss, Raw} /\ 1 \in Found
  /\ MaxLoads \in Nat /\ MaxFaults \in Nat

VARIABLES
  provider,   \* frozen
  file,       \* file[a]: the entry of the track in a's file
  session,
  throttled,  \* Apple: the authenticated search is throttled (_search_throttled)
  \* history: what a's own sessions and people found, what a person chose last
  \* or forgot last, whether Apple refused to add what was chosen, and whether a
  \* search of a really came back empty, or broke
  known, chosen, forgotten, withdrawn, empty,
  loads, faults

history == <<known, chosen, forgotten, withdrawn, empty>>
vars == <<provider, file, session, throttled, history, loads, faults>>

Entry == {Absent, Miss, Raw} \cup Found
Record == [search : Entry, manual : BOOLEAN, excluded : BOOLEAN, isrc : {Absent, Miss} \cup Found]
File == [search : Entry, manual : BOOLEAN, excluded : BOOLEAN, isrc : {Absent, Miss} \cup Found,
         old : BOOLEAN]
Kind == {"sync", "worker", "set", "delete", "clear", "choice"}
Nothing == [search |-> Absent, manual |-> FALSE, excluded |-> FALSE, isrc |-> Absent]
Closed == [kind |-> "none", of |-> CHOOSE a \in Account : TRUE, cache |-> Nothing,
           base |-> Nothing, local |-> Nothing, dirty |-> FALSE, resolved |-> FALSE,
           refused |-> {}]

TypeOK ==
  /\ provider \in Provider
  /\ file \in [Account -> File]
  /\ \A s \in Session : /\ session[s].kind \in Kind \cup {"none"}
                        /\ {session[s].cache, session[s].base, session[s].local} \subseteq Record
  /\ throttled => provider = "apple"
  /\ \A a \in Account : file[a].manual => file[a].search # Absent

------------------------------------------------------------------------------
(* Reading and overlaying.                                                 *)

(* A file of an older matching version keeps its manual entries only.      *)
Read(f) ==
  [search |-> IF f.old /\ ~f.manual THEN Absent ELSE f.search, manual |-> f.manual,
   excluded |-> f.excluded, isrc |-> IF f.old THEN Absent ELSE f.isrc]

(* What the siblings agree on: a manual choice before an automatic one.    *)
Siblings(a) == Account \ {a}
SiblingIds(a) ==
  LET has == {b \in Siblings(a) : Read(file[b]).search \notin {Absent, Miss}}
      manual == {b \in has : file[b].manual}
  IN {Norm(Read(file[b]).search) : b \in IF manual # {} THEN manual ELSE has}
ManualChoice(a) == \E b \in Siblings(a) : file[b].manual /\ Read(file[b]).search \notin {Absent, Miss}

Inherit(c, a) ==
  LET open == c.search \in {Absent, Miss} /\ ~c.manual /\ ~c.excluded /\ Cardinality(SiblingIds(a)) = 1
      isrcs == {Read(file[b]).isrc : b \in Siblings(a)} \ {Absent, Miss}
      withIsrc == IF c.isrc \in {Absent, Miss} /\ isrcs # {}
                  THEN [c EXCEPT !.isrc = CHOOSE v \in isrcs : TRUE] ELSE c
  IN IF open THEN [withIsrc EXCEPT !.search = CHOOSE v \in SiblingIds(a) : TRUE,
                                   !.manual = ManualChoice(a)]
     ELSE withIsrc

Effective(a) == Inherit(Read(file[a]), a)

(* load_cache: the session remembers what the file had, and what it sees.  *)
(* A conflict choice of a transfer loads the file without the siblings.    *)
Opened(a, kind) ==
  LET f == Read(file[a])
      c == IF kind = "choice" THEN f ELSE Effective(a)
  IN [Closed EXCEPT !.kind = kind, !.of = a, !.cache = c, !.base = c, !.local = f,
                    !.dirty = file[a].old]

SyncRuns == \E s \in Session : session[s].kind = "sync"

Load(s, a, kind) ==
  /\ session[s].kind = "none" /\ loads > 0 /\ loads' = loads - 1
  /\ kind \in {"sync", "worker"}
  /\ kind = "sync" => ~SyncRuns
  /\ session' = [session EXCEPT ![s] = Opened(a, kind)]
  /\ throttled' = FALSE
  /\ UNCHANGED <<provider, file, history, faults>>

(* The edits of the mappings page, refused while a sync runs, and a        *)
(* transfer's saved choice: load and edit, to be saved by the next step.   *)
OpenEdit(s, a, kind, edited) ==
  /\ session[s].kind = "none" /\ loads > 0 /\ loads' = loads - 1
  /\ kind # "choice" => ~SyncRuns
  /\ session' = [session EXCEPT ![s] = [Opened(a, kind) EXCEPT !.cache = edited, !.dirty = TRUE]]
  /\ UNCHANGED <<provider, file, throttled, history, faults>>

Set(s, a, v) ==
  /\ Effective(a).search # Absent
  /\ OpenEdit(s, a, "set", [Effective(a) EXCEPT !.search = v, !.manual = TRUE])

Choose(s, a, v) == OpenEdit(s, a, "choice", [Read(file[a]) EXCEPT !.search = v, !.manual = TRUE])

Delete(s, a) ==
  /\ Effective(a).search # Absent
  /\ OpenEdit(s, a, "delete", [Effective(a) EXCEPT !.search = Absent, !.manual = FALSE,
                                 !.excluded = @ \/ Siblings(a) # {}])

ClearUnmatched(s, a) ==
  LET c == Effective(a)
      cleared == [c EXCEPT !.search = IF @ = Miss THEN Absent ELSE @,
                           !.manual = @ /\ c.search # Miss,
                           !.isrc = IF @ = Miss THEN Absent ELSE @]
  IN cleared # c /\ OpenEdit(s, a, "clear", cleared)

------------------------------------------------------------------------------
(* Resolving.  What a provider's search may come back with: an id, Miss,   *)
(* or Raises (nothing is cached).  A transient failure always raises; any  *)
(* other failure raises for some providers and is an empty result for      *)
(* the others, whose miss is then cached.                                  *)

Id(v) == [value |-> v, keep |-> TRUE]
Empty == [value |-> Miss, keep |-> TRUE]
Provisional == [value |-> Miss, keep |-> FALSE]
Hits == {Id(v) : v \in Found}

(* Apple: once the authenticated search is throttled the public one        *)
(* answers, and its misses are provisional.                                *)
AppleForgetful == IF throttled THEN Hits \cup {Empty} ELSE Hits \cup {Empty}   \* mutant
AppleSearch == IF throttled THEN Hits \cup {Provisional} ELSE Hits \cup {Empty}
AppleBroken == {}
YouTubeSearch == Hits \cup {Empty}
YouTubeBroken == {Empty}      \* only transport errors are promoted
SpotifySearch == Hits \cup {Empty}
SpotifyBroken == {Empty}      \* statuses other than 401, 403, 429 and 5xx
DeezerSearch == Hits \cup {Empty}
DeezerBroken == {}
QobuzSearch == Hits \cup {Empty}
QobuzBroken == {}
TidalSearch == Hits \cup {Empty}
TidalBroken == {}
AmazonSearch == Hits \cup {Empty}
AmazonBroken == {Empty}       \* search_candidates swallows the rest

Answers ==
  CASE provider = "apple" -> AppleSearch
    [] provider = "ytmusic" -> YouTubeSearch
    [] provider = "spotify" -> SpotifySearch
    [] provider = "deezer" -> DeezerSearch
    [] provider = "qobuz" -> QobuzSearch
    [] provider = "tidal" -> TidalSearch
    [] provider = "amazon" -> AmazonSearch

Broken ==
  CASE provider = "apple" -> AppleBroken
    [] provider = "ytmusic" -> YouTubeBroken
    [] provider = "spotify" -> SpotifyBroken
    [] provider = "deezer" -> DeezerBroken
    [] provider = "qobuz" -> QobuzBroken
    [] provider = "tidal" -> TidalBroken
    [] provider = "amazon" -> AmazonBroken

(* resolve: a manual entry, then the ISRC candidates, then the entry that  *)
(* is there (a pasted link is put into its normal form), then a search.    *)
UsesIsrc == provider \notin {"ytmusic", "spotify"}
Working(s) == session[s].kind \in {"sync", "worker"}
Decided(c) == c.search # Absent \/ (UsesIsrc /\ c.isrc \notin {Absent, Miss})

Normalise(s) ==
  /\ Working(s) /\ session[s].cache.search = Raw
  /\ session' = [session EXCEPT ![s].cache.search = Norm(Raw), ![s].dirty = TRUE]
  /\ UNCHANGED <<provider, file, throttled, history, loads, faults>>

Answer(s, r) ==
  session' = IF r.keep THEN [session EXCEPT ![s].cache.search = r.value, ![s].dirty = TRUE,
                                            ![s].resolved = TRUE]
             ELSE session

Learns(a, v) == known' = [known EXCEPT ![a] = @ \cup {v}]

Resolve(s) ==
  /\ Working(s) /\ ~Decided(session[s].cache)
  /\ \E r \in Answers :
       /\ Answer(s, r)
       /\ Learns(session[s].of, r.value)
       /\ empty' = [empty EXCEPT ![session[s].of] = @ \/ (r.value = Miss /\ ~throttled)]
  /\ UNCHANGED <<provider, file, throttled, chosen, forgotten, withdrawn, loads, faults>>

(* A search that fails in another way than a passing one.                  *)
ResolveBroken(s) ==
  /\ Working(s) /\ ~Decided(session[s].cache) /\ faults > 0 /\ faults' = faults - 1
  /\ \E r \in Broken : Answer(s, r) /\ Learns(session[s].of, r.value)
  /\ empty' = [empty EXCEPT ![session[s].of] = TRUE]
  /\ UNCHANGED <<provider, file, throttled, chosen, forgotten, withdrawn, loads>>

(* Throttling: Apple goes on with its public search, everyone else stops   *)
(* here, and nothing is cached.                                            *)
Throttle(s) ==
  /\ Working(s) /\ ~Decided(session[s].cache) /\ faults > 0 /\ faults' = faults - 1
  /\ provider = "apple" /\ ~throttled
  /\ throttled' = TRUE
  /\ UNCHANGED <<provider, file, session, history, loads>>

(* prefetch: the catalog's answer for the ISRC, empty ones included.       *)
Prefetch(s) ==
  /\ Working(s) /\ UsesIsrc /\ session[s].cache.isrc = Absent
  /\ \E v \in Found \cup {Miss} :
       /\ session' = [session EXCEPT ![s].cache.isrc = v, ![s].dirty = TRUE]
       /\ Learns(session[s].of, v)
  /\ UNCHANGED <<provider, file, throttled, chosen, forgotten, withdrawn, empty, loads, faults>>

(* Apple refuses to add an id: that of a person's choice if there is one,   *)
(* else what the archive links, the ISRC or the search names.  The public   *)
(* search finds another release, which takes the place of the id, be it a   *)
(* person's choice; finding none, and when Apple refuses the replacement    *)
(* too, the id is dropped.  The key stays marked as a person's in memory.   *)
Sends(c) == IF c.manual /\ c.search \in Found THEN {c.search} ELSE Found

Refuse(s, v, c, found) ==
  /\ Working(s) /\ provider = "apple" /\ faults > 0 /\ faults' = faults - 1
  /\ session[s].cache.search # Raw /\ v \in Sends(session[s].cache)
  /\ session' = [session EXCEPT ![s].cache = c, ![s].dirty = TRUE, ![s].refused = @ \cup {v},
                               ![s].resolved = @ \/ found]
  /\ UNCHANGED <<provider, file, throttled, chosen, forgotten, withdrawn, empty, loads>>

Repair(s) ==
  \E v \in Found : \E r \in Found \ {v} :
    LET c == session[s].cache IN
    /\ Refuse(s, v, [c EXCEPT !.search = r, !.isrc = IF @ = v THEN r ELSE @], TRUE)
    /\ Learns(session[s].of, r)

Evict(s) ==
  \E v \in Found :
    LET c == session[s].cache IN
    /\ Refuse(s, v, [c EXCEPT !.search = IF @ = v THEN Absent ELSE @,
                             !.isrc = IF @ = v THEN Absent ELSE @], FALSE)
    /\ known' = known

------------------------------------------------------------------------------
(* save_cache: merge what this session changed into what is on disk now.   *)

Person(s) == session[s].kind \in {"set", "choice"}
State(c) == <<c.search, c.manual>>

WritesAnyway(s, now) ==   \* mutant: a change is written whatever the disk has now
  State(session[s].cache) # State(session[s].base) \/ Person(s)

(* Whether this session's entry goes to disk: it changed it, and either a  *)
(* person chose it now, or the disk still has what this session loaded.    *)
Writes(s, now) ==
  LET x == session[s] IN
  /\ State(x.cache) # State(x.base) \/ Person(s)
  /\ IF x.cache.search = Absent THEN State(now) = State(x.local)
     ELSE \/ Person(s)
          \/ State(now) = State(x.local) /\ (x.cache.manual \/ ~now.manual)

WritesIsrc(s, now) ==
  session[s].cache.isrc # session[s].base.isrc /\ now.isrc = session[s].local.isrc

Merged(s) ==
  LET x == session[s]
      now == Read(file[x.of])
      w == Writes(s, now)
  IN [search |-> IF w THEN x.cache.search ELSE now.search,
      manual |-> IF w THEN x.cache.manual /\ x.cache.search # Absent ELSE now.manual,
      excluded |-> (now.excluded \/ (x.cache.excluded /\ ~x.base.excluded))
                     /\ ~(x.base.excluded /\ ~x.cache.excluded),
      isrc |-> IF WritesIsrc(s, now) THEN x.cache.isrc ELSE now.isrc,
      old |-> FALSE]

Save(s) ==
  LET x == session[s]
      a == x.of
      w == Writes(s, Read(file[a]))
  IN
  /\ x.kind # "none"
  /\ session' = [session EXCEPT ![s] = Closed]
  /\ file' = IF x.dirty THEN [file EXCEPT ![a] = Merged(s)] ELSE file
  /\ known' = IF Person(s) THEN [known EXCEPT ![a] = @ \cup {x.cache.search}] ELSE known
  /\ chosen' = [chosen EXCEPT ![a] =
       CASE Person(s) -> x.cache.search
         [] x.kind = "delete" /\ w -> Absent
         [] OTHER -> @]
  /\ forgotten' = [forgotten EXCEPT ![a] =
       CASE x.kind = "delete" /\ w -> TRUE
         [] Person(s) \/ (x.resolved /\ w) -> FALSE
         [] OTHER -> @]
  /\ withdrawn' = [withdrawn EXCEPT ![a] =
       CASE Person(s) \/ (x.kind = "delete" /\ w) -> FALSE
         [] OTHER -> @ \/ (w /\ Norm(chosen[a]) \in x.refused)]
  /\ UNCHANGED <<provider, throttled, empty, loads, faults>>

(* The process dies with the session.                                      *)
Abandon(s) ==
  /\ session[s].kind # "none"
  /\ session' = [session EXCEPT ![s] = Closed]
  /\ UNCHANGED <<provider, file, throttled, history, loads, faults>>

Init ==
  /\ provider \in Provider
  /\ file \in [Account -> {[search |-> Absent, manual |-> FALSE, excluded |-> FALSE,
                            isrc |-> Absent, old |-> FALSE],
                           [search |-> Raw, manual |-> TRUE, excluded |-> FALSE,
                            isrc |-> Miss, old |-> FALSE],
                           [search |-> 1, manual |-> FALSE, excluded |-> FALSE,
                            isrc |-> 1, old |-> TRUE]}]
  /\ session = [s \in Session |-> Closed]
  /\ throttled = FALSE
  /\ known = [a \in Account |-> {file[a].search, Norm(file[a].search), file[a].isrc, Miss}]
  /\ chosen = [a \in Account |-> IF file[a].manual THEN file[a].search ELSE Absent]
  /\ forgotten = [a \in Account |-> FALSE]
  /\ withdrawn = [a \in Account |-> FALSE]
  /\ empty = [a \in Account |-> FALSE]
  /\ loads = MaxLoads /\ faults = MaxFaults

Next ==
  \E s \in Session :
    \/ \E a \in Account : \/ \E k \in Kind : Load(s, a, k)
                          \/ \E v \in Found : Set(s, a, v) \/ Choose(s, a, v)
                          \/ Delete(s, a) \/ ClearUnmatched(s, a)
    \/ Normalise(s) \/ Resolve(s) \/ ResolveBroken(s) \/ Throttle(s) \/ Prefetch(s)
    \/ Repair(s) \/ Evict(s)
    \/ Save(s) \/ Abandon(s)

Spec == Init /\ [][Next]_vars

------------------------------------------------------------------------------
(* What a person chose stays the entry of the account until a person       *)
(* changes or forgets it, whatever copies passes hold and save: explicit   *)
(* manual edits beat concurrent matches (resolve_cache.py save_cache).     *)
(* One exemption: withdrawn, a session that Apple refused to add this very *)
(* id has replaced or dropped it (_repair_catalog_id, _evict_catalog_id).  *)
StaysChosen(a) == file[a].manual /\ Norm(file[a].search) = Norm(chosen[a])
ManualKept ==
  \A a \in Account : chosen[a] # Absent /\ ~withdrawn[a] => StaysChosen(a)

(* A known departure: docs/design/2026-09-02-public-url-transfer-and-       *)
(* resolve-cache-ui.md:155 "a manual entry already wins over a later        *)
(* search".  The public search of a repair replaces it, still marked as a   *)
(* person's, and an eviction drops it (apple.py:820-876).                   *)
ChoiceWins == \A a \in Account : chosen[a] # Absent => StaysChosen(a)

(* What a person has forgotten stays so, in the file and in what a load    *)
(* shows, until a search of this account or a person finds it anew: no     *)
(* stale copy and no sibling brings it back.                               *)
StaysForgotten ==
  \A a \in Account : forgotten[a] => Effective(a).search = Absent

(* What a person decided holds until a person decides anew.                *)
PersonDecides == ManualKept /\ StaysForgotten

(* A file holds only what sessions of its own account found or people      *)
(* chose: what a sibling knows is used, never copied.                      *)
OwnEvidence ==
  \A a \in Account : {file[a].search, file[a].isrc} \subseteq known[a] \cup {Absent}

(* A cached miss stands for a search of the catalog that came back empty   *)
(* (or, for the providers that swallow errors, one that broke): throttling *)
(* never makes a miss permanent.                                           *)
MissIsReal ==
  \A a \in Account : file[a].search = Miss => empty[a]

(* Every other entry rests on a search made for this very account.         *)
EvidenceIsOwn == TypeOK /\ OwnEvidence /\ MissIsReal
=============================================================================
