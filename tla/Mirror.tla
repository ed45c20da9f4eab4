------------------------------- MODULE Mirror --------------------------------
(***************************************************************************)
(* One-way passes: engine/targets/base.py mirror_pair with the chronology  *)
(* repair (_fit_chronology_writes, replay_chronology), as engine/runner.py *)
(* runs it for one destination playlist, from one source playlist          *)
(* (run_target) or from the union of several (_run_merge).                 *)
(*                                                                         *)
(* A track is a number, and numbers are the order in which tracks were     *)
(* added to their source.  Every call to a provider is a step; people edit *)
(* the playlists between any two of them.                                  *)
(***************************************************************************)
EXTENDS Integers, FiniteSets, Sequences, Subsequence

CONSTANTS
  NumTracks,
  Source, Main, \* the playlists whose union is mirrored; the one that a one-way job mirrors
  Jobs,         \* the kinds of job considered
  Alike,        \* pairs of a wanted track and one that resembles it without being it
  MaxRemovals,  \* opts.max_removals
  MaxEdits,     \* bound: edits by people
  MaxFaults     \* bound: failures, misses, rejections and pauses

Track == 1..NumTracks
Never == -1     \* no snapshot recorded

\* merge: several sources; drain: opts.apply_large_removals; replay: the destination can
\* repair its order; all: its delete call takes every copy of a track (Apple Music); adds:
\* opts.max_adds.
JobType == [merge : BOOLEAN, drain : BOOLEAN, replay : BOOLEAN, all : BOOLEAN, adds : Nat \ {0}]

ASSUME MirrorAssumption ==
  /\ NumTracks \in Nat \ {0} /\ {MaxRemovals, MaxEdits, MaxFaults} \subseteq Nat
  /\ Jobs \subseteq JobType /\ Alike \subseteq Track \X Track
  /\ IsFiniteSet(Source) /\ Main \in Source

VARIABLES
  job,
  lists,    \* the tracks on each source
  version,  \* the snapshot id of the source of a one-way job
  target,   \* the entries of the destination, oldest first
  ledger,   \* archive state: the snapshot and the count after the last clean pass
  saved,    \* spotify_tracks_cache.json: a snapshot and its tracks
  pass,     \* the locals of the pass under way
  touched,  \* people edited the destination
  scarred,  \* the order may be lost: a repair was cut short, an old entry is wanted again, a
            \* union was planned without all of its sources, or a track that stays was moved
            \* behind a newer one
  edits, faults

vars == <<job, lists, version, target, ledger, saved, pass, touched, scarred, edits, faults>>

Entry == [track : Track, staged : BOOLEAN]   \* staged: not there when the repair began
Idle == [at |-> "idle", version |-> Never, unread |-> {}, src |-> {}, incomplete |-> FALSE,
         wanted |-> {}, read |-> <<>>, adds |-> <<>>, olds |-> <<>>, drops |-> <<>>, refused |-> {}, found |-> {},
         keep |-> 0, added |-> 0, removed |-> 0, guard |-> FALSE]

PassRecord ==
  [at : {"idle", "read", "look", "plan", "add", "stage", "undo", "retire", "keep", "drop", "record"},
   version : 0..MaxEdits \cup {Never}, unread : SUBSET Source, src : SUBSET Track,
   incomplete : BOOLEAN, wanted : SUBSET Track, read : Seq(Entry),
   adds : Seq(Track), olds : Seq(Track), drops : Seq(Track), refused : SUBSET Track,
   found : SUBSET Track, keep : Nat, added : Nat, removed : Nat, guard : BOOLEAN]

Elements(list) == {list[i] : i \in DOMAIN list}
Tracks(entries) == {entries[i].track : i \in DOMAIN entries}
Sorted(tracks) == [k \in 1..Cardinality(tracks) |-> CHOOSE t \in tracks : Rank(tracks, t) = k]
Places(entries, t) == {i \in DOMAIN entries : entries[i].track = t}
Append1(t, staged) == Append(target, [track |-> t, staged |-> staged])
Unstaged == [i \in DOMAIN target |-> [target[i] EXCEPT !.staged = FALSE]]
Without(entries, t) == Kept(entries, {e \in Entry : e.track # t})
Less(entries, i) == [k \in 1..Len(entries) - 1 |-> entries[IF k < i THEN k ELSE k + 1]]

TypeOK ==
  /\ job \in Jobs /\ lists \in [Source -> SUBSET Track] /\ version \in 0..MaxEdits
  /\ target \in Seq(Entry)
  /\ ledger \in [version : 0..MaxEdits \cup {Never}, count : Int]
  /\ saved \in [version : 0..MaxEdits \cup {Never}, tracks : SUBSET Track]
  /\ pass \in PassRecord /\ touched \in BOOLEAN /\ scarred \in BOOLEAN
  /\ edits \in 0..MaxEdits /\ faults \in 0..MaxFaults

Of == IF job.merge THEN Source ELSE {Main}
Wanted == UNION {lists[s] : s \in Of}

Init ==
  /\ job \in Jobs /\ lists \in [Source -> SUBSET Track] /\ version = 0
  /\ \A s \in Source \ Of : lists[s] = {}
  /\ \E tracks \in SUBSET Track :
       target = [i \in DOMAIN Sorted(tracks) |-> [track |-> Sorted(tracks)[i], staged |-> FALSE]]
  /\ ledger = [version |-> Never, count |-> 0] /\ saved = [version |-> Never, tracks |-> {}]
  /\ pass = Idle /\ touched = FALSE /\ scarred = FALSE /\ edits = 0 /\ faults = 0

-----------------------------------------------------------------------------
(* People. *)

Edit == edits < MaxEdits /\ edits' = edits + 1 /\ UNCHANGED <<job, ledger, saved, pass, faults>>

EditSource(s, t) ==
  /\ Edit /\ s \in Of
  /\ lists' = [lists EXCEPT ![s] = IF t \in @ THEN @ \ {t} ELSE @ \cup {t}]
  /\ version' = version + 1
  /\ scarred' = (scarred \/ t \in Tracks(target) \ lists[s])
  /\ UNCHANGED <<target, touched>>

EditTarget(t) ==
  /\ Edit
  /\ target' = IF t \in Tracks(target) THEN Without(target, t) ELSE Append1(t, pass.at \in {"stage", "undo"})
  /\ touched' = TRUE
  /\ UNCHANGED <<lists, version, scarred>>

-----------------------------------------------------------------------------
(* Reading. *)

Faulty == faults < MaxFaults /\ faults' = faults + 1
Fine == UNCHANGED faults
Engine == UNCHANGED <<job, lists, version, touched, edits>>

\* The directories are listed; a playlist that is as the last clean pass left it is skipped.
Unchanged == ~job.merge /\ ledger = [version |-> version, count |-> Len(target)]

Begin ==
  /\ pass.at = "idle" /\ ~Unchanged
  /\ pass' = [Idle EXCEPT !.at = "read", !.version = version, !.unread = Of]
  /\ Engine /\ Fine /\ UNCHANGED <<target, ledger, saved, scarred>>

\* A pass that ends forgets everything but what is on the playlists.
Ends == pass' = Idle /\ target' = Unstaged

Read(s, all, tracks, incomplete) ==
  [pass EXCEPT !.src = @ \cup tracks, !.wanted = @ \cup all, !.unread = @ \ {s},
               !.incomplete = @ \/ incomplete, !.at = IF pass.unread = {s} THEN "look" ELSE @]

\* run_target: get_source_tracks with its cache on disk.
ReadSource ==
  /\ pass.at = "read" /\ ~job.merge
  /\ LET tracks == IF saved.version = pass.version THEN saved.tracks ELSE lists[Main] IN
     \/ /\ \/ Fine /\ pass' = Read(Main, tracks, tracks, FALSE)
           \/ Faulty /\ pass' = Read(Main, tracks, tracks, TRUE)   \* rows without all their metadata
        /\ saved' = [version |-> pass.version, tracks |-> tracks] /\ UNCHANGED target
     \/ Faulty /\ Ends /\ UNCHANGED saved
  /\ Engine /\ UNCHANGED <<ledger, scarred>>

Complete(s) == FALSE  \* mutant: a read that returned fewer rows than there are passes for complete
Partial(s) == TRUE

\* _run_merge: a source that fails, or returns fewer rows than it counts, makes the union
\* incomplete; so does a pause, which leaves sources unread.
ReadUnion ==
  /\ pass.at = "read" /\ job.merge
  /\ \E s \in pass.unread :
       \/ Fine /\ pass' = Read(s, lists[s], lists[s], FALSE) /\ UNCHANGED scarred
       \/ Faulty /\ scarred' = TRUE /\ \E some \in SUBSET lists[s] : pass' = Read(s, lists[s], some, Partial(s))
       \/ Faulty /\ scarred' = TRUE /\ pass' = [pass EXCEPT !.at = "look", !.incomplete = TRUE, !.unread = {},
                                          !.wanted = @ \cup UNION {lists[u] : u \in pass.unread}]
  /\ Engine /\ UNCHANGED <<target, ledger, saved>>

ReadTarget ==
  /\ pass.at = "look"
  /\ \/ pass' = [pass EXCEPT !.at = "plan", !.read = target] /\ Fine /\ UNCHANGED target
     \/ Faulty /\ Ends
  /\ Engine /\ UNCHANGED <<ledger, saved, scarred>>

-----------------------------------------------------------------------------
(* Planning. *)

NoReplay(current, new) == {}  \* mutant: what was missed is appended

\* The rows from the oldest new one on, if one of them is on the destination already.
Replay(current, new) ==
  {t \in current \cup new : \E n \in new : n <= t /\ \E c \in current : n < c}

\* chronology_replay_write_cost
Cost(current, new) ==
  LET replay == Replay(current, new) IN
  IF replay = {} THEN Cardinality(new)
  ELSE Cardinality(replay) + IF job.all THEN Cardinality(replay \cap current) ELSE 0

\* _fit_chronology_writes: the most of the oldest additions that the cap allows.
UpTo(tracks, t) == {u \in tracks : u <= t}
Fit(current, additions) ==
  LET fits == {new \in {UpTo(additions, t) : t \in additions \cup {0}} :
                 /\ Cardinality(new) <= job.adds
                 /\ job.replay => Cost(current, new) <= job.adds}
  IN UNION fits

\* match_unresolved_removals: what resembles a track that was not found is held.
Protected(entry, unresolved) == \E t \in unresolved : <<t, entry>> \in Alike

CappedHolds(drops) == IF Len(drops) <= MaxRemovals THEN drops ELSE <<>>  \* mutant: never drains

\* More removals than the cap are drained or held.
Capped(drops) ==
  LET cap == IF pass.incomplete THEN 0 ELSE MaxRemovals IN
  IF Len(drops) <= cap THEN drops
  ELSE IF job.drain THEN SubSeq(drops, 1, cap) ELSE <<>>

\* compute_diff: what the source and the destination both have.
Matched == pass.src \cap Tracks(pass.read)

\* Nothing is removed for the sake of a source that looks empty and may not be.
EmptyRead == pass.src = {} /\ pass.read # <<>> /\ ~(job.merge /\ ~pass.incomplete)

\* Apple Music appends a track that stays behind all that was staged, newer ones included.
Displaces(current, new) == job.all /\ \E c \in Replay(current, new) \ new, n \in new : c < n

\* Resolving goes oldest first; a throttled provider or a pause cuts it short, and single
\* tracks may not be found.
Plan ==
  /\ pass.at = "plan"
  /\ LET current == pass.src \cap Tracks(pass.read)
         missing == pass.src \ current
     IN \E last \in missing \cup {0} : \E missed \in SUBSET UpTo(missing, last) :
          LET found == UpTo(missing, last) \ missed
              new == Fit(current, found)
              replay == IF job.replay THEN Replay(current, new) ELSE {}
              leaving == Kept(pass.read, {e \in Entry : e.track \notin pass.src /\ ~Protected(e.track, missed)})
              drops == [i \in DOMAIN leaving |-> leaving[i].track]
              kept == IF EmptyRead THEN <<>> ELSE Capped(drops)
          IN
          /\ IF found = missing THEN Fine ELSE Faulty
          /\ pass' = [pass EXCEPT
               !.at = IF new = {} THEN "drop" ELSE IF replay = {} THEN "add" ELSE "stage",
               !.adds = Sorted(IF replay = {} THEN new ELSE replay),
               !.olds = Sorted(replay \ new),
               !.drops = kept, !.found = found,
               !.guard = new # missing \/ Len(kept) < Len(drops)]
          /\ scarred' = (scarred \/ (replay # {} /\ Displaces(current, new)))
  /\ Engine /\ UNCHANGED <<target, ledger, saved>>

-----------------------------------------------------------------------------
(* Writing, one request for each track. *)

\* Appending in order; the provider may decline a track, or fail.
Add ==
  /\ pass.at = "add"
  /\ LET t == Head(pass.adds)
         on == [pass EXCEPT !.adds = Tail(@), !.at = IF Len(pass.adds) = 1 THEN "drop" ELSE @]
     IN \/ /\ target' = Append1(t, FALSE) /\ pass' = [on EXCEPT !.added = @ + 1] /\ Fine
        \/ /\ Faulty /\ pass' = [on EXCEPT !.guard = TRUE, !.drops = <<>>] /\ UNCHANGED target
        \/ /\ Faulty /\ pass' = Idle   \* an exception, before or after the track got there
           /\ target' \in {Unstaged, Append(Unstaged, [track |-> t, staged |-> FALSE])}
  /\ Engine /\ UNCHANGED <<ledger, saved, scarred>>

RetireAtOnce(refused) == "retire"  \* mutant: a refused copy does not stop the repair
AfterStaging(refused) == IF refused \cap Elements(pass.olds) # {} THEN "undo" ELSE "retire"

\* replay_chronology: copies first.
Stage ==
  /\ pass.at = "stage"
  /\ LET t == Head(pass.adds)
         On(refused) == [pass EXCEPT !.adds = Tail(@), !.refused = refused,
                             !.added = IF t \in Elements(pass.olds) \cup refused THEN @ ELSE @ + 1,
                             !.at = IF Len(pass.adds) = 1 THEN AfterStaging(refused) ELSE @]
     IN \/ /\ target' = Append1(t, TRUE) /\ pass' = On(pass.refused) /\ Fine
        \/ /\ Faulty /\ pass' = On(pass.refused \cup {t}) /\ UNCHANGED target
        \/ /\ Faulty /\ pass' = [pass EXCEPT !.at = "undo"] /\ target' \in {target, Append1(t, TRUE)}
  /\ Engine /\ UNCHANGED <<ledger, saved, scarred>>

\* Where every copy goes at once, those that were to stay are appended again.
Drop(t, staged) ==
  IF job.all THEN Without(target, t)
  ELSE LET at == {i \in Places(target, t) : target[i].staged = staged}
       IN IF at = {} THEN target ELSE Less(target, CHOOSE i \in at : \A k \in at : i <= k)
Again(t, staged) ==
  IF job.all THEN Cardinality({i \in Places(target, t) : target[i].staged # staged}) ELSE 0
Repeat(t, n) == [i \in 1..n |-> [track |-> t, staged |-> FALSE]]

\* A failed staging is taken back, copy by copy, as well as it goes; then the pass fails.
Undo ==
  /\ pass.at = "undo"
  /\ LET copies == {target[i].track : i \in {j \in DOMAIN target : target[j].staged}} IN
     \/ /\ copies = {} /\ Ends /\ Fine /\ UNCHANGED scarred
     \/ /\ Fine /\ UNCHANGED <<pass>> /\ scarred' = (scarred \/ job.all)
        /\ \E t \in copies : target' = Drop(t, TRUE) \o Repeat(t, Again(t, TRUE))
     \/ Faulty /\ Ends /\ scarred' = TRUE
     \/ /\ Faulty /\ job.all /\ UNCHANGED pass /\ scarred' = TRUE
        /\ \E t \in copies : target' = Drop(t, TRUE)
  /\ Engine /\ UNCHANGED <<ledger, saved>>

\* Then the originals go.  A failure leaves the rest of them beside their copies.
Retire ==
  /\ pass.at = "retire"
  /\ \/ /\ pass.olds = <<>> /\ Fine
        /\ pass' = [pass EXCEPT !.at = "drop", !.guard = @ \/ pass.refused # {},
                      !.drops = IF pass.refused = {} THEN @ ELSE <<>>]
        /\ target' = Unstaged /\ UNCHANGED scarred
     \/ /\ pass.olds # <<>> /\ ~job.all /\ Fine
        /\ target' = Drop(Head(pass.olds), FALSE) /\ UNCHANGED scarred
        /\ pass' = [pass EXCEPT !.olds = Tail(@)]
     \/ /\ pass.olds # <<>> /\ job.all /\ Fine /\ UNCHANGED scarred
        /\ LET copies == Cardinality(Places(target, Head(pass.olds))) IN
           \/ /\ copies >= 2 /\ target' = Drop(Head(pass.olds), FALSE)
              /\ pass' = [pass EXCEPT !.at = "keep", !.keep = copies - 1]
           \/ copies < 2 /\ Ends   \* people took one: refused before anything is deleted
     \/ pass.olds # <<>> /\ Faulty /\ Ends /\ scarred' = TRUE
  /\ Engine /\ UNCHANGED <<ledger, saved>>

\* _remove_occurrences of Apple Music: the copy that stays is appended again.
Keep ==
  /\ pass.at = "keep"
  /\ \/ /\ pass.keep > 0 /\ Fine
        /\ target' = Append1(Head(pass.olds), TRUE) /\ pass' = [pass EXCEPT !.keep = @ - 1] /\ UNCHANGED scarred
     \/ /\ pass.keep = 0 /\ Fine
        /\ pass' = [pass EXCEPT !.at = "retire", !.olds = Tail(@)] /\ UNCHANGED <<target, scarred>>
     \/ pass.keep > 0 /\ Faulty /\ Ends /\ scarred' = TRUE
  /\ Engine /\ UNCHANGED <<ledger, saved>>

RemoveOne ==
  /\ pass.at = "drop"
  /\ \/ /\ pass.drops = <<>> /\ pass' = [pass EXCEPT !.at = "record"] /\ Fine /\ UNCHANGED target
     \/ /\ pass.drops # <<>> /\ Fine
        /\ target' = Drop(Head(pass.drops), FALSE)
        /\ pass' = [pass EXCEPT !.drops = Tail(@), !.removed = @ + 1]
     \/ /\ pass.drops # <<>> /\ Faulty /\ UNCHANGED target   \* declined
        /\ pass' = [pass EXCEPT !.drops = Tail(@), !.guard = TRUE]
     \/ pass.drops # <<>> /\ Faulty /\ Ends
  /\ Engine /\ UNCHANGED <<ledger, saved, scarred>>

AlwaysClean == TRUE  \* mutant: what was held or missed is forgotten
Clean == ~pass.guard

TargetCount == Len(pass.read) + pass.added - pass.removed

\* A pass that kept nothing back records what it saw, so that the next one may skip.
RecordState ==
  /\ pass.at = "record"
  /\ ledger' = IF Clean /\ ~job.merge
               THEN [version |-> pass.version, count |-> TargetCount]
               ELSE ledger
  /\ Ends
  /\ Engine /\ Fine /\ UNCHANGED <<saved, scarred>>

Pass == Begin \/ ReadSource \/ ReadUnion \/ ReadTarget \/ Plan \/ Add \/ Stage \/ Undo \/ Retire \/ Keep
        \/ RemoveOne \/ RecordState
People == (\E s \in Source, t \in Track : EditSource(s, t)) \/ \E t \in Track : EditTarget(t)
Next == Pass \/ People
Spec == Init /\ [][Next]_vars
\* Passes are scheduled again and again, and end.
FairSpec == Spec /\ WF_vars(Pass)

-----------------------------------------------------------------------------
InOrder == \A i, j \in DOMAIN target :
  i < j /\ {target[i].track, target[j].track} \subseteq Wanted => target[i].track < target[j].track

\* Between passes the destination has every track once and in the order of its source,
\* whatever was missed, deferred, declined or undone before.
OrderKept == TypeOK /\ (pass.at = "idle" /\ job.replay /\ ~touched /\ ~scarred => InOrder)

\* A repair never takes the last copy of a wanted track off the destination.
OnlyCopyKept == pass.at # "idle" /\ ~job.all /\ ~touched => Matched \subseteq Tracks(target)

\* A playlist that would be skipped has exactly the tracks of its source.
SkipIsSafe == Unchanged /\ ~touched => Tracks(target) = Wanted

\* A pass never removes a track that was on one of its sources when they were read,
\* whether the read returned it or not.
UnreadKept == [][pass.at = "drop" /\ Engine => (Tracks(target) \ Tracks(target')) \cap pass.wanted = {}]_vars

\* An empty source is not believed, and without draining more entries than the cap stay.
KeepsExtras ==
  /\ Wanted \subseteq Tracks(target)
  /\ \/ Wanted = {} /\ ~job.merge
     \/ ~job.drain /\ Cardinality({i \in DOMAIN target : target[i].track \notin Wanted}) > MaxRemovals

\* The ordered writes for the oldest addition alone are more than the cap.
PutsOff ==
  LET missing == pass.src \ Tracks(pass.read)
  IN pass.at = "plan" /\ missing # {} /\ Fit(Matched, missing) = {}

\* What people changed without changing the count is not noticed: every pass is skipped.
Overlooked == touched /\ Unchanged

\* When people and providers leave it alone, the destination becomes the source, unless it
\* keeps extras, people's edits are overlooked, or pass after pass puts off an addition that
\* costs more writes than the cap.
Converges == <>[](Tracks(target) = Wanted \/ KeepsExtras \/ Overlooked) \/ []<>PutsOff

\* What a later pass finds in order was repaired: no copies are left over.
CleanIsOrdered == Unchanged /\ ~touched => InOrder

\* What no failure or edit disturbs is in order after every pass.
ReplayKeepsOrder == pass.at = "idle" /\ job.replay /\ edits = 0 /\ faults = 0 => InOrder

\* What resembles a wanted track for which no match was found is not removed.
NetLossProtected == [][pass.at = "drop" /\ Engine => \A e \in Tracks(target) \ Tracks(target') :
                        \A t \in pass.src \ (Tracks(target) \cup pass.found) : <<t, e>> \notin Alike]_vars

\* A wanted track gets to the destination, once nothing fails any more.
GetsCopied == \A t \in Track : <>[](t \in Wanted => t \in Tracks(target))
=============================================================================
