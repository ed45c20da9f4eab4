# A TLA+ model of SongMirror

SongMirror keeps playlists in step across music services. This directory holds TLA+ modules
that model its core, the TLC configurations that check them on small instances, and theorems
checked by TLAPS. Paths below are relative to `src/songmirror/` unless they name a module.

## The system

| Part | State | Operations | Talks to |
|---|---|---|---|
| **Peer reconciliation** (`engine/targets/base.py` `reconcile`, `_merge`, `_entry_cids`; `engine/runner.py` `_run_peer_reconcile`; `engine/archive.py`) | per provider: the recorded membership ("baseline"), whether it was ever recorded, the absences seen once ("pending"); per track: the name learned for it; within a pass: what was read, what was removed, whether anything was held | read every peer, name its entries, merge, add, remove, commit in one SQLite transaction; N-way or with an authoritative group | providers (reads may be partial or raise, writes may be declined), people who edit playlists meanwhile |
| **Sync jobs** (`services/sync_service.py`, `services/syncs.py`, `web/routers/syncs.py`, `web/routers/sync.py`) | `syncs.json`, the master switch, a scheduler task per enabled job, `_active`, `_running_job`, `_control`, `_interrupted`, one `asyncio.Lock` | create, update, delete, run, run all, pause, stop, resume, schedule, shutdown | the engine (in a worker thread), everyone else who needs the lock |
| **One-way mirror and merge passes** with their **chronology** repair (`mirror_pair`, `run_target`, `_run_merge`, `_fit_chronology_writes`, `replay_chronology`) | a target's playlist, the snapshot and count after the last clean pass, the source cache | skip, read, diff, add, stage and retire copies, remove under caps, record | providers |
| **Transfers** (`services/transfers.py`, `services/transfer_history.py`) | jobs in memory, snapshots and events in SQLite | submit, pause, resume, stop, resolve, apply resolved, recover | the engine lock, a thread |
| **Imports** (`services/imports.py`) | import jobs and tracks in SQLite, one control entry per job | upload, match, review, create, pause, resume, cancel, delete, recover | the engine lock, threads, the provider |
| **Backups** (`services/playlist_backups.py`) | schedules, snapshots on disk, a scheduler and a run task per account | schedule, queue, run, prune, delete, shut down | the engine lock, threads |
| **Resolve caches** (`engine/resolve_cache.py`, `services/resolve_cache.py`) | one file per account: what a track resolves to, what people chose or forgot | load with siblings' choices, resolve, merge and save, edit | every pass, transfer and import |
| **Provider clients** (`engine/targets/*`, `engine/spotify*.py`, `*_web.py`) | a provider's playlist, a page cursor, a retry budget | append in order, remove occurrences, read page by page | music services |
| **Browse** (`services/playlists.py`) | a cached read per playlist | show, remove what a person picked | provider clients |
| **Accounts and sessions** (`services/accounts/*`, `oauth.py`, `services/account_profiles.py`) | settings, a token file, live clients | connect, renew, rotate, reset, disconnect | music services |
| **Downloads** (`engine/downloads.py`, `engine/local_library.py`) | a folder per playlist, a state file | mirror a playlist to files, delete what left | spotDL, the person's own library |
| **Events, settings, frontend** | ring buffer, configuration | publish, store, show | browsers |

What is hard here: everything the engine knows about a playlist is a difference between two
reads taken at different times, while people keep editing, reads come back short, names of
tracks change, writes are declined or lose their answer, and passes are paused or die half-way.
The service around it mixes event-loop tasks that may be cancelled at any await with threads
that may not, and files that several of them load, hold for minutes and save.

What makes each part correct:

- reconciliation: a baseline only says what was really seen; a deletion spreads only after it
  was confirmed; a changed name is not a deletion; mirrors have no influence; the playlists come
  to agree;
- sync jobs: one pass at a time, in the order asked; no trigger lost or doubled; a job never
  stays stuck as "running"; buttons act on the pass they were pressed for; a merge job creates
  one destination; the schedulers follow the store;
- one-way passes: what was not read is not removed; a repair of the order never costs a track;
  a pass that is skipped had nothing to do; the destination becomes the source;
- transfers and imports: a stopped or cancelled job writes no more; one destination; what the
  history says is what happened; what people chose stays;
- backups: one scheduler and one run per account; pruning never removes what must be kept;
- caches and sessions: what people decided outlives every stale copy; a failed search proves
  nothing; calls speak for the account that is connected; no rotation is lost;
- clients: appended once and in order; a short or stuck page is not the end of a playlist;
- downloads: only files of tracks that left are deleted; the state file is true.

`PROJECT.json` lists the components with their status, and under `hazards` each place in the
code where one of these could go wrong and a test would hardly notice.

## Modules

| Module | Contents |
|---|---|
| `Reconcile` | one logical playlist across `NumPeers` providers: membership |
| `ReconcileProof` | its theorems |
| `Identity` | how an N-way pass names the entries it reads, and what it takes for missing |
| `EngineSlot` | what the shared engine lock promises |
| `Subsequence`, `SubsequenceProof` | the members of a sequence that pass a test, in order; lemmas about them |
| `SyncService` | sync jobs, their schedulers and threads, the lock; implements `EngineSlot` |
| `SyncServiceProof` | its theorems, and that it implements `EngineSlot` |
| `Transfers` | one-off copies, their worker threads, conflict review and durable record; uses `EngineSlot` |
| `TransfersProof` | its theorems |
| `Imports` | one playlist import with its review and its workers; uses `EngineSlot` |
| `ImportsProof` | its theorems |
| `Mirror` | a one-way or merge pass into one destination, with the repair of its order |
| `MirrorProof` | its theorems |
| `TargetWrites` | how each provider client appends and removes |
| `PlaylistReads` | how each provider client reads page by page; Browse's cache and removals |
| `Sessions` | the credentials of one account: settings, token file, live clients |
| `Backups` | scheduled snapshots of accounts |
| `ResolveCache` | the cache files, their merge, and what each provider's search leaves in them |
| `EvidenceProof` | the theorems of `ResolveCache` and `Identity` |
| `Downloads` | the local audio mirror and its state file |
| `EdgeProof` | the theorems of `Downloads`, `Backups`, `Sessions`, `PlaylistReads` and `TargetWrites` |
| `MC*` | instances for TLC; `MCProviderClient` composes `TargetWrites`, `PlaylistReads` and `Sessions`, `MCEvidence` composes `ResolveCache` and `Identity` |

The modules that compose with `EngineSlot` use its actions, and `SyncService` is checked to
implement it: the lock is modelled once and every client of it is checked against the promise.
`MCProviderClient` and `MCEvidence` put modules without common state side by side; a behaviour
exercises one of them (`part`), so each is checked completely and nothing is multiplied.

### Reconcile

A track is a canonical id and membership is a set, as in the code (`cur`, `prev`, `desired`).
A peer is its position in `peers`; `Authorities = {}` is N-way mode, anything else the
authoritative group. `baseline`, `initialized` and `pending` are the three archive tables;
`actual` and `playlist` are the providers' side: an id that was recorded and another one that
took its place under the same name differ as "same" and "replaced".

A pass is `StartPass` (create missing playlists, leave unavailable peers out), one `ReadPeer`
or `SkipUnreadableMirror` per peer in order, `Plan`, one `WritePeer` or `SkipCollapsed` per
peer in order, then `Commit` (the transaction of `commit_reconcile_membership`) or `Discard`.
`Interrupt` is a pause or stop between two providers, `WritePeer` with `halted` one between
two additions, `Abort` an exception or the end of the process at any point, including in the
middle of a provider's writes. People act between any two steps. The definitions between
`Known` and `AuthorityBootstrap` are the pure part: the collapse guard, the two-pass
confirmation and `_merge`.

`absences`, `streak`, `voted`, `onceOn`, `addedAt` and `deletedAt` are history: no action reads
them, the properties do.

Of the order of a playlist the module has what it costs. `order` is when each track was added
first, as the pass works it out from what providers show; with a track that is older than entries
already there, a peer that repairs its order has all the newer ones written anew (`Rewrite` says at
what price; 0 for one that only appends). `Fitting` is `_fit_chronology_writes`: the oldest
additions whose ordered writes fit under `--max-adds`. The others are put off, and put off
additions hold the baseline and the removals of the playlist like failed ones.

Left open or out: which additions match on a provider (any subset of what its catalog has);
provider ids, aliases and identity repair (module `Identity`); the steps of the order repair
(module `Mirror`); liked-track collections, which run the same `reconcile`; dry runs, which write
neither playlists nor baselines.

### Identity

The same pass, seen from the names of the entries. What a provider shows of a track changes
from read to read (`Shows`): an ISRC, a link to Spotify, or only a title, read rightly or as
another recording (`clash`). `Claim`, `Sticks` and `Named` are `_entry_cids`: proof first, then
the link, then a neighbour with the same key, against what was learned (`memory`, `past`: the
tables `track_identity` and its history). `Fold` is `_unify_aliases` over all peers. `Split`,
`Moves` and `Repaired` bring a recorded baseline to the names of the pass. `Recognise` is one
transaction (reading, naming, repair), then one `Write` per peer in any order, then `Commit`;
`Interrupt` ends the pass between two writes. A name is looked up and compared as one of its
entries (`Representing`); an addition that is found to be there already rests on an entry of its
own (`Claims`: not the first of a wanted name, nor one another addition rests on), and one that
finds none keeps anything from being removed (`Blocks`). `Prove` is the archive learning the ISRC behind
a Spotify id. Playlists are edited between passes; edits during one are in `Reconcile`.

`EvidenceIsReal` says that a name counts as missing only if the entries that bore it at the
recorded baseline have left the read; `SongStays` that a song never leaves a playlist unless a
person took it. Two limits of the code are exempt, both found by TLC: a track whose new name is
itself in dispute leaves its old name counted as missing (base.py:1666-1668 against 1709), and a
song one of whose entries is in dispute may lose its copy elsewhere, because a dispute takes the
name out of the protection of additions (`Doubted`). Two behaviours are as designed and not
claimed: an ambiguous split freezes the playlist until the names change (base.py:1647-1665), and
the deletion of a song that another peer knows only under an alias bounces back (base.py:1572).

Simplified: one similarity relation stands for the fuzzy comparison and for
`same_catalog_recording`; chains of three soft names that fold one into the next are left out; a
resolver offers a track of the same song or none, so a wrong match by a provider, which can
remove another song, is outside of the property; caps and declined writes are in `Reconcile`. The
instance of the run has releases of one song and no fuzzy resemblance (`Alike = {}`), so a deletion
beside another song, and folds of merely similar titles, are covered by `EvidenceIsRealHolds` and
not by `SongStays`.

### SyncService

The event loop is one thread, so what runs between two awaits is one action: a handler of
`web/routers`, the head of a scheduler's loop (`LoopHead`, part of the action that leads to
it), `run_job` up to the lock (`Wake`, `Run`, `RunAll`, `Resume`, all through `Begin`), the
moment the lock is granted (`Grant`), the result of the pass (`Finish`), the delivery of a
`CancelledError` (`DeliverCancel`). A task records its kind, its job, where it awaits (`sleep`,
`queued`, `slot`), whether it is cancelled, the `enabled` value of its copy of a merge job that
has no destination yet (`creating`), and the jobs `run_all` has still to run (`rest`).

The pass itself is a thread (`worker`): it may create the merge destination, it ends with what
it last read of the shared control value, or it raises. Cancelling the task does not end it:
`DeliverCancel` leaves the thread running, its result unclaimed, until `EndThread`.

`asyncio.Lock` is `queue` plus the task that is in the slot: a free lock nobody queues for is
taken at once, otherwise the first in the queue gets it, and a cancelled waiter is out of the
queue at once. Transfers, imports and backups appear as `Exclusive` clients of the lock.

`Shutdown` is the teardown of the web application, `Restart` the death of the process at any
moment and a new start from the files.

### Transfers

A job is what `submit` puts into `_jobs`; `status`, `control`, `dest`, `applying`, `added` and
`conflict` are its fields. The engine lock is not modelled again: the actions use the promise
`EngineSlot` (`Slot!Ask`, `Slot!Grant`, `Slot!Release`, `Slot!Withdraw`), which `SyncService` is
checked to implement, and `Sync` stands for every other client of it.

The task of a job is two actions, the one in which it gets the lock (`Schedule` or `Grant`) and
`Conclude`, the rest of `_execute`. Between them its thread takes the steps `Setup` (find or
create the destination), `Examine` (read both playlists and match), `Poll` and `Send` (the batch
loop), or `Fail`, after which some of a batch may be on the destination. Matching is one step
although it polls before each track, because the control value never goes back to `run` while a
worker is alive: all that the polls can do is cut the walk short somewhere. `Poll` and `Send`
are apart because a batch is under way when a button is pressed. A job that finds the lock free
has it at once: the task's first step is not separated from the handler that created it.

`resolve` is a plain function that the server runs in a thread pool, so it is three actions:
what it checks, what it stores (the account's cache file, the conflict, and the snapshot
`history.save` makes before it takes the database), and the write of that snapshot. Between the
first two, `apply_resolved` may run the job from start to end; the conflict is then shown as
applied with an id nobody wrote. Between the last two the event loop may save a newer record,
which the snapshot overwrites. `raced` notes the jobs to which either happened, and
`AppliedIsThere` and `HistoryFollows` are claimed for the others.

Left open or out: what a resolver finds (`Match`), how a track is recognised on a destination
that shows it with other metadata (any subset), people who edit the destination meanwhile, two
source tracks that share one id (a copy between providers writes it twice), a provider that
reports no id for the playlist it created, and the inside of an order repair, which is one
write here. After a restart nothing is left to resume: `recover` closes each open record.

### Imports

One job from upload to deletion: its rows (`status`, `phase`, `dest`, and per track the decision,
the id and the write status), its entry in `_controls`, its task in `_tasks`. A worker is a task
that waits for the engine lock and then a thread: `Open`, `Store` (create the playlist and keep
its id), `ReadExisting`, `Walk` over the tracks, `Save`, `Add` and `Written` for each batch,
`Check` and `Finish`; any of them may raise (`Fail`). Handlers are one action each, because they
run on the event loop between two awaits. `Conclude` is `_match_job`/`_create_job` after the
thread, with the `finally` that removes the control entry. `LoopEnds` is the end of the event
loop with threads still alive, `Restart` the end of the process followed by
`recover_orphaned_jobs`. Approving is choosing the id that is proposed.

All workers of a job share one control entry, and a pause sets the status at once: a resume then
starts a second worker beside the first, whose `finally` removes the entry of both. `CancelStops` is
what the comment at imports.py:1041-1044 wants to avoid by that entry, and it is violated. Known
limits of the same origin, which the properties exempt or do not claim: a choice made while a paused
worker is alive is overwritten when it saves (`contested`); an import cancelled while its worker is
queued still creates the playlist; a worker that fails after a cancel sets the job to failed; a
matching run that was paused may still save a track after `create_playlist` found nothing to write
and called the import done (imports.py:962-975 against 1287-1295), so that it is done with a track
that could be written and never was (`touched` notes the tracks decided on or matched since the
import was last called done); a track whose write status became "skipped" is not written when it is
chosen later.

Left open or out: parsing of uploaded files, scores; bulk decisions, which are single ones in
sequence; the revalidation of ids from older versions when a worker starts, which is part of the
ways it may fail.

### Mirror

A track is its place in the order of the source. A pass: `Begin` (or skip, `Unchanged`),
`ReadSource` or `ReadUnion`, `ReadTarget`, `Plan` (diff, resolution oldest first and possibly cut
short, `Fit` under the job's cap of additions, protected and capped removals), then `Add`, or `Stage`, `Undo`,
`Retire` and `Keep` for a repair of the order, `RemoveOne` per removal, and `RecordState`. `job`
says whether it merges, drains, can replay, whether the destination deletes all copies of a
track at once (Apple Music), and how many ordered writes it may make in a pass (`adds`). `touched` notes edits of the destination, `scarred` that the order
may be lost for good: a repair cut short, an old entry wanted again, a union planned without
all its sources, or a track that stays moved behind a newer one (`Displaces`, Apple Music only: see
`ReplayKeepsOrder` below).

Known limits: edits of the destination that leave its count as the last clean pass recorded it, by
themselves or with the copies that an interrupted repair left, are never noticed (`Overlooked`); an empty source
is not believed, so a playlist that was emptied is not; what people add during staging is taken
back by a rollback. Left out: a match that turns out to be present under other metadata, links
and archive ids, and the creation of a merge destination (`SyncService`).

### TargetWrites

One client at work on one playlist: `target` picks its table row of `Client(sends, waits, renews,
resends)`, its transmissions, whether it waits when throttled, renews an expired token and repeats
a request whose answer was lost. `Add`, `AddCopies` and `Drop` begin a call, which is a plan of
requests: appends, or the removal of the flagged entries as each provider takes it. Deezer deletes
every copy of an id and appends those to keep, whose number is fixed when the removal begins
(`Unflagged`, `Restore`). `Accepted`, `Lose`, `Throttle`, `Unauthorised`, `Garble` and `Refused` are
the answers to one transmission; `Found`, `ReadStale`, `Unknown` and `NotFound` are Apple's look at
the playlist before it repeats, perhaps under the id of another release, which it remembers
(`Written`) and counts by (`Confirm`). `GiveUp` is an error that is no transport error: it ends a
call, except that Deezer's `remove_occurrences` takes it for a refusal and goes on with the next
id (`givenup`, `unrestored`). People edit meanwhile, which gives each property its exemptions: a
client cannot tell a person's removal from a lost write.

Known limits: Apple's `before_count` counts the copies of this call, so a copy staged before may
be taken for the one that was lost; a removal in Deezer with stale flags may take the last copy;
after a replacement Apple's counts are those of another id, so order and count are claimed where a
search finds another release only for ids that are gone (`Steady`). Assumed: a read lags at most
two reads behind a write. `UnflaggedButOne` and `LoseBlind` are mutants.

### PlaylistReads

A reader is a record of what it does about bad answers (`Reader`, `EveryReader` lists the code's
readers). `ReadPage` answers a page at the row, link or number it asked for. The bad pages:
no rows although more are announced (`Starved`), a continuation that stands still (`Stuck`) or is
missing although more are announced (`Torn`), rows without a word of what follows (`Mute`), neither
rows nor such a word (`Bare`: an empty body, a null object), and Apple's 404 (`Absent`). People add and remove entries between pages. Browse keeps the
rows of a complete read (`cache`), shows them, and removes what a person picks: `RemoveTracks`
checks positions against a fresh read, `SendRemovals` sends them.

`MissedOnlyByShifts` is the best a page-wise read can promise: it misses no more entries than were
removed while it ran, and repeats no more than were added. `Blind` lists for each kind of bad page
the readers that take it for a good one; a read is exempt (`sound` is false) once it took a page of
a kind its reader is listed for, and no other read is. Rows without a total or a link end the reads of
every client that follows links, of Spotify's API, Apple and Last.fm as if they were the last; an empty
body also those of Qobuz and Jellyfin, which compare with a total only when one is given
(qobuz.py:273-274, 300-301, 317-318; jellyfin.py:157-163). `Endless` those that follow a cursor that stands still for ever, which `ReadEnds`
exempts. Other known limits: Subsonic compares positions and then sends them (subsonic.py:178-190),
with an edit possible in between (`drifted`); a read that overlaps a removal stores the removed
entries again, and a busy database swallows the invalidation (playlists.py:241-250, `raced`);
ListenBrainz's total does not notice an addition together with a removal. Left out: page-wise
refresh, the comparison with an expected count, pruning, entries marked as unavailable.

### Sessions

A line is one pasted session and all it is renewed to; in the worst case, which is taken, each
signs in to an account of its own. `Build` makes a client for a pass or a library request, `Call`
uses it, renewing and persisting as its kind does; `ConnectTidal`, `ConnectDeezer`,
`ConnectAmazon`, `ConnectFile`, `Disconnect` are the account forms. The provider rotates refresh
tokens and may refuse old ones. `tainted` notes when the file may hold something else than the
last session for a reason that is not the code's next step: a crash within a renewal, or a client
of an earlier connection.

Known limits: clients of an earlier connection write their tokens over the new ones (Amazon,
YouTube, Deezer; `TiedUsesChosen` is claimed of TIDAL and Spotify only); a TIDAL client of an
earlier connection seeds the old bootstrap again; `write_token` truncates the file before it
writes; a strict rotation may refuse a second Deezer or Amazon client; disconnecting YouTube
leaves its token file.

### Backups

A scheduler task is created, sleeps, wakes or is cancelled (`BeginScheduler`, `Wake`, `Cancelled`);
a run takes its copy of the schedule (`BeginBackup`), asks for the engine lock, reads the account
and stamps the export to the second by the wall clock, which may repeat or go back (`Read`), writes the
snapshot in a thread under the lowest number that is free for that second and format (`Write`),
prunes by name (`Newer`: stamp, then number, then extension) and records. `PutSchedule` and `Delete` edit
the schedule, `Reconcile` (part of them) replaces tasks; `DeleteSnapshot` is a person's. `Shutdown`
cancels the schedulers and waits for the runs, `BackupCrash` and `Start` restart from the files.
`every` and `due` must belong to the task that is listed: the check of ownership in the `finally`
at line 549 is `Owns`. Names also hold the account's label, which is one and the same for an
account here and left out. Left out as well: the migration that `list()` does outside of the lock, and a store
file that cannot be read, which reads as empty and is then overwritten.

### ResolveCache

One source track in the files of the accounts of one provider. A session is a copy in memory:
`Load` (with what siblings chose), `Resolve`, `Throttle`, `ResolveBroken`, `Prefetch`, `Normalise`,
and `Save`, which merges the copy into the file key by key (`Writes`, `Merged`). People's edits
(`Set`, `Choose`, `Delete`, `ClearUnmatched`) are sessions too, between whose load and save a pass
may save. `AppleSearch`, ..., `AmazonBroken` say what each provider's search leaves in the cache.
`Repair` and `Evict` are what Apple's client does when the provider refuses to add an id: the public
search names another release, which replaces the entry, a person's choice too, or the id is dropped.
`withdrawn` notes that this befell the very id a person chose, the one exemption of `PersonDecides`
(known departure `ChoiceWins`).

### Downloads

A pass takes the playlists a sync selected (`BeginPass`) in listing order through `Next1` (skip, or
give it a folder), `ReadTracks`, `DeleteRemoved`, `Serve` (copies from the person's library),
`Stream` (spotDL, handed the playlist itself when nothing of it was ever mirrored: `AsPlaylist`) and
`Finalize`, which makes its `LedgerEntry`; the state file is written once, when all are done or at a
stop (`Halt`, `Save`). `DownloadCrash` loses what was not saved, and the file itself when it comes
while it is written. Playlists are edited at any time, also between the listing and the reading of
a playlist. `FromSpotify` says what the source is: of another one, `finalize_folder` reads fields its
rows do not have and raises (downloads.py:149-156, caught at 782), so nothing is recorded.

`hurt` is history: which tracks something other than a missing source kept out of a folder, and what.
There are four causes: a person deleted the folder (`wiped`); a run deleted the file of a track that
had left and did not get to record it (`undone`); spotDL read the playlist after the track had left it
(`left`); the download failed and spotDL exited with 0, which counts as clean (`passing`).
`LostIsReal` says that a track with audio is given up for one of these only, and `FilesAreThere` that a
file the state names is on disk but for the first two. A track that is found on disk again is no
longer hurt.

Known limits: two tracks that share a file lose it when one leaves, and playlists of the same name
share a folder, so what is claimed of files is claimed of tracks with a file and playlists with a
name of their own (`OwnFile`, `OwnTitle`); deleting a folder makes its tracks unavailable for ever;
a track that was given up is never tried again, whatever the cause, nor is a failed copy from the
library of a track spotDL does not have; a folder that was deleted and made again by a run that then
stopped stays empty while its playlist is unchanged; the library index is read once per process.
`Chunk` is the number of tracks one spotDL is given by name (40 in the code, 1 in the instance).

## What is checked

| Run | Instance | Properties that hold |
|---|---|---|
| `reconcile_nway` | 2 peers, 2 tracks, N-way, any initial contents, caps 1 with draining, 2 edits, 2 faults | `TypeOK`, `BaselineWitnessed`, `ConfirmedRemoval` |
| `reconcile_group` | 3 peers, 2 of them authorities, caps 1, either order of 2 tracks, peers that write an entry anew at a cost of 2, 1 or never, 2 edits, 1 fault, fair | `MirrorsNeverVote`, `Convergence` |
| `sync_service` | 2 jobs, one a merge job without destination; 3 tasks; 3 requests; 1 restart | `StatusIsTrue`, `DestinationOnce`, `ImplementsEngineSlot`, `ControlIsOwn` |
| `sync_progress` | 2 jobs, 3 tasks, 2 requests, fair | `QueueMoves`, `KeepsRunning` |
| `transfers` | 2 jobs, 3 tracks (found, found but declined, not found), batches of 1, 4 requests, 1 exception, 1 restart, fair | `NothingTwice`, `ReportsHold`, `HaltsSoon`, `Served` |
| `imports` | 2 tracks that may be found as one id, batches of 2, 2 workers, 4 requests, 1 fault, fair | `WritesOnce`, `RowsAreTrue`, `ChoicesKept`, `Settles` |
| `mirror` | 3 tracks, 2 sources, six kinds of job with caps from 1 to 5 ordered writes, 1 removal in a pass, 1 edit, 2 faults, fair | `OrderKept`, `OnlyCopyKept`, `SkipIsSafe`, `UnreadKept`, `Converges` |
| `provider_client` | 11 writing clients on 3 ids, every reader on pages of 1 row, 5 kinds of session with 2 clients and 2 connections | `AppendsHold`, `KeepersKept`, `ReadsAreTrue`, `SessionsHold`, `OnlyPickedGo`, `ReadEnds` |
| `backups` | 1 account, 2 intervals, 2 folders, 2 formats, 2 stamps in any order, 2 tasks, 3 runs, 2 edits, 1 fault, fair | `TasksFollowRows`, `SavedIsThere`, `Stops` |
| `evidence` | cache: 7 providers, 2 accounts, 2 sessions at once, 2 loads, 1 broken search, throttling or refused addition; names: 1 playlist, 2 peers, 3 tracks, 3 passes, 1 edit | `PersonDecides`, `EvidenceIsOwn`, `EvidenceIsReal`, `SongStays` |
| `downloads` | 2 playlists of Spotify, 2 tracks, chunks of 1, 2 edits, 1 fault, fair | `LedgerIsTrue`, `OnlyLeaversDeleted`, `CatchesUp` |
| `sync_overlap` | 2 jobs, 3 tasks, 2 requests | (`OnePass` is violated) |

Each run takes three minutes or less with two workers. A property whose name covers several
claims is the conjunction of the named parts above it in its module (for example `ReportsHold` of
`AddedIsConfirmed`, `AppliedIsThere` and `HistoryFollows`), and the type invariant of each module
is part of one of them.

**Bounds of Reconcile.** `MaxEdits` and `MaxFaults` bound the environment, not the engine:
passes go on for ever, so every run covers any number of passes after the last edit or fault.
Two tracks are the fewest that tell a partial read from an empty one and a batch from the
whole plan; with two tracks the collapse guard separates "none" from "some" only, so the 0.4
fraction itself is not exercised there (`Identity` counts unchanging entries, `Others`). A cap of
1 is the least that lets writes be deferred. Three peers are needed for an authority group with a
mirror, and for an addition that arrives by a third peer.

**Bounds of Identity.** Two releases of one song on one provider, both once linked to the same
Spotify track, and a third on another provider that may be read as another recording: the fewest
tracks with which a name can split, be shared, be disputed and be known elsewhere by an alias.
Three passes are the two that confirm an absence and one before them that learns a name. Passes
are counted here, since names are learned for good.

**Bounds of SyncService.** `Task` bounds the tasks and threads alive at once: two schedulers
and one more client, enough for a holder, a waiter and somebody who comes later, or an orphaned
thread beside them. `MaxRequests` bounds what people ask, not the timers, threads and passes.
Tasks are interchangeable, so the safety runs use symmetry. Deadlock is not checked there:
after a shutdown the system stops by design. `Reconcile` is checked for deadlock.

**Bounds of Transfers.** Two jobs are enough for one to wait behind the other, and to copy into
the same existing playlist. One track of each kind, and a third id that only people choose, give
every way a conflict can go: open, chosen, applied, declined again. Four requests suffice for
submit, pause, resume and a further button, or submit, resolve and apply with another job or a
sync pass in between. `MaxRequests` also bounds how often a job starts, and so `Counts`. With
batches of one track the plan has up to three writes; a provider without batches, and the order
repair, are the choice `whole` of `Examine`. Deadlock is not checked: a service nobody asks
anything of has nothing to do.

**Bounds of Imports.** Two workers are what a pause followed by a resume can have alive; two
tracks that may share an id, in batches of two, give a declined track beside a written one and
the same id wanted twice. Four requests suffice for submit, create, pause and resume or cancel.

**Bounds of Mirror.** Three tracks are the fewest with a recovered one before, between and after
those that are there; one edit and two faults may come at any step of any of the unboundedly
many passes. A repair of three tracks takes up to three ordered writes, and up to five on Apple Music,
which writes a kept entry twice: each kind of destination has a cap that fits every repair, and one
below it with which some are put off for ever. With one removal in a pass a job drains, or keeps the
extras.

**Bounds of the clients.** Requests are sent up to three times where the code sends them up to
six; two faults give a lost answer and a bad look at the playlist. Pages of one row make every
entry a page boundary. Two connections and two clients let an old client live beside a new one;
one rotation and two refusals or crashes suffice to lose it.

**Bounds of Backups, ResolveCache and Downloads.** Two tasks are a retired one
and its replacement; two stamps that may come in either order, and two formats, give snapshots that
sort before older ones for each reason there is. Two accounts are a file and its sibling; two loads at once are a pass and the
person who edits under it. One fault is a search that breaks or is
throttled, or an id that Apple refuses (after which it is replaced or, as when the replacement is refused
too, dropped). Two playlists let a run be interrupted between them; chunks of one track make
two new tracks a whole-list download.

**Deadlock** is checked for `Reconcile` and `Downloads`; the other systems may rest when nothing
is asked of them or when their bounds are used up.

**Fairness.** `Reconcile!FairSpec` is weak fairness of `Engine`: each enabled job fires on
every interval boundary (`_job_scheduler`) and a pass that nothing disturbs runs to its end;
people, partial reads and pauses owe nothing and are bounded. `Mirror!FairSpec` is the same for
`Pass`. `SyncService!FairSpec` is weak fairness of each task's progress: the event loop runs what
is ready, timers fire, and a pass ends (provider calls have timeouts). Creating a destination,
failing and every request are unfair. `Transfers!FairSpec` and `Imports!FairSpec` are weak fairness
of `Grant`, `SyncEnds` and each worker's `Thread` (for imports also of `DeleteRows`, which waits
for a worker): the event loop hands the lock on, and passes and workers end. Buttons, exceptions
and restarts are unfair. `Backups!BackupFairSpec` is weak fairness of each step of tasks and runs, and
strong fairness of `Acquire`, since `asyncio.Lock` serves in order of arrival
(`ImplementsEngineSlot`). `PlaylistReads` is fair in `AnswerPage`: each request is answered or
times out. `Downloads!DownloadFairSpec` is weak fairness of a pass's steps and strong fairness of the
start of a pass over all playlists, which the sync schedule brings about again and again.

**Convergence** says that the playlists agree for good, with two exceptions. A reading may keep
collapsing against its baseline: a person who really empties a playlist makes the guard skip it on
every pass, by design. And again and again some provider's oldest addition may cost more ordered
writes than `--max-adds` (`Postponed`): it is then put off on every pass, and with it every removal
and the baseline. The second is no design: see `RestFollows` below.

**Converges** says of a one-way destination that it becomes its source and stays it, of every kind of
job. Exempt are an emptied source, which is not believed; a job that does not drain and has more
extras than the cap of removals (`KeepsExtras`; everything wanted is there all the same); a destination
that people edited and that still counts what the last clean pass recorded, so that it is skipped
(`Overlooked`); and again the addition that is put off on pass after pass (`PutsOff`; see `GetsCopied`). **CatchesUp** is
claimed of playlists of Spotify, and of tracks that were not given up for one of the four causes of
`hurt`.

## Known departures

Where the code does something else than a comment, docstring or document says, a property states
the saying and TLC finds a behaviour that violates it. `sync_overlap` is a run of the project; the
others are reproduced with `tlc -config <cfg> <module>`; where the table says so, in the
configuration of a run the property named takes the place of one that holds.

| Property | Module and configuration |
|---|---|
| `OnePass` | `MCSyncService`, `MCSyncServiceOverlap.cfg` (run `sync_overlap`) |
| `DeletionSticks` | `MCReconcile`, `MCReconcileDeletion.cfg` |
| `AddWins` | `MCReconcile`, `MCReconcileAddWins.cfg` |
| `ConsecutiveReads` | `MCReconcile`, `MCReconcileConsecutive.cfg` |
| `RestFollows` | `MCReconcile`, `MCReconcileGroup.cfg` with it for `Convergence` |
| `SchedulersFollowStore` | `MCSyncService`, `MCSyncServiceSchedulers.cfg` |
| `StopIsForGood` | `MCTransfers`, `MCTransfersStop.cfg` |
| `CancelStops` | `MCImports`, `MCImportsCancel.cfg` |
| `NetLossProtected` | `MCMirror`, `MCMirrorNetLoss.cfg` |
| `CleanIsOrdered` | `MCMirror`, `MCMirrorRepair.cfg` |
| `GetsCopied` | `MCMirror`, `MCMirrorDeferred.cfg` |
| `ReplayKeepsOrder` | `MCMirror`, `MCMirrorReplay.cfg` |
| `AppendedOnce` | `MCProviderClient`, `MCProviderClientOnce.cfg` and `MCProviderClientApple.cfg` |
| `UnflaggedPreserved` | `MCProviderClient`, `MCProviderClientKeepers.cfg` |
| `SuccessIsOnDisk` | `Backups`, `BackupsSameSecond.cfg` |
| `UsesChosen` | `Sessions`, `SessionsDeezer.cfg` |
| `ChoiceWins` | `MCEvidence`, `MCEvidence.cfg` with it for `PersonDecides` |
| `RemovedIsDeleted` | `MCDownloads`, `MCDownloadsRemoved.cfg` |
| `InterruptedContinues` | `MCDownloads`, `MCDownloads.cfg` with it for `LedgerIsTrue` |
| `CatchesUp` (source other than Spotify) | `MCDownloads`, `MCDownloads.cfg` with `FromSpotify = FALSE` |

- `OnePass`: disabling or deleting a job while it runs cancels the task that awaits the pass,
  releases the lock and leaves the thread at work; the next pass runs beside it.
- `DeletionSticks`: `reconcile`'s docstring promises that an old addition cannot override a
  later user deletion. When another provider's playlist was recreated, the engine's own copy
  into it is found by the next pass, is not in the new baseline, and counts as an addition
  that beats the deletion waiting for its second confirmation.
- `AddWins`: "Add-wins on conflict" lasts one pass. An addition is in its peer's baseline once
  it was read, and a removal needs two passes, so a track moved by hand between two providers
  is deleted where it was just added.
- `ConsecutiveReads`: "two consecutive complete reads" may have a third, in which the track was
  present, between them, if that pass was interrupted or aborted: pending rows are rewritten
  by committed passes only. The property that does hold, `ConfirmedRemoval`, says that two
  trusted reads missed the track since its baseline was last confirmed.
- `RestFollows` ("Per-playlist additions cap per pass; the rest continue next pass",
  engine/config.py:116): in a group or N-way sync an addition that is older than entries already on a
  provider is written together with all of those. When that is more than `--max-adds`, no pass ever
  makes it (base.py:620-692), and since a put off addition holds the baseline and the removals
  (base.py:2056-2080), deletions of other tracks do not follow either.
- `SchedulersFollowStore`: when a merge pass has created its destination, `run_job` saves the
  copy of the job it read before it waited for the lock. An edit made meanwhile is undone, a
  deleted job comes back, and the schedulers are not told.
- `StopIsForGood`: a running transfer that was told to stop keeps its status until its worker
  polls, and `pause` asks for nothing but that status before it overwrites the control value.
  The transfer ends as paused, and can be resumed.
- `CancelStops`: pause and resume leave two workers with one control entry; the `finally` of the
  first removes it, a cancel that comes before is lost, and the second worker goes on writing.
- `NetLossProtected` (matching.py:613-619 protects what resembles an unresolved track, "loses
  music"): only tracks that were looked up and not found protect. When resolving is cut short by
  throttling or a pause, the tracks after the cut do not, and the entry that resembles one is
  removed before its replacement was tried.
- `CleanIsOrdered`: base.py:410-412 takes a failed staging back, to keep "the next pass from
  mistaking that partial prefix for a completed repair". A repair that fails while it retires its
  originals is not taken back: the next pass finds every track present, records a clean state, and
  later passes skip the playlist with the copies in it.
- `GetsCopied` ("deferring ... to next pass", base.py:952): an addition whose repair needs more
  ordered writes than `--max-adds` is deferred by every pass, for ever.
- `ReplayKeepsOrder` ("replay preserves their relative order", base.py:385): on Apple Music the
  copy of a track that stays is appended again once its original is deleted (apple.py:1130-1134),
  behind everything the repair staged. When 1 and 3 are recovered around a present 2, the repair
  stages 1, 2, 3 and leaves 1, 3, 2; the pass records that as clean. The attempt to prove
  `OrderKept` led to it.
- `AppendedOnce` (base.py:359, "one request per id"): `spotify.py:32-47`, used by
  `spotify_target.py:70-82`, and `deezer_web.py:304-335` send an append again whose answer was
  lost, which doubles the track; `spotify_cookie.py:184-187` says why it does not. Apple's client
  looks first, and "counts, rather than mere membership" (apple.py:883) shall keep that right: but
  once it has replaced an id it stores the count of the old id plus one under the new one
  (apple.py:1060-1065), and takes a write of the next copy that landed for one that did not.
- `UnflaggedPreserved` (deezer.py:622, "Preserve any unflagged copies by deleting once and
  re-appending their count"): Deezer's web client raises a plain RuntimeError when the answer cannot
  be read, or when the token expired on its last transmission (deezer_web.py:346-378). `remove`
  takes that for a refusal, also when the deletion has run; the copies to keep are not appended
  again, and the cleanup reports success.
- `SuccessIsOnDisk` (README.md:353, "last successful file"): a snapshot's age is its name
  (playlist_backups.py:349-352). A backup takes the lowest number that is free for its second and
  format, which may be below one in use; a JSON snapshot sorts before an XML one of the same second;
  and a clock that was set back gives an earlier stamp. The new snapshot then counts as the older,
  and its own pruning deletes it (playlist_backups.py:420) before it is recorded as the last success.
- `UsesChosen`: a Deezer target prefers the refresh token in the file over the session connected
  last (`deezer_web.py:220-231`), though README.md:429 has the connection renew "from the saved
  `refresh-token`": until that file is rewritten, calls speak for the earlier account.
- `ChoiceWins` (docs/design/2026-09-02-public-url-transfer-and-resolve-cache-ui.md:155, "a manual entry
  already wins over a later search"): when Apple refuses to add the id a person chose, the public
  search of `_repair_catalog_id` replaces it, still marked as the person's, or `_evict_catalog_id` drops
  it (apple.py:820-876), and the pass saves that.
- `RemovedIsDeleted` (downloads.py:5-8, README.md:378 and 397): the state is saved at the end of a
  clean run over all playlists (downloads.py:730-787); a file downloaded by a run that did not get
  there, whose track leaves before the next one, is never deleted.
- `InterruptedContinues` (downloads.py:5-8, "an interrupted run just continues on the next pass"; README.md:397):
  a run deletes the file of a track that left, and is interrupted or not clean. The state still names the
  file; when the track is put back, the next run finds it among the known ones, asks for no download
  (downloads.py:553-559), finds no file and gives the track up for good (downloads.py:660-682, 779-785).
- `CatchesUp` with another source (README.md:400, "Any source, not just Spotify"): `finalize_folder`
  raises on the first row of every playlist, so no state is ever saved, and no removed track deleted.

## What is proved

`ReconcileProof` proves, for any number of peers and tracks, any catalogs and caps, with only
`ReconcileAssumption` (at least two peers, finitely many tracks, constants of their types):

| Theorem | Statement |
|---|---|
| `TypeCorrect` | `Spec => []TypeOK` |
| `BaselinesAreWitnessed` | `Spec => []BaselineWitnessed` |
| `MirrorsHaveNoVote` | `Spec => []MirrorsNeverVote` |
| `RemovalsAreConfirmed` | `Spec => ConfirmedRemoval` |

- `BaselineWitnessed` is not inductive: a commit records what was read passes ago. The
  invariant `Witnessed` adds that what is read (`cur`) and what is on a playlist was once there.
- `MirrorsNeverVote` needs `OnlyVoted`: baselines of contributors and their readings consist of
  voted tracks. The lemma `DesiredVoted` carries it through `_merge`: each set the union is
  built of comes from contributors.
- `ConfirmedRemoval` is an action property. Its invariant `Evidence` ties the pending rows to
  the history: a pending track that is still in the baseline was missed at least once
  (`PendingCounted`), one that is missed again in the running pass twice (`MissingCounted`),
  and what the engine removed itself counts (`RemovedCounted`, `RemovedWhenWriting`). A removal
  plan contains a baseline member only if some voter misses it with a pending row, which is
  where the two absences come from.

`SyncServiceProof`, for any jobs, tasks and bounds (`SyncServiceAssumption`):

| Theorem | Statement |
|---|---|
| `StatusHolds` | `Spec => []StatusIsTrue` |
| `CreatedOnce` | `Spec => []DestinationOnce` |
| `ButtonsReachTheirPass` | `Spec => ControlIsOwn` |
| `LockIsEngineSlot` | `Spec => ImplementsEngineSlot` |

- `StatusIsTrue` needs to know where each kind of task can be and what its thread does meanwhile
  (`TasksInShape`), that a task is in the queue exactly while it waits and was not cancelled
  (`QueueInShape`), that one task is in the slot (`HolderKnown`), and that a job is active exactly
  for one busy task (`ActiveKnown`).
- `DestinationOnce` needs what a pass knows of its job when it creates a destination:
  `CreatorsMerge`, `CreatorsKnown`, `CreatorsBusy`, `CreationKnown`.
- `ControlIsOwn` is an action property; `PressesKnown` ties the shared control value to the buttons
  pressed since the pass in the slot began, and `CutStep` is the step at which it is read.
- `LockIsEngineSlot` is the refinement: the queue maps to the queue without the cancelled tasks,
  and every step is a step of `EngineSlot` or a stutter (`LockStep`). A cancelled waiter is the
  abstract `Withdraw`; that the rest keep their order is `KeptAgrees` of `SubsequenceProof`.

`TransfersProof`, for any transfers, tracks, catalog and batch size (`TransfersAssumption`):

| Theorem | Statement |
|---|---|
| `NothingTwiceHolds` | `Spec => []NothingTwice` |
| `ReportsAreTrue` | `Spec => []ReportsHold` |
| `HaltsInTime` | `Spec => []HaltsSoon` |

- The invariant is one `JobInv` for each transfer beside what relates them: the lock and the
  statuses agree (`InSlot`), the rows a thread has left to write are of different tracks and not
  written (`RowsAreNew`, from which `CopiedOnce`), choices a thread applies are still the person's
  (`RowsAreChoices`, `ChoicesStand`), what was counted as applied is there (`AppliedInShape`), the
  record on disk follows (`RecordFollows`).
- `HaltsSoon` was not inductive: a queued transfer must have nothing written since it was told to
  stop (`FirstWrite`). Counters are bounded by what all requests can copy (`Counts`, `CountKnown`).

`ImportsProof`, for any list, catalog, matching, batch size and number of workers
(`ImportsAssumption`):

| Theorem | Statement |
|---|---|
| `WritesOnceHolds` | `Spec => []WritesOnce` |
| `RowsAreTrueHolds` | `Spec => []RowsAreTrue` |
| `ChoicesKeptHolds` | `Spec => []ChoicesKept` |

- The invariant is one `WorkerInv` for each worker beside `OneThread` (a thread that is alive has
  the lock, or outlived the event loop and nobody else starts) and `CreatedKnown` (a playlist that
  was created is the job's, about to be, or lost).
- `AddedOnce` needs `ExistingKnown`: what a worker believes to be on the playlist is there, and
  all of it is known unless the playlist could not be read. `DoneIsComplete` needs `SettlesRows`:
  a worker has settled each row it has passed, or will write it with the next call. `ChoicesKept`
  needs `ChoicesKnown`: a choice that a matching worker did not read was made while it was there.
- The attempt to prove an earlier `DoneIsComplete` found the import that is called done while a
  paused run is still matching, beyond the bounds of the run (six requests); see *Imports*.

`EvidenceProof`, for any accounts, sessions and loads and every provider (`CacheAssumption`), and
for any playlists, providers, tracks and names (`IdentityAssumption`):

| Theorem | Statement |
|---|---|
| `PersonDecidesHolds` | `Spec => []PersonDecides` |
| `EvidenceIsOwnHolds` | `Spec => []EvidenceIsOwn` |
| `EvidenceIsRealHolds` | `IdentitySpec => []EvidenceIsReal` |

- `PersonDecides` is proved with Apple's repairs among the steps: a session that was refused an id
  knows it (`refused`), and saving its copy over that very choice withdraws it (`withdrawn`).
- Of the caches, `CacheInv` says what holds of a file (`FileInv`) and of what each open session
  would write to it, in terms of what is on disk now (`PassInv`, `EditInv`, `LoadInv`,
  `SessionInv`): a session loaded long ago may be saved over any later choice, and exclusions
  are never taken back.
- Of the names, `NamesInv` adds that a name which was learned stays on record (`MemoryKnown`), that
  what a track was called at a baseline was learned (`BoreKnown`), and that no name is missing
  which an undisputed entry of the read bore (`PassKnown`). The attempt showed that the history
  `bore` also took names that were never read as such, and it was corrected.

`MirrorProof`, for any number of tracks, any sources, kinds of job, resemblances and caps, and any
number of edits and failures (`MirrorAssumption`):

| Theorem | Statement |
|---|---|
| `OnlyCopyKeptHolds` | `Spec => []OnlyCopyKept` |
| `SkipIsSafeHolds` | `Spec => []SkipIsSafe` |
| `UnreadKeptHolds` | `Spec => UnreadKept` |
| `OrderKeptHolds` | `Spec => []OrderKept` |

- The first three rest on `Content`. While people leave the destination alone, every original stays
  until its copy is there, and at most one track is lacking, the one whose copy comes back next
  (`OldKept`). A pass that keeps nothing back has brought, or has yet to bring, all it read
  (`AllBrought`), and has as many removals left as there are foreign entries, copy by copy
  (`AllTaken`, which counts places and needs the injection of `LeavingCounted`). With what is
  known of snapshots (`Versions`, `SourceKnown`) a clean pass leaves exactly the tracks of its
  source (`Settled`), which is `SkipIsSafe`. `UnreadKept` needs that only a complete reading
  removes, and only what it did not read (`ReadWhole`).
- `OrderKept` speaks of the playlist between passes, which says nothing of the playlist during a
  repair. `OrderInv` has a part for each phase: what is appended is newer than all that is there
  (`AppendsNewer`); originals stay in order ahead of their copies until they are retired
  (`OldOrder`); copies are staged in order behind whatever stays before them (`StagedOrder`); where
  entries are retired one by one the copies take over (`RetireOrder`); on Apple Music, where an
  entry comes back at the end, those that came back continue what stayed and those that are left
  will follow (`ComeBackOrder`). All of it is relative to the tracks the pass knows of, so no wanted
  track on the destination may be unknown to it (`Known`).
- The attempt to prove `OrderKept` found `ReplayKeepsOrder` (above), which `Displaces` now excludes.
  It also found that an earlier `Retire` had no step when a person had taken one of two copies.

`EdgeProof`, five components without common state, each for any values of its constants
(`DownloadsAssumption`; `BackupAssumption`; `ReadAssumption` and `ReadersAssumption`;
`SessionsAssumption`; `IdAssumption`, `BoundAssumption` and `TargetAssumption`), so for any
playlists and folders, accounts and schedules, page sizes, rotations, retry budgets and faults:

| Theorem | Statement |
|---|---|
| `LedgerIsTrueHolds` | `DownloadSpec => []LedgerIsTrue` |
| `OnlyLeaversDeletedHolds` | `DownloadSpec => OnlyLeaversDeleted` |
| `TasksFollowRowsHolds` | `BackupSpec => []TasksFollowRows` |
| `SavedIsThereHolds` | `BackupSpec => SavedIsThere` |
| `ReadsAreTrueHolds` | `ReadSpec => []ReadsAreTrue` |
| `OnlyPickedGoHolds` | `ReadSpec => OnlyPickedGo` |
| `SessionsHoldAlways` | `SessionSpec => []SessionsHold` |
| `AppendsHoldAlways` | `Spec => []AppendsHold` (of `TargetWrites`) |
| `KeepersKeptAlways` | `Spec => []KeepersKept` (of `TargetWrites`) |

- Of the downloads, `LedgerInv` adds that a snapshot which is current names the tracks there now
  (`SnapshotsKnown`), that what a pass has not recorded it has not changed (`RecordsKnown`), that a
  playlist with a name of its own has one folder whichever playlists a run selects (`FoldersKnown`),
  and where each track with a file of its own stands at each phase (`TracksAccounted`): on disk, deleted
  by this run, hurt, or still to be fetched. The attempt
  showed that the properties failed for tracks that share a file and playlists that share a name,
  which the instance did not have; they are now stated for the others.
- Of the backups, `SchedulersInShape` says that a task that was not cancelled is the one on the books
  of its account, and `WrittenIsThere` follows a run's file through pruning, which takes it only if as
  many later names as the retention keeps are there; nothing is assumed of the clock. The attempt found `SuccessIsOnDisk` (above).
- Of the reads, `Midway` counts, while a read is `sound`: entries passed by and missed are no more than removals; rows read
  twice, and rows read already that still stand ahead, no more than additions. Each edit moves at
  most one entry across the place of the read, which is what its lemma counts.
- Of the sessions, `GrantsIssued` and one part for each kind (`TidalSound`, `SpotifySound`,
  `CopiesSound`) say which paste every copy of a grant goes back to, and that the one a restart
  would take is accepted.
- Of the writes, `PlanInShape` says that appends are due in the order of the plan, `MarksInOrder`
  that those in the playlist are in that order, and `DueOnce` that a request which waits for its
  answer has not landed, or the client is able to tell. For Apple that rests on `AppleCounts`: the
  copies it counts are there, or a person took some. `AllAccounted` gives each append that is no
  longer due its trace or its reason. `KeepersSound` counts the copies to keep: those in the
  playlist and those yet to be appended again. The attempts found the second `AppendedOnce` and
  `UnflaggedPreserved` (above), which an earlier model, without errors that are no transport
  errors, could not show.

`SubsequenceProof` proves what `Kept` (the elements of a sequence that pass a test) returns: its
elements in their order, without new ones, no longer than the sequence, and distinct where it was;
and how the number of elements of a kind changes when a sequence grows or shrinks.

In each proof the inductive invariant is a conjunction of named parts, which TLC checked on the
instance of the run before it was proved; there is one lemma for each action, and under it a step
for each conjunct that the action can disturb. The assumptions about constants only give their
types and the finiteness of what people choose from; they allow an empty playlist, batches of any
size and no requests at all.

Everything else is model-checked only:

- the liveness properties (`Convergence`, `QueueMoves`, `KeepsRunning`, `Served`, `Settles`,
  `Converges`, `ReadEnds`, `Stops`, `CatchesUp`), which rest on fairness and ENABLED, out of the
  prover's reach;
- `SongStays`, which depends on how names and recordings correspond over a whole history: every
  action would have to preserve a relation between all names ever learned and the recordings
  behind them. `EvidenceIsReal`, the part of it that is about one pass, is proved.

## Not modelled

- String matching and scoring, the parsers of uploaded files and of provider responses: text
  heuristics of which a small instance says little. The models leave their outcomes open: any
  match may fail, any two names may be taken for one, any read may be partial.
- The event bus, settings, and the user interfaces: nothing else depends on what they deliver.
- Dry runs and previews, which write nothing; liked-track collections, which run the code that is
  modelled.
- The steps of the order repair inside `reconcile`: `Reconcile` has what it costs and what that puts
  off, and `Mirror` the planning and the replay it shares with one-way passes.
- Providers with static credentials in `Sessions`; searches in a catalog, beyond what they leave in
  the cache; tags, covers and playlists files of downloads.

## Plan

The modules are complete as far as the code can be modelled faithfully, and of the safety
properties of the runs all but `SongStays` are proved. What could follow:

1. `SongStays`, along `NamesInv`.
2. The variant of the chronology repair inside `reconcile`, where several peers add at once.
