------------------------------- MODULE Imports -------------------------------
(***************************************************************************)
(* services/imports.py: one playlist import, from the parsed list through  *)
(* matching and review to the playlist it writes, with the rows that       *)
(* engine/archive.py keeps of it.                                          *)
(*                                                                         *)
(* Handlers run on the event loop between two awaits and are one action    *)
(* each.  A worker is a task that waits for the engine lock (EngineSlot)   *)
(* and then a thread, whose steps end where it reads or writes something   *)
(* that others see: the control entry, the database, the provider.         *)
(***************************************************************************)
EXTENDS Integers, FiniteSets, Sequences

CONSTANTS
  NumTracks,     \* lines of the imported list
  Invalid,       \* the lines without a title and an artist
  Id, NoId,      \* ids of the destination's catalog
  None,          \* nothing is found
  Match,         \* what matching may find for each track: an id, NoId when unsure, None
  Refused,       \* the ids the provider declines to add
  BatchSize,     \* ids written together
  NumWorkers,    \* bound: tasks and threads alive at once
  MaxPlaylists,  \* bound: playlists created
  MaxRequests,   \* bound: what people and schedules ask of the service
  MaxFaults      \* bound: exceptions, failed reads and ends of the process

Track == 1..NumTracks
Worker == 1..NumWorkers
Sync == 0          \* another client of the engine lock
NoOne == -1
Existing == 0      \* a playlist people may choose; the others are created here
NoPlaylist == -1
Playlist == 0..MaxPlaylists

ASSUME ImportsAssumption ==
  /\ {NumTracks, BatchSize, NumWorkers} \subseteq Nat \ {0}
  /\ {MaxPlaylists, MaxRequests, MaxFaults} \subseteq Nat
  /\ {NoId, None} \cap Id = {} /\ NoId # None
  /\ Match \in [Track -> SUBSET (Id \cup {NoId, None})]
  /\ Refused \subseteq Id /\ Invalid \subseteq Track

VARIABLES
  (* the rows of playlist_import and playlist_import_track *)
  status,       \* "none" before it is submitted, "deleted" when its rows are gone
  phase,        \* options.resume_phase
  append,       \* destination_mode = "append"
  dest,         \* destination_playlist_id, or NoPlaylist
  row,          \* per track: decision, resolved_target_id, write_status
  (* the service *)
  control,      \* _controls, "absent" without an entry
  current,      \* _tasks
  deleting,     \* delete_job() waits for the worker
  closing,      \* the event loop has ended, threads go on
  worker,
  (* the engine lock *)
  holder, queue,
  (* the provider *)
  contents,     \* the ids on each playlist
  created,      \* playlists created so far
  (* history *)
  forgotten,    \* created playlists the job lost: a crash, or people chose another one
  again,        \* an id was added to a playlist that had it, by a worker that had read it
  put,          \* per track: where and as what it was when it was called added or present
  touched,      \* tracks people decided on, or matching, since the import was last done
  contested,    \* tracks people decided on while a worker was matching
  overruled,    \* tracks whose choice by people was replaced by a match
  late,         \* writes sent since people cancelled (up to 2)
  (* bounded counters *)
  requests, faults

rows == <<status, phase, append, dest, row>>
service == <<control, current, deleting, closing>>
lock == <<holder, queue>>
provider == <<contents, created>>
history == <<forgotten, again, put, touched, contested, overruled, late>>
bounds == <<requests, faults>>
vars == <<rows, service, worker, lock, provider, history, bounds>>

Busy == {"matching", "creating"}
Decided == {"skipped", "selected"}   \* "approved" is treated as "selected" everywhere
WriteDone == {"added", "already_present", "skipped"}

Fresh == [decision |-> "auto", id |-> NoId, write |-> "pending"]
Row == [decision : {"auto", "unmatched"} \cup Decided, id : Id \cup {NoId},
        write : {"pending", "failed"} \cup WriteDone]

\* read is what the worker knows of the rows, found the match it has still to save.
Free == [at |-> "free", kind |-> "match", orphan |-> FALSE, read |-> [t \in Track |-> Fresh], i |-> 1,
         found |-> Fresh, playlist |-> NoPlaylist, existing |-> {}, blind |-> FALSE,
         pending |-> {}, landed |-> {}, good |-> FALSE, bad |-> FALSE, halt |-> "no"]

WorkerRecord ==
  [at : {"free", "queued", "open", "store", "read", "walk", "save", "add",
         "written", "halt", "check", "finish", "ended", "raised"},
   kind : {"match", "create"}, orphan : BOOLEAN, read : [Track -> Row], i : 1..(NumTracks + 1),
   found : Row, playlist : Playlist \cup {NoPlaylist}, existing : SUBSET Id, blind : BOOLEAN,
   pending : SUBSET Track, landed : SUBSET Id, good : BOOLEAN, bad : BOOLEAN,
   halt : {"no", "pause", "cancel"}]

TypeOK ==
  /\ status \in {"none", "ready", "paused", "done", "failed", "cancelled", "deleted"} \cup Busy
  /\ phase \in {"none", "match", "create"} /\ append \in BOOLEAN
  /\ dest \in Playlist \cup {NoPlaylist}
  /\ row \in [Track -> Row]
  /\ control \in {"absent", "run", "pause", "cancel"} /\ current \in Worker \cup {NoOne}
  /\ deleting \in BOOLEAN /\ closing \in BOOLEAN
  /\ worker \in [Worker -> WorkerRecord]
  /\ holder \in Worker \cup {Sync, NoOne} /\ queue \in Seq(Worker \cup {Sync})
  /\ contents \in [Playlist -> SUBSET Id] /\ created \in 0..MaxPlaylists
  /\ forgotten \in Nat /\ again \in BOOLEAN /\ late \in 0..2
  /\ put \in [Track -> (Playlist \X Id) \cup {<<>>}] /\ touched \subseteq Track /\ contested \subseteq Track /\ overruled \subseteq Track
  /\ requests \in 0..MaxRequests /\ faults \in 0..MaxFaults

Slot == INSTANCE EngineSlot WITH Client <- Worker \cup {Sync}, NoOne <- NoOne,
                                 holder <- holder, waiting <- queue

Init ==
  /\ status = "none" /\ phase = "none" /\ append = FALSE /\ dest = NoPlaylist
  /\ row = [t \in Track |-> Fresh]
  /\ control = "absent" /\ current = NoOne /\ deleting = FALSE /\ closing = FALSE
  /\ worker = [w \in Worker |-> Free]
  /\ holder = NoOne /\ queue = <<>>
  /\ contents \in [Playlist -> SUBSET (Id \ Refused)] /\ created = 0
  /\ \A p \in Playlist \ {Existing} : contents[p] = {}
  /\ forgotten = 0 /\ again = FALSE /\ put = [t \in Track |-> <<>>] /\ touched = {} /\ contested = {} /\ overruled = {} /\ late = 0
  /\ requests = 0 /\ faults = 0

Live == {w \in Worker : worker[w].at # "free"}

-----------------------------------------------------------------------------
(* What people ask for. *)

Asked == ~closing /\ requests < MaxRequests /\ requests' = requests + 1 /\ UNCHANGED faults

\* A task and its place in the queue for the engine.
Spawn(kind) ==
  \E w \in Worker :
    /\ worker[w].at = "free" /\ \A v \in Worker : v < w => worker[v].at # "free"
    /\ Slot!Ask(w)
    /\ worker' = [worker EXCEPT ![w] =
         [Free EXCEPT !.kind = kind, !.at = IF holder' = w THEN "open" ELSE "queued"]]
    /\ current' = w

StartMatching ==
  /\ status \notin Busy \cup {"done", "cancelled"}
  /\ status' = "matching" /\ phase' = "match" /\ control' = "run" /\ Spawn("match")

\* From text or a file, to be looked at first; from a link, matched at once.
Submit ==
  /\ Asked /\ status = "none"
  /\ append' \in BOOLEAN /\ dest' = IF append' THEN Existing ELSE NoPlaylist
  /\ \/ status' = "ready" /\ UNCHANGED <<phase, control, current, worker, lock>>
     \/ StartMatching
  /\ UNCHANGED <<row, deleting, closing, provider, history>>

MatchAgain ==
  /\ Asked /\ status \in {"ready", "paused", "failed"} /\ StartMatching
  /\ UNCHANGED <<append, dest, row, deleting, closing, provider, history>>

Writable(r) == r.write \notin WriteDone /\ r.decision \notin {"skipped", "unmatched"} /\ r.id # NoId

CreatePlaylist ==
  LET writable == \E t \in Track : Writable(row[t])
      written == \E t \in Track : row[t].write \in WriteDone
  IN
  /\ status \in {"ready", "paused", "failed"} /\ (writable \/ written)
  /\ IF writable
     THEN /\ status' = "creating" /\ phase' = "create" /\ control' = "run" /\ Spawn("create")
          /\ UNCHANGED touched
     ELSE status' = "done" /\ touched' = {} /\ UNCHANGED <<phase, control, current, worker, lock>>

Create ==
  /\ Asked /\ CreatePlaylist
  /\ UNCHANGED <<append, dest, row, deleting, closing, provider,
                 forgotten, again, put, contested, overruled, late>>

\* _all_tracks_matched
AllMatched == \A t \in Track :
  row[t].decision \in Decided \cup {"unmatched"} \/ t \in Invalid \/ row[t].id # NoId

Resume ==
  /\ Asked /\ status \in {"paused", "failed"}
  /\ IF phase = "create" \/ (phase = "none" /\ AllMatched) THEN CreatePlaylist
     ELSE StartMatching /\ UNCHANGED touched
  /\ UNCHANGED <<append, dest, row, deleting, closing, provider,
                 forgotten, again, put, contested, overruled, late>>

PhaseOf(s) == IF s = "creating" THEN "create" ELSE "match"

Pause ==
  /\ Asked /\ status \in Busy
  /\ control' = "pause" /\ status' = "paused"
  /\ phase' = PhaseOf(status)
  /\ UNCHANGED <<append, dest, row, current, deleting, closing, worker, lock, provider, history>>

Cancel ==
  /\ Asked /\ status \notin {"none", "done", "cancelled", "deleted"}
  /\ control' = "cancel" /\ status' = "cancelled"
  /\ UNCHANGED <<phase, append, dest, row, current, deleting, closing, worker, lock, provider, history>>

\* A choice for one track in review: a candidate, a pasted id, skip, or back to automatic.
Decide(t) ==
  /\ Asked /\ status \notin {"none", "deleted"} \cup Busy
  /\ \E r \in [decision : {"selected"}, id : Id]
              \cup [decision : {"skipped", "unmatched"}, id : {NoId}]
              \cup [decision : {"auto"}, id : Id \cup {NoId}] :
       row' = [row EXCEPT ![t].decision = r.decision, ![t].id = r.id]
  /\ touched' = touched \cup {t}
  /\ contested' = IF \E w \in Live : worker[w].kind = "match" THEN contested \cup {t} ELSE contested
  /\ UNCHANGED <<status, phase, append, dest, service, worker, lock, provider,
                 forgotten, again, put, overruled, late>>

\* update_job(): another destination, or, unless appending, none.
Retarget ==
  /\ Asked /\ status \notin {"none", "deleted"} \cup Busy
  /\ dest' \in {Existing} \cup (IF append THEN {} ELSE {NoPlaylist}) /\ dest' # dest
  /\ forgotten' = IF dest \in {Existing, NoPlaylist} THEN forgotten ELSE forgotten + 1
  /\ UNCHANGED <<status, phase, append, row, service, worker, lock, provider,
                 again, put, touched, contested, overruled, late>>

\* delete_job(): a job that is being worked on is cancelled and given half a second.
Delete ==
  /\ Asked /\ status \notin {"none", "deleted"} /\ ~deleting
  /\ IF status \in Busy
     THEN deleting' = TRUE /\ control' = "cancel" /\ UNCHANGED <<status, current>>
     ELSE /\ status' = "deleted" /\ UNCHANGED deleting
          /\ IF current = NoOne THEN control' = "absent" ELSE UNCHANGED control
          /\ UNCHANGED current
  /\ UNCHANGED <<phase, append, dest, row, closing, worker, lock, provider, history>>

DeleteRows ==
  /\ deleting /\ deleting' = FALSE /\ status' = "deleted"
  /\ control' = IF current = NoOne THEN "absent" ELSE control
  /\ UNCHANGED <<phase, append, dest, row, current, closing, worker, lock, provider, history, bounds>>

-----------------------------------------------------------------------------
(* The worker. *)

Grant ==
  /\ ~closing /\ Slot!Grant
  /\ worker' = IF holder' = Sync THEN worker ELSE [worker EXCEPT ![holder'].at = "open"]
  /\ UNCHANGED <<rows, service, provider, history, bounds>>

\* A deleted job has no rows that could be updated.
SetStatus(s) == status' = IF status = "deleted" THEN status ELSE s
SetRow(new) == row' = IF status = "deleted" THEN row ELSE [t \in Track |-> IF t \in DOMAIN new THEN new[t] ELSE row[t]]

Over(me, at) == [Free EXCEPT !.at = at, !.kind = me.kind, !.orphan = me.orphan]

\* Reads the job; a new playlist is created on the provider ...
Open(w) ==
  LET me == worker[w]
      opened == [me EXCEPT !.read = row]
  IN
  /\ me.at = "open"
  /\ IF status = "deleted"
     THEN worker' = [worker EXCEPT ![w] = Over(me, "ended")] /\ UNCHANGED provider
     ELSE IF me.kind = "match"
     THEN worker' = [worker EXCEPT ![w] = [opened EXCEPT !.at = "walk"]] /\ UNCHANGED provider
     ELSE IF dest # NoPlaylist
     THEN worker' = [worker EXCEPT ![w] = [opened EXCEPT !.at = "read", !.playlist = dest]] /\ UNCHANGED provider
     ELSE /\ created < MaxPlaylists /\ created' = created + 1 /\ UNCHANGED contents
          /\ worker' = [worker EXCEPT ![w] = [opened EXCEPT !.at = "store", !.playlist = created']]
  /\ UNCHANGED <<rows, service, lock, history, bounds>>

StoreNever(w) == dest  \* mutant: the id is stored when the run is over
StoreDest(w) == IF status = "deleted" THEN dest ELSE worker[w].playlist

\* ... and its id is stored before anything is written to it.
Store(w) ==
  /\ worker[w].at = "store"
  /\ dest' = StoreDest(w)
  /\ worker' = [worker EXCEPT ![w].at = "read"]
  /\ UNCHANGED <<status, phase, append, row, service, lock, provider, history, bounds>>

ReadPlaylist(w) == contents[worker[w].playlist]

\* _existing_playlist_ids, which makes do without when the read fails.
ReadExisting(w) ==
  /\ worker[w].at = "read"
  /\ \/ /\ worker' = [worker EXCEPT ![w].at = "walk", ![w].existing = ReadPlaylist(w)]
        /\ UNCHANGED faults
     \/ /\ faults < MaxFaults /\ faults' = faults + 1
        /\ worker' = [worker EXCEPT ![w].at = "walk", ![w].blind = TRUE]
  /\ UNCHANGED <<rows, service, lock, provider, history, requests>>

Ids(me, some) == {me.read[t].id : t \in some}

KeepsAuto(r) == r.decision = "skipped"  \* mutant: matching passes over skipped tracks only
KeepsChoice(r) == r.decision \in Decided

\* One track of a matching run.  
MatchTrack(me) ==
  LET t == me.i
      Next(found) == [me EXCEPT !.at = "save", !.found = found]
      Unmatched == [Fresh EXCEPT !.decision = "unmatched"]
      Auto(id) == [Fresh EXCEPT !.id = id]
  IN IF KeepsChoice(me.read[t]) THEN {[me EXCEPT !.i = t + 1]}
     ELSE IF t \in Invalid THEN {Next(Unmatched)}
     ELSE {Next(IF found = None THEN Unmatched ELSE Auto(found)) : found \in Match[t]}

\* One track of a writing run: the state of the worker after it, and its write status.
Skips(me) == me.read[me.i].decision \in {"skipped", "unmatched"} \/ me.read[me.i].id = NoId
WriteTrack(me) ==
  LET t == me.i
      r == me.read[t]
      on == [me EXCEPT !.i = t + 1]
  IN IF r.write \in WriteDone THEN <<[on EXCEPT !.good = @ \/ r.write # "skipped"], r.write>>
     ELSE IF Skips(me) THEN <<on, "skipped">>
     ELSE IF r.id \in me.existing THEN <<[on EXCEPT !.good = TRUE], "already_present">>
     ELSE <<[on EXCEPT !.pending = @ \cup {t},
                       !.at = IF Cardinality(Ids(me, me.pending \cup {t})) >= BatchSize THEN "add" ELSE @], r.write>>

CompletesHalf(me) == "check"  \* mutant: what is left of the last batch is not written
Completes(me) == IF me.pending # {} THEN "add" ELSE "check"

Walk(w) ==
  LET me == worker[w]
      t == me.i
  IN
  /\ me.at = "walk"
  /\ IF t > NumTracks
     THEN worker' = [worker EXCEPT ![w].at = Completes(me)] /\ UNCHANGED row
     ELSE IF control \in {"pause", "cancel"}
     \* A pause writes what was gathered first.
     THEN /\ worker' = [worker EXCEPT ![w].halt = control,
                ![w].at = IF control = "pause" /\ me.pending # {} THEN "add" ELSE "halt"]
          /\ UNCHANGED row
     ELSE IF me.kind = "match"
     THEN (\E next \in MatchTrack(me) : worker' = [worker EXCEPT ![w] = next]) /\ UNCHANGED row
     ELSE LET step == WriteTrack(me) IN
          /\ worker' = [worker EXCEPT ![w] = step[1]]
          /\ IF step[2] = me.read[t].write THEN UNCHANGED row
             ELSE SetRow([s \in {t} |-> [row[t] EXCEPT !.write = step[2]]])
  /\ put' = [s \in Track |-> IF row'[s].write = "already_present" /\ row[s].write # "already_present"
                            THEN <<me.playlist, me.read[s].id>> ELSE put[s]]
  /\ UNCHANGED <<status, phase, append, dest, service, lock, provider,
                 forgotten, again, touched, contested, overruled, late, bounds>>

\* The match of one track is saved, whatever the row says by now.
Save(w) ==
  LET me == worker[w]
      t == me.i
  IN
  /\ me.at = "save"
  /\ SetRow([s \in {t} |-> [me.found EXCEPT !.write = row[t].write]])
  /\ touched' = touched \cup {t}
  /\ overruled' = IF status # "deleted" /\ row[t].decision \in Decided THEN overruled \cup {t} ELSE overruled
  /\ worker' = [worker EXCEPT ![w].at = "walk", ![w].i = t + 1, ![w].found = Fresh]
  /\ UNCHANGED <<status, phase, append, dest, service, lock, provider,
                 forgotten, again, put, contested, late, bounds>>

\* The provider adds ids, in one call; an exception may come after some of them.
Added(w, ids) ==
  LET me == worker[w] IN
  /\ contents' = [contents EXCEPT ![me.playlist] = @ \cup ids]
  /\ again' = (again \/ (~me.blind /\ ids \cap contents[me.playlist] # {}))
  /\ late' = IF status = "cancelled" /\ late < 2 THEN late + 1 ELSE late

Add(w) ==
  LET me == worker[w]
      ids == Ids(me, me.pending)
  IN
  /\ me.at = "add"
  /\ \/ /\ Added(w, ids \ Refused) /\ UNCHANGED faults
        /\ worker' = [worker EXCEPT ![w].at = "written", ![w].landed = ids \ Refused]
     \/ /\ faults < MaxFaults /\ faults' = faults + 1
        /\ \E some \in SUBSET (ids \ Refused) : Added(w, some)
        /\ worker' = [worker EXCEPT ![w].at = "written", ![w].landed = {}, ![w].blind = TRUE]
  /\ UNCHANGED <<rows, service, lock, created, forgotten, put, touched, contested, overruled,
                 requests>>

\* The first position with an id was added, others with the same id were present.
Wrote(me) == [t \in me.pending |->
  IF me.read[t].id \notin me.landed THEN "failed"
  ELSE IF \A s \in me.pending : me.read[s].id = me.read[t].id => s >= t THEN "added"
  ELSE "already_present"]

Written(w) ==
  LET me == worker[w]
      wrote == Wrote(me)
  IN
  /\ me.at = "written"
  /\ SetRow([t \in me.pending |-> [row[t] EXCEPT !.write = wrote[t]]])
  /\ worker' = [worker EXCEPT
       ![w].at = IF me.halt # "no" THEN "halt" ELSE "walk",
       ![w].existing = @ \cup me.landed, ![w].pending = {}, ![w].landed = {},
       ![w].good = @ \/ \E t \in me.pending : wrote[t] # "failed",
       ![w].bad = @ \/ \E t \in me.pending : wrote[t] = "failed"]
  /\ put' = [t \in Track |-> IF t \in me.pending /\ wrote[t] # "failed"
                            THEN <<me.playlist, me.read[t].id>> ELSE put[t]]
  /\ UNCHANGED <<status, phase, append, dest, service, lock, provider,
                 forgotten, again, touched, contested, overruled, late, bounds>>

\* Paused or cancelled: the status says so.
Halt(w) ==
  LET me == worker[w] IN
  /\ me.at = "halt"
  /\ SetStatus(IF me.halt = "cancel" THEN "cancelled" ELSE "paused")
  /\ phase' = IF me.halt = "pause" THEN me.kind ELSE phase
  /\ worker' = [worker EXCEPT ![w] = Over(me, "ended")]
  /\ UNCHANGED <<append, dest, row, service, lock, provider, history, bounds>>

\* A last look at the control entry.
Check(w) ==
  LET me == worker[w] IN
  /\ me.at = "check"
  /\ worker' = [worker EXCEPT ![w] =
       IF me.kind = "create" /\ me.bad /\ ~me.good THEN Over(me, "raised")
       ELSE IF me.kind = "create" THEN Over(me, IF control = "cancel" THEN "ended" ELSE "finish")
       ELSE IF control \in {"cancel", "pause"} THEN [Over(me, "halt") EXCEPT !.halt = control]
       ELSE Over(me, "finish")]
  /\ UNCHANGED <<rows, service, lock, provider, history, bounds>>

Finish(w) ==
  /\ worker[w].at = "finish"
  /\ SetStatus(IF worker[w].kind = "match" THEN "ready" ELSE "done")
  /\ touched' = IF worker[w].kind = "create" THEN {} ELSE touched
  /\ worker' = [worker EXCEPT ![w] = Over(@, "ended")]
  /\ UNCHANGED <<phase, append, dest, row, service, lock, provider,
                 forgotten, again, put, contested, overruled, late, bounds>>

\* Not connected, not found, not signed in: an exception out of the thread.
Fail(w) ==
  /\ worker[w].at \in {"open", "walk", "store"} /\ faults < MaxFaults /\ faults' = faults + 1
  /\ worker' = [worker EXCEPT ![w] = Over(@, "raised")]
  /\ forgotten' = IF worker[w].at = "store" THEN forgotten + 1 ELSE forgotten
  /\ UNCHANGED <<rows, service, lock, provider, again, put, touched, contested, overruled, late,
                 requests>>

FailedNever(w) == status  \* mutant: an exception ends the task silently
Failed(w) == IF worker[w].at = "raised" /\ status # "deleted" THEN "failed" ELSE status

\* The task leaves the lock and forgets the job's entries, whoever set them.
Conclude(w) ==
  /\ worker[w].at \in {"ended", "raised"}
  /\ worker' = [worker EXCEPT ![w] = Free]
  /\ IF worker[w].orphan
     THEN UNCHANGED <<status, control, current, lock>>
     ELSE /\ status' = Failed(w) /\ control' = "absent" /\ current' = NoOne
          /\ Slot!Release
  /\ UNCHANGED <<phase, append, dest, row, deleting, closing, provider, history, bounds>>

Thread(w) == Open(w) \/ Store(w) \/ ReadExisting(w) \/ Walk(w) \/ Save(w) \/ Add(w) \/ Written(w)
             \/ Halt(w) \/ Check(w) \/ Finish(w) \/ Conclude(w)

-----------------------------------------------------------------------------
(* The rest of the system. *)

SyncAsks ==
  /\ Asked /\ Slot!Ask(Sync)
  /\ UNCHANGED <<rows, service, worker, provider, history>>

SyncEnds ==
  /\ holder = Sync /\ Slot!Release
  /\ \E ids \in SUBSET (Id \ Refused) : contents' = [contents EXCEPT ![Existing] = @ \cup ids]
  /\ UNCHANGED <<rows, service, worker, created, history, bounds>>

\* The event loop ends and cancels its tasks; their threads run on to their end.
LoopEnds ==
  /\ ~closing /\ faults < MaxFaults /\ closing' = TRUE
  /\ status' = IF Live # {} /\ status # "deleted" THEN "cancelled" ELSE status
  /\ control' = IF Live # {} THEN "absent" ELSE control
  /\ current' = NoOne /\ deleting' = FALSE
  /\ worker' = [w \in Worker |-> IF worker[w].at \in {"free", "queued"} THEN Free
                                 ELSE [worker[w] EXCEPT !.orphan = TRUE]]
  /\ Slot!Reset
  /\ UNCHANGED <<phase, append, dest, row, provider, history, bounds>>

\* The process is gone, at any moment; the next start closes what was under way, and
\* cleanup_old_jobs() deletes what ended a month ago.
Restart ==
  /\ faults < MaxFaults /\ faults' = faults + 1
  /\ \/ status' = IF status \in Busy THEN "failed" ELSE status
     \/ status \in {"done", "cancelled", "failed"} /\ status' = "deleted"
  /\ control' = "absent" /\ current' = NoOne /\ deleting' = FALSE /\ closing' = FALSE
  /\ worker' = [w \in Worker |-> Free]
  /\ Slot!Reset
  /\ forgotten' = forgotten + Cardinality({w \in Worker : worker[w].at = "store"})
  /\ UNCHANGED <<phase, append, dest, row, provider, again, put, touched, contested, overruled, late,
                 requests>>

People == Submit \/ MatchAgain \/ Create \/ Resume \/ Pause \/ Cancel \/ Retarget \/ Delete
          \/ \E t \in Track : Decide(t)
Next ==
  \/ People \/ DeleteRows \/ Grant \/ SyncAsks \/ SyncEnds \/ LoopEnds \/ Restart
  \/ \E w \in Worker : Thread(w) \/ Fail(w)

Spec == Init /\ [][Next]_vars

\* The event loop serves timers and the lock; passes and threads end (provider calls time out).
FairSpec == Spec /\ WF_vars(Grant) /\ WF_vars(SyncEnds) /\ WF_vars(DeleteRows)
                 /\ \A w \in Worker : WF_vars(Thread(w))

-----------------------------------------------------------------------------
\* One import creates one playlist, unless its id was lost between the creation and the
\* store, or people changed the destination.
OnePlaylist == created <= 1 + forgotten

\* A worker never adds an id to a playlist that has it, however often the import was paused,
\* failed or restarted, unless it could not read the playlist or a write of its own failed.
AddedOnce == ~again

\* Whatever is paused, failed or restarted, an import does nothing on the provider twice.
WritesOnce == OnePlaylist /\ AddedOnce

\* What the rows call added or present is on the playlist it was written to.
AddedIsThere == \A t \in Track : row[t].write \in {"added", "already_present"} =>
  put[t] # <<>> /\ put[t][2] \in contents[put[t][1]]

\* An import that is done left no track unwritten that was to be written: what is pending was
\* not to be written then, or was decided on or matched since.  (A matching run that was paused
\* may still save a track when people ask for the playlist and the import is called done.)
DoneIsComplete == status = "done" => \A t \in Track \ touched : row[t].write = "pending" => ~Writable(row[t])

\* What an import shows of its tracks is what the destination playlist has.
RowsAreTrue == TypeOK /\ AddedIsThere /\ DoneIsComplete

\* Matching never replaces what people chose while no matching was under way.
ChoicesKept == overruled \subseteq contested

\* While the process lives, an import that is being matched or written gets to an end.
Settles == status \in Busy ~> status \notin Busy \/ closing

\* A cancelled import is not written to by an orphaned worker: one write may be under way.
CancelStops == late <= 1
=============================================================================
