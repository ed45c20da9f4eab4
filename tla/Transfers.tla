------------------------------ MODULE Transfers ------------------------------
(***************************************************************************)
(* services/transfers.py: one-off copies of a playlist, their conflict     *)
(* review, and the durable record services/transfer_history.py keeps of    *)
(* them.                                                                   *)
(*                                                                         *)
(* A transfer is an event-loop task that waits for the engine lock (its    *)
(* promise is EngineSlot, which SyncService implements) and then a worker  *)
(* thread.  What the loop does between two awaits is one action; the       *)
(* thread interleaves with it, and so does resolve(), a handler that runs  *)
(* in a thread of its own.                                                 *)
(***************************************************************************)
EXTENDS Integers, FiniteSets, Sequences, Functions, Subsequence

CONSTANTS
  NumJobs,      \* bound: transfers people may submit
  NumTracks,    \* the source playlist, oldest first
  Id,           \* the track ids of the destination's catalog
  NoId,         \* no id
  Match,        \* what the provider's resolver finds for each track, or NoId
  Refused,      \* the ids the provider declines to add
  BatchSize,    \* transfer_batch_size, or 0: everything in one write
  MaxRequests,  \* bound: what people ask of the service
  MaxFaults,    \* bound: exceptions out of a worker
  MaxRestarts   \* bound: restarts of the process

Job == 1..NumJobs
Track == 1..NumTracks
Sync == 0          \* another client of the engine, a sync pass
NoOne == -1
Existing == 0      \* a playlist people may choose as the destination; j is the one job j creates
NoPlaylist == -1
Playlist == 0..NumJobs

ASSUME TransfersAssumption ==
  /\ NumJobs \in Nat /\ NumTracks \in Nat /\ BatchSize \in Nat
  /\ MaxRequests \in Nat /\ MaxFaults \in Nat /\ MaxRestarts \in Nat
  /\ NoId \notin Id /\ Match \in [Track -> Id \cup {NoId}] /\ Refused \subseteq Id

VARIABLES
  (* each job in memory *)
  status,       \* "new" before submit(), "gone" after a restart
  control,
  dest,         \* the destination playlist, or NoPlaylist until it is created
  applying,     \* _apply_mode
  added,        \* the count people see
  conflict,     \* per track: "no" conflict, "open", "chosen" (resolved) or "applied", and the id
  (* the worker thread and the resolve() thread of each job *)
  worker, resolver,
  (* the engine lock *)
  holder, queue,
  (* files and providers *)
  hist,         \* transfer_history.db
  manual,       \* the choices in the destination account's cache file
  contents,     \* the ids on each playlist
  (* history *)
  copied,       \* what was written: <<playlist, track, id>>
  again,        \* an entry of copied was written once more
  confirmed,    \* per job: additions the provider confirmed
  created,      \* per job: playlists created (up to 2)
  since,        \* per job: writes sent since a button was accepted (up to 2)
  aborted,      \* per job: a stop was accepted, and no new start asked for since
  raced,        \* jobs of which a resolve() acted on what it had read before they went on
  (* bounded counters *)
  requests, faults, restarts

memory == <<status, control, dest, applying, added, conflict>>
lock == <<holder, queue>>
history == <<copied, again, confirmed, created, since, aborted>>
bounds == <<requests, faults, restarts>>
vars == <<memory, worker, resolver, lock, hist, manual, contents, history, raced, bounds>>

NoConflict == [state |-> "no", id |-> NoId]
NoChoice == [t \in Track |-> NoId]
Resting == [at |-> "none", apply |-> FALSE, pending |-> NoChoice, base |-> 0, adds |-> <<>>, whole |-> FALSE,
            written |-> 0, missed |-> {}, applied |-> {}, completed |-> TRUE]
NoResolver == [at |-> "none", track |-> 1, id |-> NoId, live |-> FALSE, snapshot |-> <<>>]
NoRecord == [status |-> "new", added |-> 0, dest |-> NoPlaylist]
Terminal == {"done", "error", "stopped"}

Counts == 0..(NumJobs * NumTracks * (MaxRequests + 1))
Record == [status : {"new", "queued", "running", "paused"} \cup Terminal, added : Counts,
           dest : Playlist \cup {NoPlaylist}]

TypeOK ==
  /\ status \in [Job -> {"new", "queued", "running", "paused", "gone"} \cup Terminal]
  /\ control \in [Job -> {"run", "pause", "stop"}]
  /\ dest \in [Job -> Playlist \cup {NoPlaylist}]
  /\ applying \in [Job -> BOOLEAN]
  /\ added \in [Job -> Counts]
  /\ conflict \in [Job -> [Track -> [state : {"no", "open", "chosen", "applied"},
                                     id : Id \cup {NoId}]]]
  /\ worker \in [Job -> [at : {"none", "setup", "match", "poll", "send", "ended", "failed"},
                         apply : BOOLEAN, pending : [Track -> Id \cup {NoId}], base : Counts, adds : Seq(Track \X Id),
                         whole : BOOLEAN, written : Counts, missed : SUBSET Track,
                         applied : SUBSET Track, completed : BOOLEAN]]
  /\ resolver \in [Job -> [at : {"none", "checked", "late", "saving"}, track : Track \cup {1},
                           id : Id \cup {NoId}, live : BOOLEAN, snapshot : Record \cup {<<>>}]]
  /\ holder \in Job \cup {Sync, NoOne}
  /\ queue \in Seq(Job \cup {Sync})
  /\ hist \in [Job -> Record]
  /\ manual \in [Track -> Id \cup {NoId}]
  /\ contents \in [Playlist -> SUBSET Id]
  /\ copied \in SUBSET (Playlist \X Track \X Id) /\ again \in BOOLEAN
  /\ confirmed \in [Job -> Counts]
  /\ created \in [Job -> 0..2] /\ since \in [Job -> 0..2]
  /\ aborted \in [Job -> BOOLEAN] /\ raced \in SUBSET Job
  /\ requests \in 0..MaxRequests /\ faults \in 0..MaxFaults /\ restarts \in 0..MaxRestarts

Slot == INSTANCE EngineSlot WITH Client <- Job \cup {Sync}, NoOne <- NoOne,
                                 holder <- holder, waiting <- queue

Init ==
  /\ status = [j \in Job |-> "new"] /\ control = [j \in Job |-> "run"]
  /\ dest = [j \in Job |-> NoPlaylist] /\ applying = [j \in Job |-> FALSE]
  /\ added = [j \in Job |-> 0] /\ conflict = [j \in Job |-> [t \in Track |-> NoConflict]]
  /\ worker = [j \in Job |-> Resting] /\ resolver = [j \in Job |-> NoResolver]
  /\ holder = NoOne /\ queue = <<>>
  /\ hist = [j \in Job |-> NoRecord] /\ manual = [t \in Track |-> NoId]
  /\ contents = [p \in Playlist |-> {}]
  /\ copied = {} /\ again = FALSE /\ confirmed = [j \in Job |-> 0]
  /\ created = [j \in Job |-> 0] /\ since = [j \in Job |-> 0]
  /\ aborted = [j \in Job |-> FALSE] /\ raced = {}
  /\ requests = 0 /\ faults = 0 /\ restarts = 0

Asked == requests < MaxRequests /\ requests' = requests + 1 /\ UNCHANGED <<faults, restarts>>

\* _record(): what history.save() reads of the job.
Snapshot(j) == [status |-> status[j], added |-> added[j], dest |-> dest[j]]
SavedLazily(j) ==  \* mutant: every save may be skipped, as those of progress may
  hist' \in {hist, [hist EXCEPT ![j] = Snapshot(j)']}
Saved(j) == hist' = [hist EXCEPT ![j] = Snapshot(j)']

-----------------------------------------------------------------------------
(* Life of a job. *)

\* The saved matches that are still to be applied.
Pending(j) == [t \in Track |-> IF conflict[j][t].state = "chosen" THEN conflict[j][t].id ELSE NoId]
\* The tracks a worker that applies them is limited to (only_keys).
Only(w) == {t \in Track : w.pending[t] # NoId}

\* Additions of earlier runs, which this one adds to.
Base(j) == added[j]

\* _execute, inside the lock: running, and its thread at work.
Starting(j, apply) ==
  [Resting EXCEPT !.at = "setup", !.base = Base(j), !.apply = apply,
                  !.pending = IF apply THEN Pending(j) ELSE NoChoice]

\* _schedule(): a task that asks for the lock and may get it at once.
Schedule(j, apply) ==
  /\ control' = [control EXCEPT ![j] = "run"]
  /\ Slot!Ask(j)
  /\ status' = [status EXCEPT ![j] = IF holder' = j THEN "running" ELSE "queued"]
  /\ worker' = [worker EXCEPT ![j] = IF holder' = j THEN Starting(j, apply) ELSE Resting]
  /\ resolver' = [resolver EXCEPT ![j].at = IF @ = "checked" THEN "late" ELSE @]
  /\ since' = [since EXCEPT ![j] = 0] /\ aborted' = [aborted EXCEPT ![j] = FALSE]

Submit(j) ==
  /\ Asked /\ status[j] = "new" /\ \A i \in Job : i < j => status[i] # "new"
  /\ \E p \in {Existing, NoPlaylist} : dest' = [dest EXCEPT ![j] = p]
  /\ UNCHANGED <<applying, added, conflict, manual, contents,
                 copied, again, confirmed, created, raced>>
  /\ Schedule(j, FALSE) /\ Saved(j)

Pause(j) ==
  /\ Asked /\ status[j] = "running"
  /\ control' = [control EXCEPT ![j] = "pause"]
  /\ UNCHANGED <<status, dest, applying, added, conflict, worker, resolver, lock, manual,
                 contents, history, raced>>
  /\ Saved(j)

Resume(j) ==
  /\ Asked /\ status[j] = "paused"
  /\ UNCHANGED <<dest, applying, added, conflict, manual, contents,
                 copied, again, confirmed, created, raced>>
  /\ Schedule(j, applying[j]) /\ Saved(j)

\* Conflicts come with the source snapshot and the destination the code asks for as well.
ApplyResolved(j) ==
  /\ Asked /\ status[j] \in Terminal /\ Pending(j) # NoChoice
  /\ applying' = [applying EXCEPT ![j] = TRUE]
  /\ UNCHANGED <<dest, added, conflict, manual, contents,
                 copied, again, confirmed, created, raced>>
  /\ Schedule(j, TRUE) /\ Saved(j)

\* Nothing runs for the job: it is over as soon as it is told to stop.
Withdrawn(j) == status[j] \in {"queued", "paused"}

Stop(j) ==
  /\ Asked /\ status[j] \in {"queued", "running", "paused"}
  /\ control' = [control EXCEPT ![j] = "stop"]
  /\ status' = [status EXCEPT ![j] = IF Withdrawn(j) THEN "stopped" ELSE @]
  /\ aborted' = [aborted EXCEPT ![j] = TRUE]
  /\ IF status[j] = "queued" THEN Slot!Withdraw({j}) ELSE UNCHANGED lock
  /\ UNCHANGED <<dest, applying, added, conflict, worker, resolver, manual, contents,
                 copied, again, confirmed, created, since, raced>>
  /\ Saved(j)

\* The lock is free: the first in the queue goes on.
Grant ==
  /\ Slot!Grant
  /\ IF holder' = Sync
     THEN UNCHANGED <<memory, worker, hist>>
     ELSE \E j \in {holder'} :
            /\ status' = [status EXCEPT ![j] = "running"]
            /\ worker' = [worker EXCEPT ![j] = Starting(j, applying[j])]
            /\ UNCHANGED <<control, dest, applying, added, conflict>>
            /\ Saved(j)
  /\ UNCHANGED <<resolver, manual, contents, history, raced, bounds>>

-----------------------------------------------------------------------------
(* The worker thread. *)

StoredDest(j) == [dest EXCEPT ![j] = j]

\* Finds the destination, or creates it.
Setup(j) ==
  /\ worker[j].at = "setup"
  /\ worker' = [worker EXCEPT ![j].at = "match"]
  /\ IF dest[j] = NoPlaylist
     THEN /\ dest' = StoredDest(j)
          /\ created' = [created EXCEPT ![j] = IF @ < 2 THEN @ + 1 ELSE @]
     ELSE UNCHANGED <<dest, created>>
  /\ UNCHANGED <<status, control, applying, added, conflict, resolver, lock, hist, manual, contents,
                 copied, again, confirmed, since, aborted, raced, bounds>>

\* A playlist whose id is not known was created by this run.
Target(j) == IF dest[j] = NoPlaylist THEN j ELSE dest[j]

\* The id to write for t: people's choice, else what the resolver finds.
Chosen(j, t) ==
  IF worker[j].pending[t] # NoId THEN worker[j].pending[t]
  ELSE IF manual[t] # NoId THEN manual[t] ELSE Match[t]

PresentNever(id, on) == FALSE  \* mutant: the destination's ids are not looked at
Present(id, on) == id \in on

\* What the walk leaves to do once n tracks were examined, less those seen by their metadata:
\* the rows to write, and the tracks that were missed or are there already.
Matched(j, n, seen, whole) ==
  LET w == worker[j]
      on == contents[Target(j)]
      examined == {t \in 1..n : w.apply => t \in Only(w)} \ seen
      found == {t \in examined : Chosen(j, t) # NoId}
      there == {t \in found : Present(Chosen(j, t), on)}
      missing == found \ there
      written == {t \in missing :
                    w.apply => \A s \in missing : s < t => Chosen(j, s) # Chosen(j, t)}
      Row(t) == <<t, Chosen(j, t)>>
      order == Kept([t \in Track |-> t], written)
      adds == [i \in DOMAIN order |-> Row(order[i])]
  IN [w EXCEPT !.at = IF adds = <<>> THEN "ended"
                      ELSE IF BatchSize = 0 \/ whole THEN "send" ELSE "poll",
               !.adds = adds, !.whole = whole \/ BatchSize = 0,
               !.missed = examined \ found, !.applied = there,
               !.completed = (n = NumTracks)]

\* Reads the destination, then walks through the source.  The control value never returns
\* to "run" while a worker is alive, so that all its polls come to one choice here: how many
\* tracks were examined.  A track counts as seen by its id, or by its metadata, which the
\* destination may show differently.
Examine(j) ==
  LET alike == IF worker[j].apply THEN {} ELSE {t \in Track : Match[t] \in contents[Target(j)]}
  IN
  /\ worker[j].at = "match"
  /\ \E n \in 0..NumTracks, seen \in SUBSET alike, whole \in BOOLEAN :
       /\ n < NumTracks => control[j] # "run"
       /\ worker' = [worker EXCEPT ![j] = Matched(j, n, seen, whole)]
  /\ UNCHANGED <<memory, resolver, lock, manual, contents, history, raced, bounds>>
  /\ Saved(j)

GoesOn(j) == TRUE  \* mutant: the control value is polled before matching only
Continues(j) == control[j] = "run"

\* Between two batches.
Poll(j) ==
  /\ worker[j].at = "poll"
  /\ worker' = IF Continues(j) THEN [worker EXCEPT ![j].at = "send"]
               ELSE [worker EXCEPT ![j].at = "ended", ![j].completed = FALSE]
  /\ UNCHANGED <<memory, resolver, lock, hist, manual, contents, history, raced, bounds>>

\* The next write: one batch, or everything when there are no batches or the order of the
\* destination is repaired on the way.
Batch(j) == LET adds == worker[j].adds IN
  IF worker[j].whole \/ Len(adds) <= BatchSize THEN adds ELSE SubSeq(adds, 1, BatchSize)

Put(j, rows) ==
  LET new == {<<Target(j), row[1], row[2]>> : row \in rows}
  IN /\ contents' = [contents EXCEPT ![Target(j)] = @ \cup {row[2] : row \in rows}]
     /\ again' = (again \/ new \cap copied # {})
     /\ copied' = copied \cup new
     /\ since' = [since EXCEPT ![j] = IF control[j] # "run" /\ @ < 2 THEN @ + 1 ELSE @]

\* _split_add_results: what the provider did not decline.
ConfirmedRows(rows) == {row \in rows : row[2] \notin Refused}

Send(j) ==
  LET w == worker[j]
      batch == Batch(j)
      rest == SubSeq(w.adds, Len(batch) + 1, Len(w.adds))
      taken == ConfirmedRows(Range(batch))
      refused == Range(batch) \ taken
      \* Conflicts that chose an id of this batch share its fate.
      Sharing(rows) == {t \in Track : \E row \in rows :
                          t = row[1] \/ (t \in Only(w) /\ Chosen(j, t) = row[2])}
  IN
  /\ w.at = "send"
  /\ Put(j, {row \in Range(batch) : row[2] \notin Refused})
  /\ added' = [added EXCEPT ![j] = w.base + w.written + Cardinality(taken)]
  /\ confirmed' = [confirmed EXCEPT ![j] = @ + Cardinality(taken)]
  /\ worker' = [worker EXCEPT
       ![j].at = IF rest = <<>> THEN "ended" ELSE "poll", ![j].adds = rest,
       ![j].written = @ + Cardinality(taken),
       ![j].missed = @ \cup Sharing(refused),
       ![j].applied = IF w.apply THEN @ \cup Sharing(taken) ELSE @]
  /\ UNCHANGED <<status, control, dest, applying, conflict, resolver, lock, manual,
                 created, aborted, raced, bounds>>
  \* Progress is saved at most once per second.
  /\ Saved(j) \/ UNCHANGED hist

\* An exception, in the middle of a write perhaps.
Fail(j) ==
  /\ faults < MaxFaults /\ worker[j].at \in {"setup", "match", "send"}
  /\ faults' = faults + 1
  /\ worker' = [worker EXCEPT ![j].at = "failed"]
  /\ IF worker[j].at = "send"
     THEN \E rows \in SUBSET {row \in Range(Batch(j)) : row[2] \notin Refused} : Put(j, rows)
     ELSE UNCHANGED <<contents, copied, again, since>>
  /\ UNCHANGED <<memory, resolver, lock, hist, manual, confirmed, created, aborted, raced,
                 requests, restarts>>

Verdict(j) ==
  IF worker[j].at = "failed" THEN "error"
  ELSE IF worker[j].completed THEN "done"
  ELSE IF control[j] = "stop" THEN "stopped" ELSE "paused"

ReleasedUnlessFailed(j) ==  \* mutant: an exception leaves the lock held
  IF worker[j].at = "failed" THEN UNCHANGED lock ELSE Slot!Release
Released(j) == Slot!Release

\* The task takes the result of its thread.
Conclude(j) ==
  LET w == worker[j]
      Reviewed(t) == IF ~w.apply
                     THEN IF t \in w.missed THEN [NoConflict EXCEPT !.state = "open"] ELSE NoConflict
                     ELSE IF t \in Only(w) \cap w.applied THEN [conflict[j][t] EXCEPT !.state = "applied"]
                     ELSE IF t \in Only(w) \cap w.missed THEN [conflict[j][t] EXCEPT !.state = "open"]
                     ELSE conflict[j][t]
  IN
  /\ w.at \in {"ended", "failed"}
  /\ status' = [status EXCEPT ![j] = Verdict(j)]
  /\ conflict' = IF w.at = "failed" THEN conflict
                 ELSE [conflict EXCEPT ![j] = [t \in Track |-> Reviewed(t)]]
  \* A copy lists its conflicts anew: resolve() may be left with one of the old list.
  /\ resolver' = [resolver EXCEPT ![j].live = @ /\ (w.at = "failed" \/ w.apply)]
  /\ worker' = [worker EXCEPT ![j] = Resting]
  /\ Released(j)
  /\ UNCHANGED <<control, dest, applying, added, manual, contents, history, raced, bounds>>
  /\ Saved(j)

-----------------------------------------------------------------------------
(* resolve(), in a thread of the server. *)

CheckResolve(j, t) ==
  /\ Asked /\ resolver[j].at = "none"
  /\ status[j] \in {"paused"} \cup Terminal
  /\ conflict[j][t].state \in {"open", "chosen"}
  /\ \E id \in Id : resolver' = [resolver EXCEPT ![j] =
       [NoResolver EXCEPT !.at = "checked", !.track = t, !.id = id, !.live = TRUE]]
  /\ UNCHANGED <<memory, worker, lock, hist, manual, contents, history, raced>>

\* The choice goes into the cache file and the conflict; history.save() reads the job ...
StoreChoice(j) ==
  LET r == resolver[j] IN
  /\ r.at \in {"checked", "late"}
  /\ manual' = [manual EXCEPT ![r.track] = r.id]
  /\ conflict' = IF r.live
                 THEN [conflict EXCEPT ![j][r.track].state =
                         IF @ = "applied" THEN @ ELSE "chosen", ![j][r.track].id = r.id]
                 ELSE conflict
  /\ resolver' = [resolver EXCEPT ![j].at = "saving", ![j].snapshot = Snapshot(j)]
  /\ raced' = IF r.at = "late" THEN raced \cup {j} ELSE raced
  /\ UNCHANGED <<status, control, dest, applying, added, worker, lock, hist, contents, history,
                 bounds>>

\* ... and, when it gets the database, writes what it read.
SaveChoice(j) ==
  /\ resolver[j].at = "saving"
  /\ hist' = [hist EXCEPT ![j] = resolver[j].snapshot]
  /\ raced' = IF resolver[j].snapshot = Snapshot(j) THEN raced ELSE raced \cup {j}
  /\ resolver' = [resolver EXCEPT ![j] = NoResolver]
  /\ UNCHANGED <<memory, worker, lock, manual, contents, history, bounds>>

-----------------------------------------------------------------------------
(* The rest of the system. *)

SyncAsks == Asked /\ Slot!Ask(Sync)
  /\ UNCHANGED <<memory, worker, resolver, hist, manual, contents, history, raced>>

\* A sync pass adds what it likes to the existing playlist.
SyncEnds ==
  /\ holder = Sync /\ Slot!Release
  /\ \E ids \in SUBSET Id : contents' = [contents EXCEPT ![Existing] = @ \cup ids]
  /\ UNCHANGED <<memory, worker, resolver, hist, manual, history, raced, bounds>>

\* The process ends, at any moment, and recover_history() closes what was under way.
Restart ==
  /\ restarts < MaxRestarts /\ restarts' = restarts + 1
  /\ hist' = [j \in Job |-> IF status[j] = "new" \/ hist[j].status \in Terminal THEN hist[j]
                            ELSE [hist[j] EXCEPT !.status = "error"]]
  /\ status' = [j \in Job |-> IF status[j] = "new" THEN "new" ELSE "gone"]
  /\ control' = [j \in Job |-> "run"] /\ dest' = [j \in Job |-> NoPlaylist]
  /\ applying' = [j \in Job |-> FALSE] /\ added' = [j \in Job |-> 0]
  /\ conflict' = [j \in Job |-> [t \in Track |-> NoConflict]]
  /\ worker' = [j \in Job |-> Resting] /\ resolver' = [j \in Job |-> NoResolver]
  /\ Slot!Reset
  /\ aborted' = [j \in Job |-> FALSE] /\ since' = [j \in Job |-> 0] /\ raced' = {}
  /\ UNCHANGED <<manual, contents, copied, again, confirmed, created, requests, faults>>

People == \E j \in Job :
  Submit(j) \/ Pause(j) \/ Resume(j) \/ ApplyResolved(j) \/ Stop(j) \/ \E t \in Track : CheckResolve(j, t)
Thread(j) == Setup(j) \/ Examine(j) \/ Poll(j) \/ Send(j) \/ Conclude(j)
Resolver(j) == StoreChoice(j) \/ SaveChoice(j)
Next ==
  \/ People \/ Grant \/ SyncAsks \/ SyncEnds \/ Restart
  \/ \E j \in Job : Thread(j) \/ Resolver(j) \/ Fail(j)

Spec == Init /\ [][Next]_vars

\* The event loop grants the lock, and workers and passes end (provider calls time out).
FairSpec == Spec /\ WF_vars(Grant) /\ WF_vars(SyncEnds) /\ \A j \in Job : WF_vars(Thread(j))

-----------------------------------------------------------------------------
\* Whatever buttons were pressed, a job is running exactly while it holds the lock and its
\* thread is alive: never two workers, and none for a job that is queued, paused or over.
RunningHoldsSlot == \A j \in Job :
  /\ status[j] = "running" <=> holder = j
  /\ status[j] = "running" <=> worker[j].at # "none"

\* A transfer creates at most one playlist, however often it is paused and resumed.
OneDestination == \A j \in Job : created[j] <= 1

\* No track is copied twice with the same id into the same playlist: not by resuming, not by
\* applying matches after a failure, not by another copy into it.
CopiedOnce == ~again

\* Pausing, resuming, failing and applying matches start no second worker, playlist or copy.
NothingTwice == RunningHoldsSlot /\ OneDestination /\ CopiedOnce

\* The count people see is the number of additions confirmed over all runs of the job, and
\* the durable one never claims more.
AddedIsConfirmed == \A j \in Job :
  /\ status[j] # "gone" => added[j] = confirmed[j]
  /\ hist[j].added <= confirmed[j]

\* A match shown as applied is on the destination, unless it was saved by a resolve() that
\* had been let in before the job went on.
AppliedIsThere == \A j \in Job \ raced, t \in Track :
  conflict[j][t].state = "applied" => conflict[j][t].id \in contents[dest[j]]

\* The record of a job that nothing works on is the job's state, under the same condition.
HistoryFollows == \A j \in Job \ raced :
  status[j] \in {"paused"} \cup Terminal => hist[j] = Snapshot(j)

\* What people are told of a transfer is true: its count, its matches and its durable record.
ReportsHold == TypeOK /\ AddedIsConfirmed /\ AppliedIsThere /\ HistoryFollows

\* Once a pause or stop was accepted at most one more write is sent.
HaltsSoon == \A j \in Job : since[j] <= 1

\* A queued transfer gets its turn or is stopped.
Served == \A j \in Job : status[j] = "queued" ~> status[j] # "queued"

\* "Abort a transfer for good": it is not resumable once it was told to stop.
StopIsForGood == \A j \in Job : aborted[j] => status[j] # "paused"
=============================================================================
