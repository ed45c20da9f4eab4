------------------------------- MODULE Backups -------------------------------
(***************************************************************************)
(* services/playlist_backups.py: scheduled snapshots of whole accounts.    *)
(*                                                                         *)
(* Each account has at most one schedule, one scheduler task and one run.  *)
(* A run reads the account under the engine lock of SyncService, writes    *)
(* the snapshot in a worker thread, prunes what exceeds the retention and  *)
(* records the success.  The event loop is single-threaded: what happens   *)
(* between two awaits is one action; the file work of a run and the        *)
(* handlers that list and delete snapshots run in threads.                 *)
(***************************************************************************)
EXTENDS Integers, FiniteSets

CONSTANTS
  Account,
  Interval, Retention, Dir,   \* the settings a schedule may have (retention 0: keep all)
  Format,       \* the formats, numbered in the order of their extensions: json, xml
  Task,         \* scheduler tasks; bound: as many are live at one time
  NoTask,
  Stamp,        \* what the clock (whole seconds) may say; it may also be set back
  MaxRuns, MaxScheduleEdits, MaxDeletes, MaxBackupFaults   \* bounds

ASSUME BackupAssumption ==
  /\ {"free", "other"} \cap Account = {}
  /\ Interval # {} /\ Retention # {} /\ Dir # {} /\ Format # {}
  /\ 0 \notin Interval /\ NoTask \notin Task
  /\ Retention \subseteq Nat /\ Stamp \subseteq Nat /\ Format \subseteq Nat
  /\ {MaxRuns, MaxScheduleEdits, MaxDeletes, MaxBackupFaults} \subseteq Nat

VARIABLES
  store,     \* playlist_backups.json: store[a], a schedule
  life,      \* the service: "up", "stopping" or "down"
  sched,     \* _schedulers: sched[a], the task of a
  every,     \* _scheduler_intervals: the interval it was created for
  due,       \* _next_run: the interval the published time was computed from, or 0
  task,      \* the scheduler tasks
  run,       \* _runs, with where the run is
  lock,      \* the engine lock: "free", "other" or an account
  files,     \* files[a]: the snapshots on disk, each a folder and a name
  success,   \* last_success: success[a], a set with the file it names
  deleted,   \* deleted[a]: those a person has deleted
  scheduleEdits, deletes, backupFaults, runs   \* what is left of the bounds

stored == <<store, files, success, deleted>>
bounds == <<scheduleEdits, deletes, backupFaults, runs>>
service == <<life, sched, every, due, task>>
backupVars == <<store, life, sched, every, due, task, run, lock, files, success, deleted,
          scheduleEdits, deletes, backupFaults, runs>>

Schedule ==
  [there : BOOLEAN, on : BOOLEAN, every : Interval, keep : Retention, dir : Dir, as : Format]
(* A name: when it was read, the collision number (1: none), the format.   *)
Snapshot == [dir : Dir, at : Stamp, nth : Nat, as : Format]
FreeTask == [of |-> "none", at |-> "free", cancelled |-> FALSE]
NoBackup == [at |-> "none", keep |-> 0, dir |-> "none", as |-> 0, stamp |-> 0, file |-> {}]

BackupTypeOK ==
  /\ store \in [Account -> Schedule]
  /\ life \in {"up", "stopping", "down"}
  /\ sched \in [Account -> Task \cup {NoTask}]
  /\ every \in [Account -> Interval \cup {0}] /\ due \in [Account -> Interval \cup {0}]
  /\ \A t \in Task : task[t].at \in {"free", "new", "sleep"}
  /\ \A a \in Account :
       /\ run[a].at \in {"none", "queued", "waiting", "reading", "read", "written", "pruned", "done"}
       /\ files[a] \subseteq Snapshot /\ success[a] \subseteq Snapshot
       /\ (run[a].at = "reading") <=> (lock = a)
       /\ sched[a] # NoTask => task[sched[a]].of = a

BackupInit ==
  /\ store = [a \in Account |-> [there |-> FALSE, on |-> FALSE, every |-> CHOOSE i \in Interval : TRUE,
                                 keep |-> CHOOSE k \in Retention : TRUE,
                                 dir |-> CHOOSE d \in Dir : TRUE, as |-> CHOOSE k \in Format : TRUE]]
  /\ life = "up"
  /\ sched = [a \in Account |-> NoTask]
  /\ every = [a \in Account |-> 0] /\ due = [a \in Account |-> 0]
  /\ task = [t \in Task |-> FreeTask]
  /\ run = [a \in Account |-> NoBackup]
  /\ lock = "free"
  /\ files = [a \in Account |-> {}] /\ success = [a \in Account |-> {}]
  /\ deleted = [a \in Account |-> {}]
  /\ scheduleEdits = MaxScheduleEdits /\ deletes = MaxDeletes /\ backupFaults = MaxBackupFaults /\ runs = MaxRuns

------------------------------------------------------------------------------
(* reconcile: the schedulers follow the store.                             *)

Enabled(s, a) == s[a].there /\ s[a].on
Stale(s, a) == sched[a] # NoTask /\ ~(Enabled(s, a) /\ every[a] = s[a].every)

Reconcile(s) ==
  LET fresh == {a \in Account : Enabled(s, a) /\ (sched[a] = NoTask \/ Stale(s, a))}
      cancelled == {sched[a] : a \in {x \in Account : Stale(s, x)}}
      kept == {a \in Account : Enabled(s, a) /\ a \notin fresh}
  IN \E id \in [fresh -> {t \in Task : task[t].at = "free"}] :
       /\ \A a, b \in fresh : a # b => id[a] # id[b]
       /\ task' = [t \in Task |->
                     CASE t \in cancelled -> [task[t] EXCEPT !.cancelled = TRUE]
                       [] \E a \in fresh : id[a] = t ->
                            [of |-> CHOOSE a \in fresh : id[a] = t, at |-> "new", cancelled |-> FALSE]
                       [] OTHER -> task[t]]
       /\ sched' = [a \in Account |-> CASE a \in fresh -> id[a]
                                        [] a \in kept -> sched[a]
                                        [] OTHER -> NoTask]
       /\ every' = [a \in Account |-> IF a \in fresh THEN s[a].every
                                      ELSE IF a \in kept THEN every[a] ELSE 0]
       /\ due' = [a \in Account |-> IF a \in fresh THEN s[a].every
                                    ELSE IF a \in kept THEN due[a] ELSE 0]

(* PUT and DELETE of a schedule: the store and reconcile, with no await in *)
(* between.  The folder of an account cannot change while it is running.   *)
PutSchedule(a, s) ==
  /\ life = "up" /\ scheduleEdits > 0 /\ scheduleEdits' = scheduleEdits - 1
  /\ s.there
  /\ store[a].there /\ s.dir # store[a].dir => run[a].at = "none"
  /\ store' = [store EXCEPT ![a] = s]
  /\ Reconcile(store')
  /\ UNCHANGED <<life, run, lock, files, success, deleted, deletes, backupFaults, runs>>

Delete(a) ==
  /\ life = "up" /\ scheduleEdits > 0 /\ scheduleEdits' = scheduleEdits - 1
  /\ store[a].there
  /\ store' = [store EXCEPT ![a].there = FALSE]
  /\ Reconcile(store')
  /\ UNCHANGED <<life, run, lock, files, success, deleted, deletes, backupFaults, runs>>

------------------------------------------------------------------------------
(* _scheduler.                                                             *)

(* queue: at most one run of an account; none once the service stops.      *)
Queueable(a) == life = "up" /\ run[a].at \in {"none", "done"} /\ store[a].there
Queued(a) == [run EXCEPT ![a] = [NoBackup EXCEPT !.at = "queued"]]

(* The finally of a task: it clears the entries it still owns.             *)
OwnsAny(t) == TRUE   \* mutant: the retired task clears them whoever owns them
Owns(t) == sched[task[t].of] = t
Retire(t) ==
  LET a == task[t].of IN
  /\ task' = [task EXCEPT ![t] = FreeTask]
  /\ IF Owns(t)
     THEN /\ sched' = [sched EXCEPT ![a] = NoTask]
          /\ every' = [every EXCEPT ![a] = 0] /\ due' = [due EXCEPT ![a] = 0]
     ELSE UNCHANGED <<sched, every, due>>

(* The first step and the return to the head of the loop.                  *)
LoopHead(t, d) ==
  LET a == task[t].of IN
  IF life # "up" \/ ~Enabled(store, a) THEN Retire(t)
  ELSE /\ task' = [task EXCEPT ![t].at = "sleep"]
       /\ due' = [due EXCEPT ![a] = IF d = 0 THEN store[a].every ELSE d]
       /\ UNCHANGED <<sched, every>>

BeginScheduler(t) ==
  /\ task[t].at = "new" /\ ~task[t].cancelled
  /\ LoopHead(t, due[task[t].of])
  /\ UNCHANGED <<store, life, run, lock, files, success, deleted, bounds>>

(* The time has come: queue a run, publish the next time, sleep again.     *)
Wake(t) ==
  LET a == task[t].of IN
  /\ task[t].at = "sleep" /\ ~task[t].cancelled /\ runs > 0
  /\ IF life = "up"
     THEN /\ run' = IF Queueable(a) THEN Queued(a) ELSE run
          /\ runs' = runs - 1
          /\ LoopHead(t, store[a].every)
     ELSE Retire(t) /\ UNCHANGED <<run, runs>>
  /\ UNCHANGED <<store, life, lock, files, success, deleted, scheduleEdits, deletes, backupFaults>>

(* A cancellation is delivered at the next step of the task, whatever it   *)
(* was waiting for; a task that never began has no finally to run.         *)
Cancelled(t) ==
  /\ task[t].at # "free" /\ task[t].cancelled
  /\ IF task[t].at = "new"
     THEN task' = [task EXCEPT ![t] = FreeTask] /\ UNCHANGED <<sched, every, due>>
     ELSE Retire(t)
  /\ UNCHANGED <<store, life, run, lock, files, success, deleted, bounds>>

------------------------------------------------------------------------------
(* _execute, one run of an account.                                        *)

Ask(a) ==
  /\ runs > 0 /\ runs' = runs - 1
  /\ Queueable(a)
  /\ run' = Queued(a)
  /\ UNCHANGED <<stored, service, lock, scheduleEdits, deletes, backupFaults>>

At(a, here) == run[a].at = here
Goes(a, there) == run' = [run EXCEPT ![a].at = there]

(* The run takes its copy of the schedule and waits for the lock; without  *)
(* a schedule it ends.                                                     *)
BeginBackup(a) ==
  /\ At(a, "queued")
  /\ run' = [run EXCEPT ![a] = IF store[a].there
                               THEN [@ EXCEPT !.at = "waiting", !.keep = store[a].keep,
                                              !.dir = store[a].dir, !.as = store[a].as]
                               ELSE [@ EXCEPT !.at = "done"]]
  /\ UNCHANGED <<stored, service, lock, bounds>>

Acquire(a) ==
  /\ At(a, "waiting") /\ lock = "free"
  /\ lock' = a /\ Goes(a, "reading")
  /\ UNCHANGED <<stored, service, bounds>>

(* The export is read and stamped, to the second, by the wall clock.       *)
Read(a) ==
  /\ At(a, "reading")
  /\ lock' = "free"
  /\ \E s \in Stamp : run' = [run EXCEPT ![a].at = "read", ![a].stamp = s]
  /\ UNCHANGED <<stored, service, bounds>>

(* Mutant: the failing read keeps the lock.                                *)
FailHolding(a) ==
  /\ run[a].at \in {"reading", "read"}
  /\ backupFaults > 0 /\ backupFaults' = backupFaults - 1
  /\ Goes(a, "done")
  /\ UNCHANGED <<stored, service, lock, scheduleEdits, deletes, runs>>

(* A read, or a write, that fails is recorded as the last failure.         *)
Fail(a) ==
  /\ run[a].at \in {"reading", "read"}
  /\ backupFaults > 0 /\ backupFaults' = backupFaults - 1
  /\ lock' = IF lock = a THEN "free" ELSE lock
  /\ Goes(a, "done")
  /\ UNCHANGED <<stored, service, scheduleEdits, deletes, runs>>

(* write_snapshot: the lowest number free for the stamp and the format.    *)
In(a, d) == {f \in files[a] : f.dir = d}
Taken(a) == {f.nth : f \in {g \in In(a, run[a].dir) : g.at = run[a].stamp /\ g.as = run[a].as}}
FreeName(a) == CHOOSE n \in 1..(Cardinality(files[a]) + 1) :
                 n \notin Taken(a) /\ 1..(n - 1) \subseteq Taken(a)

Write(a) ==
  /\ At(a, "read")
  /\ LET f == [dir |-> run[a].dir, at |-> run[a].stamp, nth |-> FreeName(a), as |-> run[a].as]
     IN /\ files' = [files EXCEPT ![a] = @ \cup {f}]
        /\ deleted' = [deleted EXCEPT ![a] = @ \ {f}]
        /\ run' = [run EXCEPT ![a].at = "written", ![a].file = {f}]
  /\ UNCHANGED <<store, success, service, lock, bounds>>

(* Newest first, by stamp, collision number and then extension; what is    *)
(* beyond the retention goes, in the folder of this run only.              *)
Newer(f, g) ==
  \/ f.at > g.at
  \/ f.at = g.at /\ f.nth > g.nth
  \/ f.at = g.at /\ f.nth = g.nth /\ f.as > g.as
Older(f, g) == Newer(g, f)
BeyondOld(S, keep) == {f \in S : Cardinality({g \in S : Older(g, f)}) >= keep}   \* mutant
Beyond(S, keep) == {f \in S : Cardinality({g \in S : Newer(g, f)}) >= keep}

Prune(a) ==
  /\ At(a, "written")
  /\ files' = [files EXCEPT ![a] = IF run[a].keep = 0 THEN @
                                   ELSE @ \ Beyond(In(a, run[a].dir), run[a].keep)]
  /\ Goes(a, "pruned")
  /\ UNCHANGED <<store, success, deleted, service, lock, bounds>>

Record(a) ==
  /\ At(a, "pruned")
  /\ success' = [success EXCEPT ![a] = run[a].file]
  /\ Goes(a, "done")
  /\ UNCHANGED <<store, files, deleted, service, lock, bounds>>

(* The done callback of the task.                                          *)
Finished(a) ==
  /\ At(a, "done")
  /\ run' = [run EXCEPT ![a] = NoBackup]
  /\ UNCHANGED <<stored, service, lock, bounds>>

------------------------------------------------------------------------------
(* The rest of the program.                                                *)

(* A sync or a transfer takes the engine lock, and gives it back.          *)
OtherTakes ==
  /\ lock = "free" /\ life = "up" /\ runs > 0 /\ runs' = runs - 1
  /\ lock' = "other"
  /\ UNCHANGED <<stored, service, run, scheduleEdits, deletes, backupFaults>>

OtherFrees ==
  /\ lock = "other" /\ lock' = "free"
  /\ UNCHANGED <<stored, service, run, bounds>>

(* A person deletes a snapshot, of the folder selected now.                *)
DeleteSnapshot(a, f) ==
  /\ deletes > 0 /\ deletes' = deletes - 1
  /\ store[a].there /\ f.dir = store[a].dir
  /\ files' = [files EXCEPT ![a] = @ \ {f}] /\ deleted' = [deleted EXCEPT ![a] = @ \cup {f}]
  /\ UNCHANGED <<store, success, service, run, lock, scheduleEdits, backupFaults, runs>>

(* shutdown: the schedulers are cancelled, the runs are let finish.        *)
Shutdown ==
  /\ life = "up" /\ life' = "stopping"
  /\ task' = [t \in Task |-> IF \E a \in Account : sched[a] = t
                             THEN [task[t] EXCEPT !.cancelled = TRUE] ELSE task[t]]
  /\ sched' = [a \in Account |-> NoTask]
  /\ every' = [a \in Account |-> 0] /\ due' = [a \in Account |-> 0]
  /\ UNCHANGED <<stored, run, lock, bounds>>

Live(a) == run[a].at \notin {"none", "done"}

ShutDown ==
  /\ life = "stopping" /\ \A t \in Task : task[t].at = "free"
  /\ \A a \in Account : ~Live(a)
  /\ life' = "down"
  /\ UNCHANGED <<stored, sched, every, due, task, run, lock, bounds>>

(* start, after a shutdown.                                                *)
Start ==
  /\ life = "down" /\ life' = "up" /\ scheduleEdits > 0 /\ scheduleEdits' = scheduleEdits - 1
  /\ Reconcile(store)
  /\ UNCHANGED <<stored, run, lock, deletes, backupFaults, runs>>

(* The process dies and starts again: disk is all that is left.            *)
BackupCrash ==
  /\ life # "down" /\ backupFaults > 0 /\ backupFaults' = backupFaults - 1
  /\ life' = "down"
  /\ sched' = [a \in Account |-> NoTask]
  /\ every' = [a \in Account |-> 0] /\ due' = [a \in Account |-> 0]
  /\ task' = [t \in Task |-> FreeTask]
  /\ run' = [a \in Account |-> NoBackup] /\ lock' = "free"
  /\ UNCHANGED <<stored, scheduleEdits, deletes, runs>>

RunStep(a) == \/ BeginBackup(a) \/ Acquire(a) \/ Read(a) \/ Fail(a) \/ Write(a) \/ Prune(a)
              \/ Record(a) \/ Finished(a)

BackupNext ==
  \/ \E a \in Account : \/ \E s \in Schedule : PutSchedule(a, s)
                        \/ Delete(a) \/ Ask(a) \/ RunStep(a)
                        \/ \E f \in files[a] : DeleteSnapshot(a, f)
  \/ \E t \in Task : BeginScheduler(t) \/ Wake(t) \/ Cancelled(t)
  \/ OtherTakes \/ OtherFrees \/ Shutdown \/ ShutDown \/ Start \/ BackupCrash

BackupSpec == BackupInit /\ [][BackupNext]_backupVars

(* The event loop runs what is ready, the threads and the reads end, and   *)
(* the lock is handed to whoever waits: asyncio.Lock is first come, first  *)
(* served, hence strong fairness for a run that waits.                     *)
BackupFairness ==
  /\ \A t \in Task : WF_backupVars(BeginScheduler(t)) /\ WF_backupVars(Cancelled(t))
  /\ \A a \in Account :
       /\ WF_backupVars(BeginBackup(a)) /\ SF_backupVars(Acquire(a)) /\ WF_backupVars(Read(a) \/ Fail(a))
       /\ WF_backupVars(Write(a)) /\ WF_backupVars(Prune(a)) /\ WF_backupVars(Record(a)) /\ WF_backupVars(Finished(a))
  /\ WF_backupVars(OtherFrees) /\ WF_backupVars(ShutDown)

BackupFairSpec == BackupSpec /\ BackupFairness

------------------------------------------------------------------------------
(* An enabled schedule of a running service always has a scheduler of its  *)
(* own, not a cancelled one, that sleeps until the published time, and     *)
(* both were made for the interval in the store: a retired task takes      *)
(* nothing from its replacement.                                           *)
Scheduled ==
  \A a \in Account :
    life = "up" /\ Enabled(store, a) =>
      /\ sched[a] # NoTask /\ task[sched[a]].at # "free" /\ ~task[sched[a]].cancelled
      /\ every[a] = store[a].every /\ due[a] = store[a].every

(* The file a success names is on disk when the success is recorded,       *)
(* unless a person deleted it meanwhile.                                   *)
SuccessIsOnDisk ==
  [][\A a \in Account :
       success'[a] # success[a] => success'[a] \subseteq files[a] \cup deleted[a]]_backupVars

(* It is, or the folder has as many later names as the retention keeps:    *)
(* the age of a snapshot is its name, and the clock may have been set      *)
(* back, a number below one in use may have been free, or another format   *)
(* written in the same second may come later.                              *)
Later(f, S) == {g \in S : g.dir = f.dir /\ Newer(g, f)}
SavedIsThere ==
  [][\A a \in Account : success'[a] # success[a] =>
       LET there == files[a] \cup deleted[a] IN
       \A f \in success'[a] :
         f \in there \/ (run[a].keep > 0 /\ Cardinality(Later(f, there)) >= run[a].keep)]_backupVars

(* shutdown returns: no run and no scheduler is left behind.               *)
QuietWhenDown ==
  life = "down" => (\A a \in Account : ~Live(a)) /\ (\A t \in Task : task[t].at = "free")

(* Scheduler tasks follow the rows of the store, from start to shutdown.   *)
TasksFollowRows == BackupTypeOK /\ Scheduled /\ QuietWhenDown

(* Every shutdown returns, though a run may be waiting for the lock.       *)
Stops == life = "stopping" ~> life # "stopping"
=============================================================================
