------------------------------ MODULE SyncService ------------------------------
(***************************************************************************)
(* services/sync_service.py: sync jobs, each with a scheduler task, manual *)
(* runs and other engine clients, all serialized on one asyncio lock.      *)
(*                                                                         *)
(* The event loop is single-threaded: what happens between two awaits is   *)
(* one action.  The engine pass itself runs in a worker thread            *)
(* (asyncio.to_thread), which goes on whatever becomes of the task that    *)
(* awaits it.  Each HTTP handler of web/routers/syncs.py is one action     *)
(* too: store change and reconcile() have no await that yields.            *)
(***************************************************************************)
EXTENDS Integers, FiniteSets, Sequences, Functions, Subsequence

CONSTANTS
  NumJobs,      \* sync jobs, numbered in the order of the store
  Merge,        \* the merge jobs that have no destination playlist yet
  Task,         \* the event-loop tasks; bound: as many, with their threads, live at one time
  NoTask,       \* no task
  Dead,         \* a finished task, where the schedulers are listed
  MaxRequests,  \* bound: what people ask of the service
  MaxRestarts   \* bound: restarts of the process

Job == 1..NumJobs
None == 0

ASSUME SyncAssumption ==
  /\ NumJobs \in Nat /\ MaxRequests \in Nat /\ MaxRestarts \in Nat
  /\ Merge \subseteq Job
  /\ NoTask \notin Task /\ Dead \notin Task /\ NoTask # Dead

VARIABLES
  (* syncs.json and settings *)
  store,        \* store[j]: "new" (not created yet), "off", "on" or "deleted"
  dest,         \* the merge jobs whose destination id is stored
  master,       \* AUTO_SYNC
  (* the service *)
  stopping, schedulers, active, runningJob, control, interrupted,
  (* the event loop: its tasks, and who waits for the lock *)
  task, queue,
  (* the engine threads *)
  worker,
  (* history *)
  pressed,      \* the buttons pressed since the current pass began
  made,         \* made[j]: destination playlists created for j (up to 2)
  lost,         \* merge jobs with a pass whose result was an error or met nobody to take it
  (* bounded counters *)
  requests, restarts

durable == <<store, dest, master>>
service == <<stopping, schedulers, active, runningJob, control, interrupted>>
history == <<pressed, made, lost>>
bounds == <<requests, restarts>>
vars == <<durable, service, task, queue, worker, history, bounds>>

\* A task: what it runs, where it awaits, whether it has been cancelled, the `enabled` its
\* copy of a merge job has while that copy lacks a destination, and run_all's jobs to come.
Idle == [kind |-> "none", job |-> None, at |-> "none", cancelled |-> FALSE,
         creating |-> "no", rest |-> {}]
NoThread == [at |-> "none", outcome |-> "run", made |-> FALSE]
Running == [at |-> "running", outcome |-> "run", made |-> FALSE]

TypeOK ==
  /\ store \in [Job -> {"new", "off", "on", "deleted"}]
  /\ dest \in SUBSET Merge
  /\ master \in BOOLEAN /\ stopping \in BOOLEAN
  /\ schedulers \in [Job -> Task \cup {NoTask, Dead}]
  /\ active \in SUBSET Job
  /\ runningJob \in Job \cup {None}
  /\ control \in {"run", "pause", "stop"}
  /\ interrupted \in [Job -> {"no", "paused", "stopped"}]
  /\ task \in [Task -> [kind : {"none", "scheduler", "run", "exclusive"},
                        job : Job \cup {None},
                        at : {"none", "sleep", "queued", "slot"},
                        cancelled : BOOLEAN,
                        creating : {"no", "off", "on"},
                        rest : SUBSET Job]]
  /\ queue \in Seq(Task)
  /\ worker \in [Task -> [at : {"none", "running", "ended"},
                          outcome : {"run", "pause", "stop", "error"},
                          made : BOOLEAN]]
  /\ pressed \in SUBSET (Job \X {"pause", "stop"})
  /\ made \in [Job -> 0..2]
  /\ lost \in SUBSET Merge
  /\ requests \in 0..MaxRequests /\ restarts \in 0..MaxRestarts

Exists(j) == store[j] \in {"off", "on"}
Holding == {t \in Task : task[t].at = "slot"}
SlotFreeUnheld == queue = <<>>  \* mutant: the holder is not looked at
SlotFreeOvertaking == Holding = {}  \* mutant: nobody is asked who waits
SlotFree == Holding = {} /\ queue = <<>>
\* A slot of the bound is free again once its task is over and its thread too.
Free == {t \in Task : task[t] = Idle /\ worker[t] = NoThread}
Least(S) == CHOOSE x \in S : \A y \in S : x <= y

Sleeping(j) == [Idle EXCEPT !.kind = "scheduler", !.job = j, !.at = "sleep"]
Scheduled(jobs, on) == IF on THEN {j \in Job : jobs[j] = "on"} ELSE {}

\* The thread of t runs or has run a pass that may create, or has created, j's destination.
Awaited(t, j) ==
  /\ worker[t].at = "running" \/ worker[t].made
  /\ task[t].job = j /\ task[t].creating # "no"

\* start(): a scheduler for every enabled job, in the tasks new names.
Listed(first, new) == [j \in Job |-> IF j \in first THEN new[j] ELSE NoTask]
Started(first, new, others) == [t \in Task |->
  IF \E j \in first : new[j] = t THEN Sleeping(CHOOSE j \in first : new[j] = t) ELSE others[t]]

Init ==
  /\ store \in [Job -> {"new", "off", "on"}] /\ dest = {} /\ master \in BOOLEAN
  /\ stopping = FALSE
  /\ LET first == Scheduled(store, master) IN
       \E new \in Injection(first, Task) :
         /\ schedulers = Listed(first, new)
         /\ task = Started(first, new, [t \in Task |-> Idle])
  /\ active = {} /\ runningJob = None
  /\ control = "run" /\ interrupted = [j \in Job |-> "no"]
  /\ queue = <<>> /\ worker = [t \in Task |-> NoThread]
  /\ pressed = {} /\ made = [j \in Job |-> 0] /\ lost = {} /\ requests = 0 /\ restarts = 0

\* Somebody asks something of a service that is up.
Asked == ~stopping /\ requests < MaxRequests /\ requests' = requests + 1 /\ UNCHANGED restarts

-----------------------------------------------------------------------------
(* Schedulers. *)

\* asyncio.Lock: a waiter whose task is cancelled gives up its place.
UncancelledNever(q, marked) == q  \* mutant: cancelled waiters stay
Uncancelled(q, marked) == Kept(q, Task \ marked)

\* reconcile(), with the store, the switch and the stopping flag it finds: cancels the
\* scheduler of every job it does not want and starts those that are not listed.
Reconcile(jobs, on, stop) ==
  LET want == Scheduled(jobs, on /\ ~stop)
      dropped == {j \in Job \ want : schedulers[j] # NoTask}
      added == {j \in want : schedulers[j] = NoTask}
      marked == {schedulers[j] : j \in dropped}
  IN \E new \in Injection(added, Free) :
       /\ schedulers' = [j \in Job |-> IF j \in dropped THEN NoTask
                                       ELSE IF j \in added THEN new[j] ELSE schedulers[j]]
       /\ task' = Started(added, new, [t \in Task |->
            IF t \in marked THEN [task[t] EXCEPT !.cancelled = TRUE] ELSE task[t]])
       /\ queue' = Uncancelled(queue, marked)

Shutdown ==
  /\ ~stopping
  /\ stopping' = TRUE
  /\ Reconcile(store, FALSE, TRUE)
  /\ UNCHANGED <<durable, active, runningJob, control, interrupted, worker, history, bounds>>

\* The process ends, at any moment, and another one starts: only the files remain.
Restart ==
  /\ restarts < MaxRestarts
  /\ restarts' = restarts + 1
  /\ LET first == Scheduled(store, master) IN
       \E new \in Injection(first, Task) :
         /\ schedulers' = Listed(first, new)
         /\ task' = Started(first, new, [t \in Task |-> Idle])
  /\ stopping' = FALSE /\ active' = {} /\ runningJob' = None
  /\ control' = "run" /\ interrupted' = [j \in Job |-> "no"]
  /\ queue' = <<>> /\ worker' = [t \in Task |-> NoThread]
  /\ lost' = lost \cup {j \in Merge : \E t \in Task : Awaited(t, j)}
  /\ pressed' = {}
  /\ UNCHANGED <<durable, made, requests>>

\* create_sync, update_sync and delete_sync; an id that was deleted is never given again.
Edit(j) ==
  /\ Asked
  /\ \E to \in {"off", "on", "deleted"} \ {store[j]} :
       /\ IF to = "deleted" THEN Exists(j) ELSE store[j] = "new" \/ Exists(j)
       /\ store' = [store EXCEPT ![j] = to]
       /\ Reconcile(store', master, FALSE)
  /\ UNCHANGED <<dest, master, stopping, active, runningJob, control, interrupted, worker, history>>

\* The dashboard's switch.
Schedule ==
  /\ Asked
  /\ master' = ~master
  /\ Reconcile(store, master', FALSE)
  /\ UNCHANGED <<store, dest, stopping, active, runningJob, control, interrupted, worker, history>>

-----------------------------------------------------------------------------
(* run_job *)

\* Past the early returns: the job exists and no run of it is active.
Runs(j) == Exists(j) /\ j \notin active

\* The caller gets to the lock, while the service's state is s, and takes it at once or
\* queues; in the first case the pass begins.
Begin(t, caller, s) ==
  LET j == caller.job IN
  /\ active' = s.active \cup {j}
  /\ task' = [task EXCEPT ![t] = [caller EXCEPT !.at = IF s.free THEN "slot" ELSE "queued"]]
  /\ queue' = IF s.free THEN queue ELSE Append(queue, t)
  /\ worker' = [worker EXCEPT ![t] = IF s.free THEN Running ELSE NoThread]
  /\ runningJob' = IF s.free THEN j ELSE s.running
  /\ interrupted' = IF s.free THEN [s.interrupted EXCEPT ![j] = "no"] ELSE s.interrupted
  /\ control' = IF s.free THEN "run" ELSE control
  /\ pressed' = IF s.free THEN {} ELSE s.pressed

Now == [active |-> active, running |-> runningJob, interrupted |-> interrupted,
        pressed |-> pressed, free |-> SlotFree]

CallerBlind(kind, j, execute, rest) ==  \* mutant: the stored destination is not seen
  [Idle EXCEPT !.kind = kind, !.job = j, !.rest = rest,
               !.creating = IF execute /\ j \in Merge THEN store[j] ELSE "no"]
\* The caller and its copy of the job, read before it waits for the lock.
Caller(kind, j, execute, rest) ==
  [Idle EXCEPT !.kind = kind, !.job = j, !.rest = rest,
               !.creating = IF execute /\ j \in Merge \ dest THEN store[j] ELSE "no"]

\* POST /api/syncs/{id}/run
Run(j) ==
  /\ Asked /\ Runs(j)
  /\ \E t \in Free, execute \in BOOLEAN : Begin(t, Caller("run", j, execute, {}), Now)
  /\ UNCHANGED <<durable, stopping, schedulers, made, lost>>

\* POST /api/sync/run: every enabled job in turn, in execute mode.
RunAll ==
  /\ Asked
  /\ LET enabled == {j \in Job : store[j] = "on"}
         runnable == {j \in enabled : Runs(j)}
         first == Least(runnable)
     IN /\ runnable # {}
        /\ \E t \in Free :
             Begin(t, Caller("run", first, TRUE, {j \in enabled : j > first}), Now)
  /\ UNCHANGED <<durable, stopping, schedulers, made, lost>>

Resume(j) ==
  /\ Asked /\ interrupted[j] = "paused" /\ Runs(j)
  /\ \E t \in Free : Begin(t, Caller("run", j, TRUE, {}), Now)
  /\ UNCHANGED <<durable, stopping, schedulers, made, lost>>

LoopHeadOnce(t, j, jobs) ==  \* mutant: the scheduler runs its job once
  task' = [task EXCEPT ![t] = Idle] /\ UNCHANGED schedulers
\* The scheduler's loop, after run_job and before the next sleep.
LoopHead(t, j, jobs) ==
  IF ~stopping /\ jobs[j] = "on"
  THEN task' = [task EXCEPT ![t] = Sleeping(j)] /\ UNCHANGED schedulers
  ELSE task' = [task EXCEPT ![t] = Idle] /\ schedulers' = [schedulers EXCEPT ![j] = Dead]

\* A wall-clock boundary of the job.
Wake(t) ==
  LET j == task[t].job IN
  /\ task[t].at = "sleep" /\ ~task[t].cancelled
  /\ IF Runs(j)
     THEN Begin(t, Caller("scheduler", j, TRUE, {}), Now) /\ UNCHANGED schedulers
     ELSE /\ LoopHead(t, j, store)
          /\ UNCHANGED <<active, runningJob, control, interrupted, queue, worker, pressed>>
  /\ UNCHANGED <<durable, stopping, made, lost, bounds>>

\* The lock is free and the first in the queue goes on.
Grant(t) ==
  LET j == task[t].job IN
  /\ Holding = {} /\ queue # <<>> /\ Head(queue) = t /\ task[t].at = "queued"
  /\ queue' = Tail(queue)
  /\ task' = [task EXCEPT ![t].at = "slot"]
  /\ worker' = [worker EXCEPT ![t] = Running]
  /\ IF task[t].kind = "exclusive"
     THEN UNCHANGED <<runningJob, control, interrupted, pressed>>
     ELSE /\ runningJob' = j /\ control' = "run"
          /\ interrupted' = [interrupted EXCEPT ![j] = "no"]
          /\ pressed' = {}
  /\ UNCHANGED <<durable, stopping, schedulers, active, made, lost, bounds>>

PressAny(j, button) ==  \* mutant: any job can be paused
  /\ Asked
  /\ control' = button
  /\ pressed' = pressed \cup {<<j, button>>}
  /\ UNCHANGED <<durable, stopping, schedulers, active, runningJob, interrupted, task, queue,
                 worker, made, lost>>
\* Only the job that is running can be paused or stopped.
Press(j, button) ==
  /\ Asked /\ runningJob = j
  /\ control' = button
  /\ pressed' = pressed \cup {<<j, button>>}
  /\ UNCHANGED <<durable, stopping, schedulers, active, runningJob, interrupted, task, queue,
                 worker, made, lost>>
Pause(j) == Press(j, "pause")
Stop(j) == Press(j, "stop")

-----------------------------------------------------------------------------
(* The engine threads. *)

\* _run_merge creates the destination its job has no id for.
CreateDestination(t, j) ==
  /\ worker[t].at = "running" /\ ~worker[t].made /\ j \in Merge
  /\ task[t].creating # "no" /\ task[t].job = j
  /\ worker' = [worker EXCEPT ![t].made = TRUE]
  /\ made' = [made EXCEPT ![j] = IF @ < 2 THEN @ + 1 ELSE @]
  /\ UNCHANGED <<durable, service, task, queue, pressed, lost, bounds>>

\* A pass ends with what it last read of the control value, or raises; what becomes of it
\* is nobody's concern once its task was cancelled.
EndThread(t) ==
  /\ worker[t].at = "running"
  /\ IF task[t].at = "slot"
     THEN /\ \E read \in {"run", control} :
               worker' = [worker EXCEPT ![t].at = "ended", ![t].outcome = read]
          /\ UNCHANGED task
     ELSE /\ worker' = [worker EXCEPT ![t] = NoThread]
          /\ task' = [task EXCEPT ![t] = Idle]
  /\ UNCHANGED <<durable, service, queue, history, bounds>>

FailThread(t) ==
  /\ worker[t].at = "running" /\ task[t].at = "slot"
  /\ worker' = [worker EXCEPT ![t].at = "ended", ![t].outcome = "error"]
  /\ UNCHANGED <<durable, service, task, queue, history, bounds>>

\* What a job's last pass counts as, by the way it ended.
Cut(outcome) == CASE outcome = "pause" -> "paused"
                  [] outcome = "stop" -> "stopped"
                  [] OTHER -> "no"

\* The awaiting task takes the result: a created destination is stored with the copy of the
\* job the pass began with.
Finish(t) ==
  LET j == task[t].job
      stored == worker[t].made /\ worker[t].outcome # "error"
      jobs == IF stored THEN [store EXCEPT ![j] = task[t].creating] ELSE store
      after == [active |-> active \ {j}, running |-> None, pressed |-> {}, free |-> queue = <<>>,
                interrupted |-> [interrupted EXCEPT ![j] = Cut(worker[t].outcome)]]
      rest == {i \in task[t].rest : jobs[i] \in {"off", "on"} /\ i \notin after.active}
  IN
  /\ task[t].at = "slot" /\ task[t].kind # "exclusive" /\ worker[t].at = "ended"
  /\ ~task[t].cancelled
  /\ store' = jobs
  /\ dest' = IF stored THEN dest \cup {j} ELSE dest
  /\ lost' = IF worker[t].made /\ ~stored THEN lost \cup {j} ELSE lost
  /\ IF rest # {}
     THEN LET next == Least(rest)
          IN /\ Begin(t, [Caller("run", next, TRUE, {i \in task[t].rest : i > next})
                          EXCEPT !.creating = IF next \in Merge \ dest' THEN jobs[next] ELSE "no"],
                      after)
             /\ UNCHANGED schedulers
     ELSE /\ IF task[t].kind = "scheduler" THEN LoopHead(t, j, jobs)
             ELSE task' = [task EXCEPT ![t] = Idle] /\ UNCHANGED schedulers
          /\ active' = after.active /\ runningJob' = None /\ interrupted' = after.interrupted
          /\ worker' = [worker EXCEPT ![t] = NoThread]
          /\ pressed' = {}
          /\ UNCHANGED <<control, queue>>
  /\ UNCHANGED <<master, stopping, made, bounds>>

\* CancelledError out of the await the task is in: the sleep, the lock or the thread.  The
\* finally clauses run; the thread does not notice.
DeliverCancel(t) ==
  LET j == task[t].job IN
  /\ task[t].cancelled
  /\ task' = [task EXCEPT ![t] = IF task[t].at = "slot" /\ worker[t].at = "running"
                                 THEN [Idle EXCEPT !.job = j, !.creating = task[t].creating]
                                 ELSE Idle]
  /\ active' = IF task[t].at = "sleep" THEN active ELSE active \ {j}
  /\ runningJob' = IF task[t].at = "slot" THEN None ELSE runningJob
  /\ worker' = [worker EXCEPT ![t] = IF @.at = "running" THEN @ ELSE NoThread]
  /\ lost' = lost \cup {i \in Merge : Awaited(t, i)}
  /\ pressed' = IF task[t].at = "slot" THEN {} ELSE pressed
  /\ UNCHANGED <<durable, stopping, schedulers, control, interrupted, queue, made, bounds>>

-----------------------------------------------------------------------------
(* Transfers, imports and backups: engine_slot() and run_exclusive(). *)

Exclusive ==
  /\ Asked
  /\ \E t \in Free :
       LET caller == [Idle EXCEPT !.kind = "exclusive"] IN
       /\ task' = [task EXCEPT ![t] = [caller EXCEPT !.at = IF SlotFree THEN "slot" ELSE "queued"]]
       /\ queue' = IF SlotFree THEN queue ELSE Append(queue, t)
       /\ worker' = [worker EXCEPT ![t] = IF SlotFree THEN Running ELSE NoThread]
  /\ UNCHANGED <<durable, service, history>>

LeaveSlot(t) ==
  /\ task[t].kind = "exclusive" /\ task[t].at = "slot" /\ worker[t].at = "ended"
  /\ task' = [task EXCEPT ![t] = Idle]
  /\ worker' = [worker EXCEPT ![t] = NoThread]
  /\ UNCHANGED <<durable, service, queue, history, bounds>>

\* Stopping a queued transfer cancels its task.
WithdrawExclusive(t) ==
  /\ Asked
  /\ task[t].kind = "exclusive" /\ task[t].at = "queued"
  /\ queue' = Uncancelled(queue, {t})
  /\ task' = [task EXCEPT ![t] = Idle]
  /\ UNCHANGED <<durable, service, worker, history>>

People ==
  \/ \E j \in Job : Edit(j) \/ Run(j) \/ Resume(j) \/ Pause(j) \/ Stop(j)
  \/ Schedule \/ RunAll \/ Exclusive \/ Shutdown \/ Restart
  \/ \E t \in Task : WithdrawExclusive(t) \/ FailThread(t)
Progress(t) ==
  \/ Wake(t) \/ Grant(t) \/ Finish(t) \/ DeliverCancel(t) \/ EndThread(t) \/ LeaveSlot(t)
Creation == \E t \in Task, j \in Merge : CreateDestination(t, j)

Next == People \/ Creation \/ \E t \in Task : Progress(t)
Spec == Init /\ [][Next]_vars

\* The loop runs what is ready, timers fire, and a pass ends (its provider calls time out).
FairSpec == Spec /\ \A t \in Task : WF_vars(Progress(t))

-----------------------------------------------------------------------------
\* At most one task is inside the lock, and status() names the job it runs, if it runs one.
RunningIsHolder ==
  /\ Cardinality(Holding) <= 1
  /\ \A j \in Job : runningJob = j <=> \E t \in Holding : task[t].job = j

\* A job counts as active exactly while one task, and only one, runs it or queues for it:
\* duplicate triggers are coalesced, and no way out of run_job leaves the job stuck.
ActiveIsOneRun == \A j \in Job :
  Cardinality({t \in Task : task[t].at \in {"queued", "slot"} /\ task[t].job = j})
    = IF j \in active THEN 1 ELSE 0

\* What status() shows of the jobs is what the tasks really do.
StatusIsTrue == TypeOK /\ RunningIsHolder /\ ActiveIsOneRun

\* A pass counts as paused or stopped only if that button was pressed for that job during
\* that very pass, although all jobs and orphaned threads share one control value.
ControlIsOwn == [][\A j \in Job : interrupted'[j] \notin {interrupted[j], "no"} =>
  /\ runningJob = j
  /\ <<j, IF interrupted'[j] = "paused" THEN "pause" ELSE "stop">> \in pressed]_vars

\* A merge job creates its destination once, unless the result of the pass that did was lost.
DestinationOnce == \A j \in Merge : made[j] = 2 => j \in lost

\* The lock keeps the promise of EngineSlot.
Holder == IF Holding = {} THEN NoTask ELSE CHOOSE t \in Holding : TRUE
Slot == INSTANCE EngineSlot WITH Client <- Task, NoOne <- NoTask, holder <- Holder, waiting <- queue
ImplementsEngineSlot == Slot!Spec

\* Who waits for the lock gets it, or is cancelled.
QueueMoves == \A t \in Task : task[t].at = "queued" ~> task[t].at # "queued"

\* A job that stays enabled, with its scheduler alive, is run again and again.
KeepsRunning == \A j \in Job :
  <>[](store[j] = "on" /\ master /\ ~stopping /\ schedulers[j] # Dead) => []<>(runningJob = j)

\* "Exactly one pass runs at a time".
OnePass == Cardinality({t \in Task : worker[t].at = "running"}) <= 1

\* The schedulers are "in line with the store + master switch": every enabled job has a live
\* scheduler and no other job has one.
SchedulersFollowStore == \A j \in Job :
  schedulers[j] \in Task <=> j \in Scheduled(store, master /\ ~stopping)
=============================================================================
