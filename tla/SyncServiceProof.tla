-------------------------- MODULE SyncServiceProof --------------------------
(***************************************************************************)
(* What holds of SyncService for any number of jobs and tasks, any merge   *)
(* jobs and any bounds.                                                    *)
(***************************************************************************)
EXTENDS SyncService, SubsequenceProof

-----------------------------------------------------------------------------
(* The inductive invariant. *)

TaskRecord == [kind : {"none", "scheduler", "run", "exclusive"}, job : Job \cup {None},
               at : {"none", "sleep", "queued", "slot"}, cancelled : BOOLEAN,
               creating : {"no", "off", "on"}, rest : SUBSET Job]
ThreadRecord == [at : {"none", "running", "ended"},
                 outcome : {"run", "pause", "stop", "error"}, made : BOOLEAN]

\* A task that counts as a run of its job.
Busy(t) == task[t].at \in {"queued", "slot"}
Waiting(t) == \E i \in 1..Len(queue) : queue[i] = t

\* Where the task of each kind can be, and what its thread does meanwhile.
TasksInShape == \A t \in Task :
  /\ task[t].kind = "none" <=> task[t].at = "none"
  /\ task[t].kind = "scheduler" => task[t].rest = {}
  /\ task[t].kind \in {"scheduler", "run"} => task[t].job \in Job
  /\ task[t].kind = "exclusive" => task[t].job = None
  /\ task[t].kind \in {"run", "exclusive"} => Busy(t)
  /\ task[t].cancelled => task[t].kind = "scheduler"
  /\ task[t].at \in {"sleep", "queued"} => worker[t] = NoThread
  /\ worker[t].at = "ended" => task[t].at = "slot"
  /\ task[t].at = "slot" => worker[t].at # "none"
  /\ worker[t].at # "ended" => worker[t].outcome = "run"

\* A task waits for the lock exactly while it is queued and was not cancelled, and once.
QueueInShape ==
  /\ \A i, k \in 1..Len(queue) : queue[i] = queue[k] => i = k
  /\ \A t \in Task : Waiting(t) <=> task[t].at = "queued" /\ ~task[t].cancelled

\* One task is in the slot, and the service knows its job.
HolderKnown ==
  /\ \A t, u \in Holding : t = u
  /\ \A t \in Holding : runningJob = task[t].job
  /\ Holding = {} => runningJob = None

\* The active jobs are those of busy tasks, each of one.
ActiveKnown ==
  /\ \A j \in Job : j \in active <=> \E t \in Task : Busy(t) /\ task[t].job = j
  /\ \A t, u \in Task : Busy(t) /\ Busy(u) /\ task[t].job = task[u].job /\ task[t].job \in Job
                          => t = u

\* A listed scheduler is one of its job that goes on.
SchedulersKnown == \A j \in Job : schedulers[j] \in Task =>
  /\ task[schedulers[j]].kind = "scheduler"
  /\ task[schedulers[j]].job = j
  /\ ~task[schedulers[j]].cancelled

\* What a pass may end with was pressed during it.
PressesKnown == \A t \in Holding : task[t].job \in Job =>
  /\ control # "run" => <<task[t].job, control>> \in pressed
  /\ worker[t].outcome \in {"pause", "stop"} => <<task[t].job, worker[t].outcome>> \in pressed

\* Who may create a destination runs a merge job.
CreatorsMerge == \A t \in Task : task[t].creating # "no" => task[t].job \in Merge
\* Who has created one was one of them.
CreatorsKnown == \A t \in Task : worker[t].made => task[t].creating # "no" /\ worker[t].at # "none"
\* Unless a result was lost, only a busy task may create, and only while none is stored.
CreatorsBusy == \A t \in Task : task[t].creating # "no" /\ task[t].job \notin lost =>
  Busy(t) /\ task[t].job \notin dest
\* Then one that was created is stored or about to be.
CreationKnown == \A j \in Merge \ lost : made[j] # 0 =>
  /\ made[j] = 1
  /\ j \in dest \/ \E t \in Holding : worker[t].made /\ task[t].job = j

IInv ==
  /\ TypeOK /\ TasksInShape /\ QueueInShape /\ HolderKnown /\ ActiveKnown /\ SchedulersKnown
  /\ PressesKnown /\ CreatorsMerge /\ CreatorsKnown /\ CreatorsBusy /\ CreationKnown

-----------------------------------------------------------------------------
(* What every step does. *)

\* Who is in the lock and who waits: nothing changes, or a task enters the free lock, queues,
\* is granted the lock, leaves, leaves and queues again, or some give up, or all are gone.
LockStep ==
  \/ Holding' = Holding /\ queue' = queue
  \/ \E t \in Task :
       \/ Holding = {} /\ queue = <<>> /\ Holding' = {t} /\ queue' = queue
       \/ /\ t \notin Holding /\ ~Waiting(t) /\ ~(Holding = {} /\ queue = <<>>)
          /\ Holding' = Holding /\ queue' = Append(queue, t)
       \/ Holding = {} /\ queue # <<>> /\ Holding' = {Head(queue)} /\ queue' = Tail(queue)
       \/ Holding = {t} /\ Holding' = {} /\ queue' = queue
       \/ Holding = {t} /\ queue # <<>> /\ Holding' = {} /\ queue' = Append(queue, t)
  \/ \E marked \in SUBSET (Task \cup {Dead}) :
       Holding' = Holding /\ queue' = Uncancelled(queue, marked)
  \/ Holding' = {} /\ queue' = <<>>

\* A job becomes interrupted while it runs, by a button pressed meanwhile.
CutStep == \A j \in Job : interrupted'[j] \notin {interrupted[j], "no"} =>
  /\ runningJob = j
  /\ <<j, IF interrupted'[j] = "paused" THEN "pause" ELSE "stop">> \in pressed

GoodStep == IInv' /\ LockStep /\ CutStep

-----------------------------------------------------------------------------
(* Operators. *)

\* The least of some jobs is one of them.
LEMMA LeastIsOne ==
  ASSUME NEW S \in SUBSET Job, S # {}
  PROVE  Least(S) \in S /\ \A y \in S : Least(S) <= y
<1>1. \A x \in Job : x \in Nat
  BY SyncAssumption DEF Job
<1>2. S \subseteq Nat
  BY <1>1
<1>3. PICK x \in S : \A y \in S : ~(<<y, x>> \in OpToRel(<, Nat))
  BY <1>2, NatLessThanWellFounded, WFMin
<1>4. \A y \in S : ~(y < x)
  BY <1>2, <1>3 DEF OpToRel
<1>5. \A y \in S : x <= y
  BY <1>2, <1>4
<1>6. QED
  BY <1>5 DEF Least

\* The fields of a task that does nothing and of a new scheduler.
LEMMA TaskFields ==
  /\ Idle \in TaskRecord
  /\ Idle.kind = "none" /\ Idle.job = None /\ Idle.at = "none" /\ ~Idle.cancelled
  /\ Idle.creating = "no" /\ Idle.rest = {}
  /\ \A j \in Job :
       /\ Sleeping(j) \in TaskRecord
       /\ Sleeping(j).kind = "scheduler" /\ Sleeping(j).job = j /\ Sleeping(j).at = "sleep"
       /\ ~Sleeping(j).cancelled /\ Sleeping(j).creating = "no" /\ Sleeping(j).rest = {}
<1>1. Idle \in TaskRecord
  BY DEF Idle, TaskRecord
<1>2. ASSUME NEW j \in Job PROVE Sleeping(j) \in TaskRecord
  BY DEF Sleeping, Idle, TaskRecord
<1>3. QED
  BY <1>1, <1>2 DEF Idle, Sleeping

\* The fields of a thread that does not run and of one that begins.
LEMMA ThreadFields ==
  /\ NoThread \in ThreadRecord /\ Running \in ThreadRecord
  /\ NoThread.at = "none" /\ NoThread.outcome = "run" /\ ~NoThread.made
  /\ Running.at = "running" /\ Running.outcome = "run" /\ ~Running.made
BY DEF NoThread, Running, ThreadRecord

\* A task of those that start() or reconcile() looked at is a new scheduler or what it was.
LEMMA StartedTask ==
  ASSUME NEW first, NEW new, \A i, j \in first : new[i] = new[j] => i = j,
         NEW others, NEW t \in Task
  PROVE  /\ \A j \in first : new[j] = t => Started(first, new, others)[t] = Sleeping(j)
         /\ (\A j \in first : new[j] # t) => Started(first, new, others)[t] = others[t]
<1>1. ASSUME NEW j \in first, new[j] = t PROVE Started(first, new, others)[t] = Sleeping(j)
  <2>1. \A i \in first : new[i] = t => i = j
    BY <1>1
  <2>2. (CHOOSE i \in first : new[i] = t) = j
    BY <1>1, <2>1
  <2>3. QED
    BY <1>1, <2>2 DEF Started
<1>2. ASSUME \A j \in first : new[j] # t PROVE Started(first, new, others)[t] = others[t]
  BY <1>2 DEF Started
<1>3. QED
  BY <1>1, <1>2

\* The loop starts with sleeping schedulers and nothing else.
LEMMA FreshStart ==
  ASSUME NEW first \in SUBSET Job, NEW new \in Injection(first, Task),
         NEW tasks, tasks = Started(first, new, [t \in Task |-> Idle])
  PROVE  /\ tasks = [t \in Task |-> tasks[t]]
         /\ \A t \in Task : tasks[t] = Idle \/ \E j \in first : tasks[t] = Sleeping(j)
         /\ \A j \in first : new[j] \in Task /\ tasks[new[j]] = Sleeping(j)
<1>0. PICK idle : idle = [t \in Task |-> Idle]
  OBVIOUS
<1>1. tasks = [t \in Task |-> tasks[t]]
  BY DEF Started
<1>2. \A i, j \in first : new[i] = new[j] => i = j
  BY DEF Injection, IsInjective
<1>3. tasks = Started(first, new, idle) /\ \A t \in Task : idle[t] = Idle
  BY <1>0
<1>4. ASSUME NEW t \in Task
      PROVE  \/ \E j \in first : new[j] = t /\ tasks[t] = Sleeping(j)
             \/ (\A j \in first : new[j] # t) /\ tasks[t] = Idle
  <2>1. /\ \A j \in first : new[j] = t => Started(first, new, idle)[t] = Sleeping(j)
        /\ (\A j \in first : new[j] # t) => Started(first, new, idle)[t] = idle[t]
    BY <1>2, StartedTask
  <2>2. QED
    BY <1>3, <2>1
<1>5. ASSUME NEW j \in first PROVE new[j] \in Task /\ tasks[new[j]] = Sleeping(j)
  <2>1. new[j] \in Task
    BY DEF Injection
  <2>2. QED
    BY <1>2, <1>4, <2>1
<1>6. QED
  BY <1>1, <1>4, <1>5

-----------------------------------------------------------------------------
(* The initial states. *)

LEMMA InitHolds == Init => IInv
<1> SUFFICES ASSUME Init PROVE IInv
  OBVIOUS
<1> DEFINE first == Scheduled(store, master)
<1>1. first \in SUBSET Job
  BY DEF Scheduled
<1>2. PICK new \in Injection(first, Task) :
        /\ schedulers = Listed(first, new)
        /\ task = Started(first, new, [t \in Task |-> Idle])
  BY DEF Init
<1> HIDE DEF first
<1>3. /\ task = [t \in Task |-> task[t]]
      /\ \A t \in Task : task[t] = Idle \/ \E j \in first : task[t] = Sleeping(j)
      /\ \A j \in first : new[j] \in Task /\ task[new[j]] = Sleeping(j)
  BY <1>1, <1>2, FreshStart
<1>4. schedulers = [j \in Job |-> IF j \in first THEN new[j] ELSE NoTask]
  BY <1>2 DEF Listed
<1>5. Holding = {} /\ \A t \in Task : ~Busy(t)
  BY <1>1, <1>3, TaskFields DEF Holding, Busy
<1>6. TypeOK
  <2>1. task \in [Task -> TaskRecord]
    BY <1>1, <1>3, TaskFields
  <2>2. schedulers \in [Job -> Task \cup {NoTask, Dead}]
    BY <1>3, <1>4
  <2>3. QED
    <3>1. /\ store \in [Job -> {"new", "off", "on", "deleted"}] /\ dest \in SUBSET Merge
          /\ active \in SUBSET Job /\ runningJob \in Job \cup {None}
          /\ interrupted \in [Job -> {"no", "paused", "stopped"}]
          /\ made \in [Job -> 0..2] /\ lost \in SUBSET Merge
      BY DEF Init
    <3>2. /\ queue \in Seq(Task) /\ pressed \in SUBSET (Job \X {"pause", "stop"})
          /\ worker \in [Task -> [at : {"none", "running", "ended"},
                                  outcome : {"run", "pause", "stop", "error"}, made : BOOLEAN]]
      BY DEF Init, NoThread
    <3>3. requests \in 0..MaxRequests /\ restarts \in 0..MaxRestarts
      BY SyncAssumption DEF Init
    <3>4. master \in BOOLEAN /\ stopping \in BOOLEAN /\ control \in {"run", "pause", "stop"}
      BY DEF Init
    <3>5. QED
      BY <2>1, <2>2, <3>1, <3>2, <3>3, <3>4 DEF TypeOK, TaskRecord
<1>7. TasksInShape
  BY <1>1, <1>3, <1>5, TaskFields DEF Init, TasksInShape, NoThread, Busy
<1>8. QueueInShape
  BY <1>1, <1>3, TaskFields DEF Init, QueueInShape, Waiting
<1>9. HolderKnown /\ PressesKnown
  BY <1>5 DEF Init, HolderKnown, PressesKnown
<1>10. ActiveKnown
  BY <1>5 DEF Init, ActiveKnown
<1>11. SchedulersKnown
  BY <1>1, <1>3, <1>4, SyncAssumption, TaskFields DEF SchedulersKnown
<1>12. CreatorsMerge /\ CreatorsKnown /\ CreatorsBusy /\ CreationKnown
  BY <1>1, <1>3, <1>5, SyncAssumption, TaskFields
  DEF Init, CreatorsMerge, CreatorsKnown, CreatorsBusy, CreationKnown, NoThread
<1>13. QED
  BY <1>6, <1>7, <1>8, <1>9, <1>10, <1>11, <1>12 DEF IInv

\* What withdrawing waiters leaves.
LEMMA WhatIsKept ==
  ASSUME NEW T, NEW s \in Seq(T), NEW S, NEW r, r = Kept(s, S)
  PROVE  /\ r \in Seq(T)
         /\ \A x : (\E k \in 1..Len(r) : r[k] = x) <=> x \in S /\ \E i \in 1..Len(s) : s[i] = x
<1>1. /\ Kept(s, S) \in Seq(T)
      /\ \A x : (\E k \in 1..Len(Kept(s, S)) : Kept(s, S)[k] = x)
                  <=> x \in S /\ \E i \in 1..Len(s) : s[i] = x
  BY KeptElements
<1>2. QED
  BY <1>1

\* Cancelled waiters leave the queue, and nobody else does.
LEMMA QueueShrinks ==
  ASSUME IInv, NEW marked, queue' = Uncancelled(queue, marked)
  PROVE  /\ queue' \in Seq(Task)
         /\ \A i, k \in 1..Len(queue') : queue'[i] = queue'[k] => i = k
         /\ \A u \in Task : Waiting(u)' <=> Waiting(u) /\ u \notin marked
<1>1. queue \in Seq(Task) /\ \A i, k \in 1..Len(queue) : queue[i] = queue[k] => i = k
  BY DEF IInv, TypeOK, QueueInShape
<1>2. queue' = Kept(queue, Task \ marked)
  BY DEF Uncancelled
<1>3. /\ queue' \in Seq(Task)
      /\ \A x : (\E k \in 1..Len(queue') : queue'[k] = x)
                  <=> x \in Task \ marked /\ \E i \in 1..Len(queue) : queue[i] = x
  <2>1. PICK others : others = Task \ marked
    OBVIOUS
  <2>2. PICK q \in Seq(Task) : q = queue
    BY <1>1
  <2>3. PICK r : r = queue'
    OBVIOUS
  <2>4. r = Kept(q, others)
    BY <1>2, <2>1, <2>2, <2>3
  <2>5. /\ r \in Seq(Task)
        /\ \A x : (\E k \in 1..Len(r) : r[k] = x) <=> x \in others /\ \E i \in 1..Len(q) : q[i] = x
    BY <2>4, WhatIsKept
  <2>6. QED
    BY <2>1, <2>2, <2>3, <2>5
<1>4. \A i, k \in 1..Len(queue') : queue'[i] = queue'[k] => i = k
  BY <1>1, <1>2, KeptDistinct
<1>5. QED
  BY <1>3, <1>4 DEF Waiting

\* Who asks for a lock that is taken comes last.
LEMMA QueueGrows ==
  ASSUME IInv, NEW t \in Task, ~Waiting(t), queue' = Append(queue, t)
  PROVE  /\ queue' \in Seq(Task)
         /\ \A i, k \in 1..Len(queue') : queue'[i] = queue'[k] => i = k
         /\ \A u \in Task : Waiting(u)' <=> Waiting(u) \/ u = t
<1>1. /\ queue' \in Seq(Task) /\ Len(queue) \in Nat /\ Len(queue') = Len(queue) + 1
      /\ \A i \in 1..Len(queue) : queue'[i] = queue[i]
      /\ queue'[Len(queue) + 1] = t
  BY AppendProperties, LenProperties DEF IInv, TypeOK
<1>2. \A i, k \in 1..Len(queue) : queue[i] = queue[k] => i = k
  BY DEF IInv, QueueInShape
<1>3. \A i \in 1..Len(queue') : i \in 1..Len(queue) \/ i = Len(queue) + 1
  BY <1>1
<1>4. \A i \in 1..Len(queue) : i \in 1..Len(queue') /\ queue[i] # t
  BY <1>1 DEF Waiting
<1>5. Len(queue) + 1 \in 1..Len(queue')
  BY <1>1
<1>6. \A i, k \in 1..Len(queue') : queue'[i] = queue'[k] => i = k
  BY <1>1, <1>2, <1>3, <1>4
<1>7. ASSUME NEW u \in Task PROVE Waiting(u)' <=> Waiting(u) \/ u = t
  BY <1>1, <1>3, <1>4, <1>5 DEF Waiting
<1>8. QED
  BY <1>1, <1>6, <1>7

-----------------------------------------------------------------------------
(* What a thread, a button or the lock does. *)

\* Pausing or stopping the job that runs.
LEMMA PressKeeps ==
  ASSUME IInv, NEW j \in Job, NEW button \in {"pause", "stop"}, Press(j, button)
  PROVE  GoodStep
<1> USE SyncAssumption DEF IInv
<1>1. runningJob = j /\ control' = button /\ pressed' = pressed \cup {<<j, button>>}
  BY DEF Press
<1>2. requests' \in 0..MaxRequests
  BY DEF Press, Asked, TypeOK
<1>3. UNCHANGED <<store, dest, master, stopping, schedulers, active, runningJob, interrupted, task,
        queue, worker, made, lost, restarts>>
  BY DEF Press, Asked, durable, service, history, bounds
<1>4. TypeOK'
  BY <1>1, <1>2, <1>3 DEF TypeOK
<1>5. TasksInShape'
  BY <1>1, <1>2, <1>3 DEF TypeOK, TasksInShape, Busy
<1>6. QueueInShape'
  BY <1>1, <1>2, <1>3 DEF TypeOK, TasksInShape, QueueInShape, Waiting
<1>7. HolderKnown'
  BY <1>1, <1>2, <1>3 DEF TypeOK, TasksInShape, HolderKnown, Holding
<1>8. ActiveKnown'
  BY <1>1, <1>2, <1>3 DEF TypeOK, TasksInShape, ActiveKnown, Busy
<1>9. SchedulersKnown'
  BY <1>1, <1>2, <1>3 DEF TypeOK, TasksInShape, SchedulersKnown
<1>10. PressesKnown'
  BY <1>1, <1>2, <1>3 DEF TypeOK, TasksInShape, PressesKnown, Holding, HolderKnown
<1>11. CreatorsMerge'
  BY <1>1, <1>2, <1>3 DEF TypeOK, TasksInShape, CreatorsMerge
<1>12. CreatorsKnown'
  BY <1>1, <1>2, <1>3 DEF TypeOK, TasksInShape, CreatorsKnown
<1>13. CreatorsBusy'
  BY <1>1, <1>2, <1>3 DEF TypeOK, TasksInShape, CreatorsBusy, Busy
<1>14. CreationKnown'
  BY <1>1, <1>2, <1>3 DEF TypeOK, TasksInShape, CreationKnown, Holding
<1>15. LockStep
  BY <1>1, <1>2, <1>3 DEF LockStep, Holding
<1>16. CutStep
  BY <1>1, <1>2, <1>3 DEF CutStep
<1>17. QED
   BY <1>4, <1>5, <1>6, <1>7, <1>8, <1>9, <1>10, <1>11, <1>12, <1>13, <1>14, <1>15, <1>16 DEF
     IInv, GoodStep

\* A pass creates the destination of its job.
LEMMA CreateDestinationKeeps ==
  ASSUME IInv, NEW t \in Task, NEW j \in Merge, CreateDestination(t, j)
  PROVE  GoodStep
<1> USE SyncAssumption DEF IInv
<1>1. worker[t].at = "running" /\ ~worker[t].made /\ task[t].creating # "no" /\ task[t].job = j
  BY DEF CreateDestination
<1>2. j \in Job /\ \E n \in 0..2 : made' = [made EXCEPT ![j] = n] /\ (made[j] < 2 => n = made[j] + 1)
  <2>1. j \in Job /\ made[j] \in 0..2
    BY DEF TypeOK
  <2>2. (IF made[j] < 2 THEN made[j] + 1 ELSE made[j]) \in 0..2
    BY <2>1
  <2>3. QED
    BY <2>1, <2>2 DEF CreateDestination
<1>3. /\ worker' \in [Task -> [at : {"none", "running", "ended"},
                               outcome : {"run", "pause", "stop", "error"}, made : BOOLEAN]]
      /\ \A u \in Task : worker'[u].at = worker[u].at /\ worker'[u].outcome = worker[u].outcome
      /\ \A u \in Task : u # t => worker'[u] = worker[u]
      /\ worker'[t].made
  BY DEF CreateDestination, TypeOK
<1>4. UNCHANGED <<store, dest, master, stopping, schedulers, active, runningJob, control, interrupted,
        task, queue, pressed, lost, requests, restarts>>
  BY DEF CreateDestination, durable, service, history, bounds
<1>5. TypeOK'
  BY <1>1, <1>2, <1>3, <1>4 DEF TypeOK
<1>6. TasksInShape'
  <2>1. \A u \in Task : worker[u] = NoThread => worker'[u] = NoThread
    BY <1>1, <1>3 DEF NoThread
  <2>2. QED
    BY <1>3, <1>4, <2>1 DEF TasksInShape, Busy
<1>7. QueueInShape'
  BY <1>1, <1>2, <1>3, <1>4 DEF TypeOK, TasksInShape, QueueInShape, Waiting
<1>8. HolderKnown'
  BY <1>1, <1>2, <1>3, <1>4 DEF TypeOK, TasksInShape, HolderKnown, Holding
<1>9. ActiveKnown'
  BY <1>1, <1>2, <1>3, <1>4 DEF TypeOK, TasksInShape, ActiveKnown, Busy
<1>10. SchedulersKnown'
  BY <1>1, <1>2, <1>3, <1>4 DEF TypeOK, TasksInShape, SchedulersKnown
<1>11. PressesKnown'
  BY <1>1, <1>2, <1>3, <1>4 DEF TypeOK, TasksInShape, PressesKnown, Holding
<1>12. CreatorsMerge'
  BY <1>1, <1>2, <1>3, <1>4 DEF TypeOK, TasksInShape, CreatorsMerge
<1>13. CreatorsKnown'
  BY <1>1, <1>2, <1>3, <1>4 DEF TypeOK, TasksInShape, CreatorsKnown
<1>14. CreatorsBusy'
  BY <1>1, <1>2, <1>3, <1>4 DEF TypeOK, TasksInShape, CreatorsBusy, Busy
<1>15. CreationKnown'
  <2>1. ASSUME j \notin lost PROVE t \in Holding /\ made[j] = 0
    <3>1. Busy(t) /\ j \notin dest
      BY <1>1, <2>1 DEF CreatorsBusy
    <3>2. t \in Holding
      BY <1>1, <3>1 DEF TasksInShape, Busy, Holding, NoThread
    <3>3. \A u \in Holding : task[u].job = j => u = t
      BY <1>1, <1>2, <3>1 DEF ActiveKnown, Busy, Holding
    <3>4. QED
      BY <1>1, <2>1, <3>1, <3>2, <3>3 DEF CreationKnown
  <2>3. ASSUME NEW i \in Merge \ lost, made'[i] # 0
        PROVE  made'[i] = 1 /\ (i \in dest \/ \E u \in Holding : worker'[u].made /\ task[u].job = i)
    <3>1. CASE i = j
      BY <1>1, <1>2, <1>3, <2>1, <2>3, <3>1 DEF TypeOK
    <3>2. CASE i # j
      <4>1. made'[i] = made[i]
        BY <1>2, <3>2 DEF TypeOK
      <4>2. \A u \in Task : worker[u].made => worker'[u].made
        BY <1>3
      <4>3. QED
        BY <2>3, <4>1, <4>2 DEF CreationKnown, Holding
    <3>3. QED
      BY <3>1, <3>2
  <2>4. QED
    BY <1>4, <2>3 DEF CreationKnown, Holding
<1>16. LockStep
  BY <1>1, <1>2, <1>3, <1>4 DEF LockStep, Holding
<1>17. CutStep
  BY <1>1, <1>2, <1>3, <1>4 DEF CutStep
<1>18. QED
   BY <1>5, <1>6, <1>7, <1>8, <1>9, <1>10, <1>11, <1>12, <1>13, <1>14, <1>15, <1>16, <1>17 DEF
     IInv, GoodStep

\* A pass raises.
LEMMA FailThreadKeeps ==
  ASSUME IInv, NEW t \in Task, FailThread(t)
  PROVE  GoodStep
<1> USE SyncAssumption DEF IInv
<1>1. /\ worker[t].at = "running" /\ task[t].at = "slot"
      /\ worker' = [worker EXCEPT ![t].at = "ended", ![t].outcome = "error"]
  BY DEF FailThread
<1>2. UNCHANGED <<store, dest, master, stopping, schedulers, active, runningJob, control, interrupted,
        task, queue, pressed, made, lost, requests, restarts>>
  BY DEF FailThread, durable, service, history, bounds
<1>3. TypeOK'
  BY <1>1, <1>2 DEF TypeOK
<1>4. TasksInShape'
  BY <1>1, <1>2 DEF TypeOK, TasksInShape, Busy
<1>5. QueueInShape'
  BY <1>1, <1>2 DEF TypeOK, TasksInShape, QueueInShape, Waiting
<1>6. HolderKnown'
  BY <1>1, <1>2 DEF TypeOK, TasksInShape, HolderKnown, Holding
<1>7. ActiveKnown'
  BY <1>1, <1>2 DEF TypeOK, TasksInShape, ActiveKnown, Busy
<1>8. SchedulersKnown'
  BY <1>1, <1>2 DEF TypeOK, TasksInShape, SchedulersKnown
<1>9. PressesKnown'
  BY <1>1, <1>2 DEF TypeOK, TasksInShape, PressesKnown, Holding
<1>10. CreatorsMerge'
  BY <1>1, <1>2 DEF TypeOK, TasksInShape, CreatorsMerge
<1>11. CreatorsKnown'
  BY <1>1, <1>2 DEF TypeOK, TasksInShape, CreatorsKnown
<1>12. CreatorsBusy'
  BY <1>1, <1>2 DEF TypeOK, TasksInShape, CreatorsBusy, Busy
<1>13. CreationKnown'
  BY SMTT(20), <1>1, <1>2 DEF TypeOK, TasksInShape, CreationKnown, Holding
<1>14. LockStep
  BY <1>1, <1>2 DEF LockStep, Holding
<1>15. CutStep
  BY <1>1, <1>2 DEF CutStep
<1>16. QED
   BY <1>3, <1>4, <1>5, <1>6, <1>7, <1>8, <1>9, <1>10, <1>11, <1>12, <1>13, <1>14, <1>15 DEF
     IInv, GoodStep

\* A client other than a job leaves the lock.
LEMMA LeaveSlotKeeps ==
  ASSUME IInv, NEW t \in Task, LeaveSlot(t)
  PROVE  GoodStep
<1> USE SyncAssumption DEF IInv
<1>1. /\ task[t].kind = "exclusive" /\ task[t].at = "slot"
      /\ task' = [task EXCEPT ![t] = Idle] /\ worker' = [worker EXCEPT ![t] = NoThread]
  BY DEF LeaveSlot
<1>2. UNCHANGED <<store, dest, master, stopping, schedulers, active, runningJob, control, interrupted,
        queue, pressed, made, lost, requests, restarts>>
  BY DEF LeaveSlot, durable, service, history, bounds
<1>3. task[t].job = None /\ None \notin Job
  BY <1>1 DEF TasksInShape, None, Job
<1>4. TypeOK'
  BY <1>1, <1>2, <1>3 DEF TypeOK, Idle, NoThread
<1>5. TasksInShape'
  BY <1>1, <1>2, <1>3 DEF TypeOK, TasksInShape, Busy, Idle, NoThread
<1>6. QueueInShape'
  BY <1>1, <1>2, <1>3 DEF TypeOK, TasksInShape, QueueInShape, Waiting, Idle, NoThread
<1>7. HolderKnown'
  BY <1>1, <1>2, <1>3 DEF TypeOK, TasksInShape, HolderKnown, Holding, Idle, NoThread
<1>8. ActiveKnown'
  BY <1>1, <1>2, <1>3 DEF TypeOK, TasksInShape, ActiveKnown, Busy, Idle, NoThread
<1>9. SchedulersKnown'
  BY <1>1, <1>2, <1>3 DEF TypeOK, TasksInShape, SchedulersKnown, Idle, NoThread
<1>10. PressesKnown'
  BY <1>1, <1>2, <1>3 DEF TypeOK, TasksInShape, PressesKnown, Holding, Idle, NoThread
<1>11. CreatorsMerge'
  BY <1>1, <1>2, <1>3 DEF TypeOK, TasksInShape, CreatorsMerge, Idle, NoThread
<1>12. CreatorsKnown'
  BY <1>1, <1>2, <1>3 DEF TypeOK, TasksInShape, CreatorsKnown, Idle, NoThread
<1>13. CreatorsBusy'
  BY <1>1, <1>2, <1>3 DEF TypeOK, TasksInShape, CreatorsBusy, Busy, Idle, NoThread
<1>14. CreationKnown'
  BY <1>1, <1>2, <1>3 DEF TypeOK, TasksInShape, CreationKnown, Holding, Idle, NoThread
<1>15. LockStep
  <2>1. Holding = {t} /\ Holding' = {} /\ queue' = queue
    BY <1>1, <1>2, TaskFields DEF Holding, HolderKnown, TypeOK
  <2>2. QED
    BY <2>1 DEF LockStep
<1>16. CutStep
  BY <1>1, <1>2, <1>3 DEF CutStep
<1>17. QED
   BY <1>4, <1>5, <1>6, <1>7, <1>8, <1>9, <1>10, <1>11, <1>12, <1>13, <1>14, <1>15, <1>16 DEF
     IInv, GoodStep

\* The lock is handed on.
LEMMA GrantKeeps ==
  ASSUME IInv, NEW t \in Task, Grant(t)
  PROVE  GoodStep
<1> USE SyncAssumption DEF IInv
<1>1. /\ Holding = {} /\ task[t].at = "queued" /\ queue # <<>> /\ t = Head(queue)
      /\ queue' = Tail(queue) /\ task' = [task EXCEPT ![t].at = "slot"]
      /\ worker' = [worker EXCEPT ![t] = Running]
  BY DEF Grant
<1>2. /\ queue' \in Seq(Task) /\ Len(queue) \in Nat \ {0} /\ t = queue[1]
      /\ Len(queue') = Len(queue) - 1 /\ \A i \in 1..Len(queue') : queue'[i] = queue[i + 1]
  BY <1>1, HeadTailProperties, EmptySeq, LenProperties DEF TypeOK
<1>3. /\ task' \in [Task -> TaskRecord] /\ worker' \in [Task -> ThreadRecord]
      /\ \A u \in Task \ {t} : task'[u] = task[u] /\ worker'[u] = worker[u]
      /\ task'[t].at = "slot" /\ task'[t].kind = task[t].kind /\ task'[t].job = task[t].job
      /\ task'[t].cancelled = task[t].cancelled /\ task'[t].creating = task[t].creating
      /\ task'[t].rest = task[t].rest
      /\ worker'[t].at = "running" /\ worker'[t].outcome = "run" /\ ~worker'[t].made
  BY ZenonT(60), <1>1, ThreadFields DEF TypeOK, TaskRecord, ThreadRecord
<1>4. \/ /\ task[t].job = None /\ task[t].job \notin Job
         /\ UNCHANGED <<runningJob, control, interrupted, pressed>>
      \/ /\ task[t].job \in Job /\ runningJob' = task[t].job /\ control' = "run" /\ pressed' = {}
         /\ interrupted' = [interrupted EXCEPT ![task[t].job] = "no"]
  BY <1>1 DEF Grant, TasksInShape, TypeOK, None, Job
<1>5. UNCHANGED <<store, dest, master, stopping, schedulers, active, made, lost, requests, restarts>>
  BY DEF Grant, durable, service, history, bounds
<1>6. TypeOK'
  <2>1. /\ runningJob' \in Job \cup {None} /\ control' \in {"run", "pause", "stop"}
        /\ interrupted' \in [Job -> {"no", "paused", "stopped"}]
        /\ pressed' \in SUBSET (Job \X {"pause", "stop"})
    BY <1>4 DEF TypeOK
  <2>2. QED
    BY <1>2, <1>3, <1>5, <2>1 DEF TypeOK, TaskRecord, ThreadRecord
<1>7. TasksInShape'
  BY <1>1, <1>2, <1>3, <1>4, <1>5 DEF TypeOK, TasksInShape, Busy
<1>8. QueueInShape'
  <2>1. \A i, k \in 1..Len(queue') : queue'[i] = queue'[k] => i = k
    BY <1>2 DEF QueueInShape
  <2>2. ASSUME NEW u \in Task PROVE Waiting(u)' <=> Waiting(u) /\ u # t
    <3>1. ASSUME Waiting(u)' PROVE Waiting(u) /\ u # t
      <4>1. PICK i \in 1..Len(queue') : queue'[i] = u
        BY <3>1 DEF Waiting
      <4>2. i + 1 \in 1..Len(queue) /\ queue[i + 1] = u /\ 1 \in 1..Len(queue) /\ i + 1 # 1
        BY <1>2, <4>1
      <4>3. QED
        BY <1>2, <4>2 DEF Waiting, QueueInShape
    <3>2. ASSUME Waiting(u), u # t PROVE Waiting(u)'
      <4>1. PICK i \in 1..Len(queue) : queue[i] = u
        BY <3>2 DEF Waiting
      <4>2. i # 1
        BY <1>2, <3>2, <4>1
      <4>3. i - 1 \in 1..Len(queue') /\ queue'[i - 1] = queue[(i - 1) + 1] /\ (i - 1) + 1 = i
        BY <1>2, <4>1, <4>2
      <4>4. QED
        BY <4>1, <4>3 DEF Waiting
    <3>3. QED
      BY <3>1, <3>2
  <2>3. QED
    BY <1>1, <1>3, <2>1, <2>2 DEF QueueInShape
<1>9. HolderKnown'
  BY <1>1, <1>2, <1>3, <1>4, <1>5 DEF TypeOK, TasksInShape, HolderKnown, Holding
<1>10. ActiveKnown'
  BY <1>1, <1>2, <1>3, <1>4, <1>5 DEF TypeOK, TasksInShape, ActiveKnown, Busy
<1>11. SchedulersKnown'
  BY <1>1, <1>2, <1>3, <1>4, <1>5 DEF TypeOK, TasksInShape, SchedulersKnown
<1>12. PressesKnown'
  <2>1. ASSUME NEW u \in Holding' PROVE u = t
    BY <1>1, <1>3, <2>1 DEF Holding
  <2>2. task[t].job \in Job => control' = "run"
    BY <1>4
  <2>3. QED
    BY <1>3, <2>1, <2>2 DEF PressesKnown
<1>13. CreatorsMerge'
  BY <1>1, <1>2, <1>3, <1>4, <1>5 DEF TypeOK, TasksInShape, CreatorsMerge
<1>14. CreatorsKnown'
  BY <1>1, <1>2, <1>3, <1>4, <1>5 DEF TypeOK, TasksInShape, CreatorsKnown
<1>15. CreatorsBusy'
  BY <1>1, <1>2, <1>3, <1>4, <1>5 DEF TypeOK, TasksInShape, CreatorsBusy, Busy
<1>16. CreationKnown'
  BY <1>1, <1>2, <1>3, <1>4, <1>5 DEF TypeOK, TasksInShape, CreationKnown, Holding
<1>17. LockStep
  <2>1. Holding' = {t}
    BY <1>1, <1>3 DEF Holding
  <2>2. QED
    BY <1>1, <2>1 DEF LockStep
<1>18. CutStep
  BY <1>4 DEF CutStep, TypeOK
<1>19. QED
   BY <1>6, <1>7, <1>8, <1>9, <1>10, <1>11, <1>12, <1>13, <1>14, <1>15, <1>16, <1>17, <1>18 DEF
     IInv, GoodStep

\* The pass of the holder ends with what it read of the control value.
LEMMA EndThreadKeeps ==
  ASSUME IInv, NEW t \in Task, EndThread(t), task[t].at = "slot"
  PROVE  GoodStep
<1> USE SyncAssumption DEF IInv
<1>1. /\ task' \in [Task -> TaskRecord] /\ worker' \in [Task -> ThreadRecord]
      /\ \A u \in Task \ {t} : task'[u] = task[u] /\ worker'[u] = worker[u]
      /\ worker[t].at = "running" /\ task' = task
      /\ worker'[t].at = "ended" /\ worker'[t].outcome \in {"run", control}
      /\ worker'[t].made = worker[t].made
  <2>1. PICK read \in {"run", control} :
          worker' = [worker EXCEPT ![t].at = "ended", ![t].outcome = read]
    BY DEF EndThread
  <2>2. read \in {"run", "pause", "stop"}
    BY DEF TypeOK
  <2>3. worker[t].at = "running" /\ task' = task
    BY DEF EndThread
  <2>4. QED
    BY <2>1, <2>2, <2>3 DEF TypeOK, TaskRecord, ThreadRecord
<1>2. UNCHANGED <<store, dest, master, stopping, schedulers, active, runningJob, control, interrupted,
        queue, pressed, made, lost, requests, restarts>>
  BY DEF EndThread, durable, service, history, bounds
<1>3. TypeOK'
  BY <1>1, <1>2 DEF TypeOK, TaskRecord, ThreadRecord
<1>4. TasksInShape'
  BY <1>1, <1>2 DEF TypeOK, TasksInShape, Busy
<1>5. QueueInShape'
  BY <1>1, <1>2 DEF TypeOK, TasksInShape, QueueInShape, Waiting
<1>6. HolderKnown'
  BY <1>1, <1>2 DEF TypeOK, TasksInShape, HolderKnown, Holding
<1>7. ActiveKnown'
  BY <1>1, <1>2 DEF TypeOK, TasksInShape, ActiveKnown, Busy
<1>8. SchedulersKnown'
  BY <1>1, <1>2 DEF TypeOK, TasksInShape, SchedulersKnown
<1>9. PressesKnown'
  BY ZenonT(60), <1>1, <1>2 DEF TypeOK, TasksInShape, PressesKnown, Holding
<1>10. CreatorsMerge'
  BY <1>1, <1>2 DEF TypeOK, TasksInShape, CreatorsMerge
<1>11. CreatorsKnown'
  BY <1>1, <1>2 DEF TypeOK, TasksInShape, CreatorsKnown
<1>12. CreatorsBusy'
  BY <1>1, <1>2 DEF TypeOK, TasksInShape, CreatorsBusy, Busy
<1>13. CreationKnown'
  BY <1>1, <1>2 DEF TypeOK, TasksInShape, CreationKnown, Holding
<1>14. LockStep
  <2>1. Holding' = Holding /\ queue' = queue
    BY <1>1, <1>2 DEF Holding
  <2>2. QED
    BY <2>1 DEF LockStep
<1>15. CutStep
  BY <1>1, <1>2 DEF CutStep
<1>16. QED
   BY <1>3, <1>4, <1>5, <1>6, <1>7, <1>8, <1>9, <1>10, <1>11, <1>12, <1>13, <1>14, <1>15 DEF
     IInv, GoodStep

\* The thread of a task that was cancelled ends.
LEMMA OrphanEndKeeps ==
  ASSUME IInv, NEW t \in Task, EndThread(t), task[t].at # "slot"
  PROVE  GoodStep
<1> USE SyncAssumption DEF IInv
<1>1. /\ worker[t].at = "running" /\ task[t].at = "none"
      /\ task' = [task EXCEPT ![t] = Idle] /\ worker' = [worker EXCEPT ![t] = NoThread]
  BY ThreadFields DEF EndThread, TypeOK, TasksInShape, TaskRecord
<1>2. /\ task' \in [Task -> TaskRecord] /\ worker' \in [Task -> ThreadRecord]
      /\ \A u \in Task \ {t} : task'[u] = task[u] /\ worker'[u] = worker[u]
      /\ task'[t] = Idle /\ worker'[t] = NoThread
  BY <1>1, TaskFields, ThreadFields DEF TypeOK, TaskRecord, ThreadRecord
<1>3. TRUE /\ UNCHANGED <<store, dest, master, stopping, schedulers, active, runningJob, control, interrupted,
        queue, pressed, made, lost, requests, restarts>>
  BY DEF EndThread, durable, service, history, bounds
<1>4. /\ task'[t].kind = "none" /\ task'[t].at = "none" /\ ~task'[t].cancelled
      /\ task'[t].creating = "no" /\ task'[t].rest = {}
      /\ worker'[t].at = "none" /\ worker'[t].outcome = "run" /\ ~worker'[t].made
  BY <1>2, TaskFields, ThreadFields
<1>5. TypeOK'
  BY <1>1, <1>2, <1>3, <1>4 DEF TypeOK, TaskRecord, ThreadRecord
<1>6. TasksInShape'
  BY <1>1, <1>2, <1>3, <1>4 DEF TypeOK, TasksInShape, Busy
<1>7. QueueInShape'
  BY <1>1, <1>2, <1>3, <1>4 DEF TypeOK, TasksInShape, QueueInShape, Waiting
<1>8. HolderKnown'
  BY <1>1, <1>2, <1>3, <1>4 DEF TypeOK, TasksInShape, HolderKnown, Holding
<1>9. ActiveKnown'
  BY <1>1, <1>2, <1>3, <1>4 DEF TypeOK, TasksInShape, ActiveKnown, Busy
<1>10. SchedulersKnown'
  BY <1>1, <1>2, <1>3, <1>4 DEF TypeOK, TasksInShape, SchedulersKnown
<1>11. PressesKnown'
  BY <1>1, <1>2, <1>3, <1>4 DEF TypeOK, TasksInShape, PressesKnown, Holding
<1>12. CreatorsMerge'
  BY <1>1, <1>2, <1>3, <1>4 DEF TypeOK, TasksInShape, CreatorsMerge
<1>13. CreatorsKnown'
  BY <1>1, <1>2, <1>3, <1>4 DEF TypeOK, TasksInShape, CreatorsKnown
<1>14. CreatorsBusy'
  BY <1>1, <1>2, <1>3, <1>4 DEF TypeOK, TasksInShape, CreatorsBusy, Busy
<1>15. CreationKnown'
  BY <1>1, <1>2, <1>3, <1>4 DEF TypeOK, TasksInShape, CreationKnown, Holding
<1>16. LockStep
  <2>1. Holding' = Holding /\ queue' = queue
    BY <1>1, <1>2, <1>3, <1>4 DEF Holding
  <2>2. QED
    BY <2>1 DEF LockStep
<1>17. CutStep
  BY <1>1, <1>2, <1>3, <1>4 DEF CutStep
<1>18. QED
   BY <1>5, <1>6, <1>7, <1>8, <1>9, <1>10, <1>11, <1>12, <1>13, <1>14, <1>15, <1>16, <1>17 DEF
     IInv, GoodStep

\* A client other than a job gives up its place.
LEMMA WithdrawExclusiveKeeps ==
  ASSUME IInv, NEW t \in Task, WithdrawExclusive(t)
  PROVE  GoodStep
<1> USE SyncAssumption DEF IInv
<1>1. /\ task[t].kind = "exclusive" /\ task[t].at = "queued" /\ ~task[t].cancelled
      /\ queue' = Uncancelled(queue, {t}) /\ task' = [task EXCEPT ![t] = Idle]
  BY DEF WithdrawExclusive, TasksInShape
<1>2. /\ task' \in [Task -> TaskRecord] /\ worker' \in [Task -> ThreadRecord]
      /\ \A u \in Task \ {t} : task'[u] = task[u] /\ worker'[u] = worker[u]
      /\ task'[t] = Idle /\ worker' = worker
  BY <1>1, TaskFields DEF WithdrawExclusive, TypeOK, TaskRecord, ThreadRecord
<1>3. /\ task'[t].kind = "none" /\ task'[t].at = "none" /\ ~task'[t].cancelled
      /\ task'[t].creating = "no" /\ task'[t].rest = {} /\ task[t].job \notin Job
      /\ worker[t] = NoThread
  BY <1>1, <1>2, TaskFields DEF TasksInShape, None, Job
<1>4. /\ queue' \in Seq(Task)
      /\ \A i, k \in 1..Len(queue') : queue'[i] = queue'[k] => i = k
      /\ \A u \in Task : Waiting(u)' <=> Waiting(u) /\ u # t
  <2>1. PICK marked : marked = {t}
    OBVIOUS
  <2>2. queue' = Uncancelled(queue, marked)
    BY <1>1, <2>1
  <2>3. /\ queue' \in Seq(Task)
        /\ \A i, k \in 1..Len(queue') : queue'[i] = queue'[k] => i = k
        /\ \A u \in Task : Waiting(u)' <=> Waiting(u) /\ u \notin marked
    BY <2>2, QueueShrinks
  <2>4. QED
    BY <2>1, <2>3
<1>5. requests' \in 0..MaxRequests
  BY DEF WithdrawExclusive, Asked, TypeOK
<1>6. UNCHANGED <<store, dest, master, stopping, schedulers, active, runningJob, control, interrupted,
        pressed, made, lost, restarts>>
  BY DEF WithdrawExclusive, Asked, durable, service, history, bounds
<1>7. TypeOK'
  BY <1>1, <1>2, <1>3, <1>4, <1>5, <1>6 DEF TypeOK, TaskRecord, ThreadRecord
<1>8. TasksInShape'
  BY <1>1, <1>2, <1>3, <1>4, <1>5, <1>6 DEF TypeOK, TasksInShape, Busy, NoThread
<1>9. QueueInShape'
  BY <1>1, <1>2, <1>3, <1>4, <1>5, <1>6 DEF TypeOK, TasksInShape, QueueInShape
<1>10. HolderKnown'
  BY <1>1, <1>2, <1>3, <1>4, <1>5, <1>6 DEF TypeOK, TasksInShape, HolderKnown, Holding
<1>11. ActiveKnown'
  BY <1>1, <1>2, <1>3, <1>4, <1>5, <1>6 DEF TypeOK, TasksInShape, ActiveKnown, Busy
<1>12. SchedulersKnown'
  BY <1>1, <1>2, <1>3, <1>4, <1>5, <1>6 DEF TypeOK, TasksInShape, SchedulersKnown
<1>13. PressesKnown'
  BY <1>1, <1>2, <1>3, <1>4, <1>5, <1>6 DEF TypeOK, TasksInShape, PressesKnown, Holding
<1>14. CreatorsMerge'
  BY <1>1, <1>2, <1>3, <1>4, <1>5, <1>6 DEF TypeOK, TasksInShape, CreatorsMerge
<1>15. CreatorsKnown'
  BY <1>1, <1>2, <1>3, <1>4, <1>5, <1>6 DEF TypeOK, TasksInShape, CreatorsKnown, NoThread
<1>16. CreatorsBusy'
  BY <1>1, <1>2, <1>3, <1>4, <1>5, <1>6 DEF TypeOK, TasksInShape, CreatorsBusy, Busy
<1>17. CreationKnown'
  BY <1>1, <1>2, <1>3, <1>4, <1>5, <1>6 DEF TypeOK, TasksInShape, CreationKnown, Holding
<1>18. LockStep
  <2>1. Holding' = Holding /\ {t} \in SUBSET (Task \cup {Dead}) /\ queue' = Uncancelled(queue, {t})
    BY <1>1, <1>2, <1>3 DEF Holding
  <2>2. QED
    BY <2>1 DEF LockStep
<1>19. CutStep
  BY <1>1, <1>2, <1>3, <1>4, <1>5, <1>6 DEF CutStep
<1>20. QED
   BY <1>7, <1>8, <1>9, <1>10, <1>11, <1>12, <1>13, <1>14, <1>15, <1>16, <1>17, <1>18, <1>19 DEF
     IInv, GoodStep

\* A client other than a job asks for the lock.
LEMMA ExclusiveKeeps ==
  ASSUME IInv, Exclusive
  PROVE  GoodStep
<1> USE SyncAssumption DEF IInv
<1>1. /\ requests' \in 0..MaxRequests
      /\ UNCHANGED <<store, dest, master, stopping, schedulers, active, runningJob, control, interrupted,
        pressed, made, lost, restarts>>
  BY DEF Exclusive, Asked, durable, service, history, bounds, TypeOK
<1>2. PICK t \in Free :
        /\ task' = [task EXCEPT ![t] = [[Idle EXCEPT !.kind = "exclusive"]
                                          EXCEPT !.at = IF SlotFree THEN "slot" ELSE "queued"]]
        /\ queue' = IF SlotFree THEN queue ELSE Append(queue, t)
        /\ worker' = [worker EXCEPT ![t] = IF SlotFree THEN Running ELSE NoThread]
  BY DEF Exclusive
<1>3. t \in Task /\ task[t] = Idle /\ worker[t] = NoThread
  BY DEF Free
<1>4. /\ task[t].kind = "none" /\ task[t].at = "none"
      /\ ~Waiting(t) /\ None \notin Job
  BY <1>3, TaskFields DEF QueueInShape, None, Job
<1>5. \E r \in TaskRecord : /\ r = [[Idle EXCEPT !.kind = "exclusive"]
                                          EXCEPT !.at = IF SlotFree THEN "slot" ELSE "queued"]
                            /\ r.kind = "exclusive" /\ r.job = None /\ ~r.cancelled
                            /\ r.creating = "no" /\ r.rest = {}
                            /\ r.at = IF SlotFree THEN "slot" ELSE "queued" 
  <2>1. PICK i \in TaskRecord : /\ i = Idle /\ i.job = None /\ ~i.cancelled
                                /\ i.creating = "no" /\ i.rest = {}
    BY TaskFields
  <2>2. PICK c \in TaskRecord : c = [i EXCEPT !.kind = "exclusive"]
    BY DEF TaskRecord
  <2>3. PICK r \in TaskRecord : r = [c EXCEPT !.at = IF SlotFree THEN "slot" ELSE "queued"]
    BY DEF TaskRecord
  <2>4. /\ c.kind = "exclusive" /\ c.job = None /\ ~c.cancelled /\ c.creating = "no" /\ c.rest = {}
    BY <2>1, <2>2 DEF TaskRecord
  <2>5. /\ r.kind = "exclusive" /\ r.job = None /\ ~r.cancelled /\ r.creating = "no" /\ r.rest = {}
        /\ r.at = IF SlotFree THEN "slot" ELSE "queued"
    BY <2>3, <2>4 DEF TaskRecord
  <2>6. QED
    BY <2>1, <2>2, <2>3, <2>5
<1>6. /\ task' \in [Task -> TaskRecord] /\ worker' \in [Task -> ThreadRecord]
      /\ \A u \in Task \ {t} : task'[u] = task[u] /\ worker'[u] = worker[u]
      /\ task'[t].kind = "exclusive" /\ task'[t].job = None /\ ~task'[t].cancelled
      /\ task'[t].creating = "no" /\ task'[t].rest = {}
  BY <1>2, <1>3, <1>5, ThreadFields DEF TypeOK, TaskRecord, ThreadRecord
<1>7. \/ /\ Holding = {} /\ queue' = queue /\ \A u \in Task : ~Waiting(u)
         /\ task'[t].at = "slot" /\ worker'[t] = Running
      \/ /\ queue' = Append(queue, t) /\ task'[t].at = "queued" /\ worker'[t] = NoThread
  BY <1>2, <1>3, <1>5, EmptySeq DEF TypeOK, SlotFree, Waiting
<1>8. /\ ~worker'[t].made /\ worker'[t].outcome = "run"
      /\ worker'[t].at # "ended" 
  BY <1>7, ThreadFields
<1>9. /\ queue' \in Seq(Task) /\ \A i, k \in 1..Len(queue') : queue'[i] = queue'[k] => i = k
      /\ \A u \in Task \ {t} : Waiting(u)' <=> Waiting(u)
      /\ Waiting(t)' <=> task'[t].at = "queued" 
  <2>1. CASE queue' = queue /\ task'[t].at = "slot" /\ \A u \in Task : ~Waiting(u)
    BY <1>4, <2>1 DEF QueueInShape, TypeOK, Waiting
  <2>2. CASE queue' = Append(queue, t) /\ task'[t].at = "queued"
    <3>1. /\ queue' \in Seq(Task) /\ \A i, k \in 1..Len(queue') : queue'[i] = queue'[k] => i = k
          /\ \A u \in Task : Waiting(u)' <=> Waiting(u) \/ u = t
      BY <1>3, <1>4, <2>2, QueueGrows
    <3>2. QED
      BY <1>3, <2>2, <3>1
  <2>3. QED
    BY <1>7, <2>1, <2>2
<1>10. /\ task'[t].at = "slot" \/ task'[t].at = "queued"
       /\ task'[t].at = "slot" => worker'[t].at = "running" /\ Holding = {}
       /\ task'[t].at = "queued" => worker'[t] = NoThread /\ worker'[t].at = "none" 
  BY <1>7, ThreadFields
<1>11. TypeOK'
  BY <1>1, <1>3, <1>4, <1>6, <1>8, <1>9, <1>10 DEF TypeOK, TaskRecord, ThreadRecord
<1>12. TasksInShape'
  BY <1>1, <1>4, <1>6, <1>8, <1>10 DEF TasksInShape, Busy
<1>13. QueueInShape'
  BY <1>1, <1>3, <1>4, <1>6, <1>8, <1>9, <1>10 DEF TypeOK, TasksInShape, QueueInShape
<1>14. HolderKnown'
  BY <1>1, <1>4, <1>6, <1>10 DEF HolderKnown, Holding
<1>15. ActiveKnown'
  BY <1>1, <1>4, <1>6, <1>10 DEF ActiveKnown, Busy
<1>16. SchedulersKnown'
  BY <1>1, <1>3, <1>4, <1>6, <1>8, <1>9, <1>10 DEF TypeOK, TasksInShape, SchedulersKnown
<1>17. PressesKnown'
  BY <1>1, <1>3, <1>4, <1>6, <1>8, <1>9, <1>10 DEF TypeOK, TasksInShape, PressesKnown, Holding
<1>18. CreatorsMerge'
  BY <1>1, <1>3, <1>4, <1>6, <1>8, <1>9, <1>10 DEF TypeOK, TasksInShape, CreatorsMerge
<1>19. CreatorsKnown'
  BY <1>1, <1>3, <1>4, <1>6, <1>8, <1>9, <1>10 DEF TypeOK, TasksInShape, CreatorsKnown
<1>20. CreatorsBusy'
  BY <1>1, <1>3, <1>4, <1>6, <1>8, <1>9, <1>10 DEF TypeOK, TasksInShape, CreatorsBusy, Busy
<1>21. CreationKnown'
  BY <1>1, <1>3, <1>4, <1>6, <1>8, <1>9, <1>10 DEF TypeOK, TasksInShape, CreationKnown, Holding
<1>22. LockStep
  <2>1. CASE task'[t].at = "slot"
    <3>1. Holding = {} /\ queue = <<>> /\ Holding' = {t} /\ queue' = queue
      BY <1>6, <1>7, <2>1, <1>2 DEF Holding, SlotFree
    <3>2. QED
      BY <1>3, <3>1 DEF LockStep
  <2>2. CASE task'[t].at = "queued"
    <3>1. t \notin Holding /\ Holding' = Holding /\ queue' = Append(queue, t)
      BY <1>4, <1>6, <1>7, <2>2 DEF Holding
    <3>2. ~SlotFree
      BY <1>2, <1>3, <1>5, <2>2 DEF TypeOK
    <3>3. QED
      BY <1>3, <1>4, <3>1, <3>2 DEF LockStep, SlotFree
  <2>3. QED
    BY <1>10, <2>1, <2>2
<1>23. CutStep
  BY <1>1, <1>3, <1>4, <1>6, <1>8, <1>9, <1>10 DEF CutStep
<1>24. QED
   BY <1>11, <1>12, <1>13, <1>14, <1>15, <1>16, <1>17, <1>18, <1>19, <1>20, <1>21, <1>22, <1>23
     DEF IInv, GoodStep

\* A cancelled task leaves the await it is in.
LEMMA DeliverCancelKeeps ==
  ASSUME IInv, NEW t \in Task, DeliverCancel(t)
  PROVE  GoodStep
<1> USE SyncAssumption DEF IInv
<1>1. /\ task[t].cancelled /\ task[t].kind = "scheduler" /\ task[t].job \in Job /\ ~Waiting(t)
      /\ task[t].at \in {"sleep", "queued", "slot"}
      /\ task[t].at # "slot" => worker[t] = NoThread /\ worker[t].at = "none" /\ ~worker[t].made
  BY ThreadFields DEF DeliverCancel, TasksInShape, QueueInShape, TypeOK
<1>2. /\ task' \in [Task -> TaskRecord] /\ worker' \in [Task -> ThreadRecord]
      /\ \A u \in Task \ {t} : task'[u] = task[u] /\ worker'[u] = worker[u]
      /\ task'[t].kind = "none" /\ task'[t].at = "none" /\ ~task'[t].cancelled
      /\ task'[t].rest = {}
      /\ IF task[t].at = "slot" /\ worker[t].at = "running"
         THEN /\ task'[t].job = task[t].job /\ task'[t].creating = task[t].creating
              /\ worker'[t] = worker[t]
         ELSE task'[t].creating = "no" /\ worker'[t] = NoThread
  <2>1. CASE task[t].at = "slot" /\ worker[t].at = "running"
    <3>1. PICK i \in TaskRecord : /\ i = Idle /\ i.kind = "none" /\ i.at = "none" /\ ~i.cancelled
                                  /\ i.rest = {}
      BY TaskFields
    <3>2. PICK r \in TaskRecord : r = [i EXCEPT !.job = task[t].job, !.creating = task[t].creating]
      BY DEF TaskRecord, TypeOK
    <3>3. /\ r.kind = "none" /\ r.at = "none" /\ ~r.cancelled /\ r.rest = {}
          /\ r.job = task[t].job /\ r.creating = task[t].creating
      BY <3>1, <3>2 DEF TaskRecord
    <3>4. task' = [task EXCEPT ![t] = r] /\ worker' = [worker EXCEPT ![t] = worker[t]]
      BY <2>1, <3>1, <3>2 DEF DeliverCancel
    <3>5. QED
      BY <2>1, <3>3, <3>4 DEF TypeOK, TaskRecord, ThreadRecord
  <2>2. CASE ~(task[t].at = "slot" /\ worker[t].at = "running")
    <3>1. worker[t].at # "running"
      BY <1>1, <2>2
    <3>2. task' = [task EXCEPT ![t] = Idle] /\ worker' = [worker EXCEPT ![t] = NoThread]
      BY <2>2, <3>1 DEF DeliverCancel
    <3>3. QED
      BY <2>2, <3>2, TaskFields, ThreadFields DEF TypeOK, TaskRecord, ThreadRecord
  <2>3. QED
    BY <2>1, <2>2
<1>3. /\ active' = IF task[t].at = "sleep" THEN active ELSE active \ {task[t].job}
      /\ runningJob' = IF task[t].at = "slot" THEN None ELSE runningJob
      /\ pressed' = IF task[t].at = "slot" THEN {} ELSE pressed
      /\ lost' \in SUBSET Merge /\ \A i \in lost : i \in lost'
      /\ \A i \in Merge : Awaited(t, i) => i \in lost'
  BY DEF DeliverCancel, TypeOK
<1>4. UNCHANGED <<store, dest, master, stopping, schedulers, control, interrupted, queue, made,
        requests, restarts>>
  BY DEF DeliverCancel, durable, service, history, bounds
<1>5. /\ task'[t].at = "none" /\ worker'[t].at # "ended" /\ worker'[t].outcome = "run"
      /\ worker'[t].made => task'[t].creating # "no" /\ worker'[t].at # "none"
      /\ task'[t].creating # "no" => task'[t].job = task[t].job /\ task[t].job \in Merge
                                       /\ Awaited(t, task[t].job)
  BY <1>1, <1>2, ThreadFields DEF TasksInShape, CreatorsKnown, CreatorsMerge, Awaited
<1>6. Holding' = Holding \ {t} /\ (t \in Holding => Holding = {t})
  BY <1>2 DEF Holding, HolderKnown
<1>7. TypeOK'
  BY <1>2, <1>3, <1>4 DEF TypeOK, TaskRecord, ThreadRecord
<1>8. TasksInShape'
  BY <1>2, <1>5 DEF TasksInShape, Busy
<1>9. QueueInShape'
  BY <1>1, <1>2, <1>4 DEF QueueInShape, Waiting
<1>10. HolderKnown'
  <2>1. t \in Holding <=> task[t].at = "slot"
    BY DEF Holding
  <2>2. ASSUME NEW u \in Holding' PROVE task'[u] = task[u] /\ u \in Holding /\ task[t].at # "slot"
    BY <1>2, <1>6, <2>1 DEF Holding
  <2>3. QED
    BY <1>3, <1>6, <2>1, <2>2 DEF HolderKnown
<1>11. ActiveKnown'
  <2>1. ASSUME NEW u \in Task PROVE Busy(u)' <=> Busy(u) /\ u # t
    BY <1>2 DEF Busy
  <2>2. Busy(t) <=> task[t].at # "sleep"
    BY <1>1 DEF Busy
  <2>3. \A u \in Task : u # t => task'[u].job = task[u].job
    BY <1>2
  <2>4. QED
    BY <1>1, <1>3, <2>1, <2>2, <2>3 DEF ActiveKnown
<1>12. SchedulersKnown'
  BY <1>1, <1>2, <1>4 DEF SchedulersKnown
<1>13. PressesKnown'
  <2>1. ASSUME NEW u \in Holding'
        PROVE  /\ u \in Holding /\ task'[u] = task[u] /\ worker'[u] = worker[u]
               /\ pressed' = pressed /\ control' = control
    BY <1>2, <1>3, <1>4, <1>6 DEF Holding
  <2>2. QED
    BY <2>1 DEF PressesKnown
<1>14. CreatorsMerge'
  BY <1>2, <1>5 DEF CreatorsMerge
<1>15. CreatorsKnown'
  BY <1>2, <1>5 DEF CreatorsKnown
<1>16. CreatorsBusy'
  BY <1>2, <1>3, <1>4, <1>5 DEF CreatorsBusy, Busy
<1>17. CreationKnown'
  <2>1. ASSUME NEW i \in Merge \ lost', NEW u \in Holding, worker[u].made, task[u].job = i
        PROVE  u \in Holding' /\ worker'[u].made /\ task'[u].job = i
    <3>1. u # t
      BY <1>3, <2>1 DEF Awaited, CreatorsKnown, Holding
    <3>2. QED
      BY <1>2, <1>6, <2>1, <3>1 DEF Holding
  <2>2. QED
    BY <1>3, <1>4, <2>1 DEF CreationKnown
<1>18. LockStep
  <2>1. CASE t \in Holding
    <3>1. Holding = {t} /\ Holding' = {}
      BY <1>6, <2>1
    <3>2. QED
      BY <1>4, <3>1 DEF LockStep
  <2>2. CASE t \notin Holding
    BY <1>4, <1>6, <2>2 DEF LockStep
  <2>3. QED
    BY <2>1, <2>2
<1>19. CutStep
  BY <1>1, <1>2, <1>3, <1>4, <1>5, <1>6 DEF CutStep
<1>20. QED
   BY <1>7, <1>8, <1>9, <1>10, <1>11, <1>12, <1>13, <1>14, <1>15, <1>16, <1>17, <1>18, <1>19 DEF
     IInv, GoodStep

-----------------------------------------------------------------------------
(* Runs. *)

\* The caller of run_job and its copy of the job.
LEMMA CallerFields ==
  ASSUME TypeOK, NEW kind \in {"scheduler", "run"}, NEW j \in Job, Exists(j),
         NEW execute \in BOOLEAN, NEW rest \in SUBSET Job
  PROVE  /\ Caller(kind, j, execute, rest) \in TaskRecord
         /\ Caller(kind, j, execute, rest).kind = kind
         /\ Caller(kind, j, execute, rest).job = j
         /\ ~Caller(kind, j, execute, rest).cancelled
         /\ Caller(kind, j, execute, rest).rest = rest
         /\ Caller(kind, j, execute, rest).creating # "no" => j \in Merge \ dest
<1>1. PICK i \in TaskRecord : i = Idle /\ ~i.cancelled
  BY TaskFields
<1>2. PICK c : c = IF execute /\ j \in Merge \ dest THEN store[j] ELSE "no"
  OBVIOUS
<1>3. c \in {"no", "off", "on"} /\ (c # "no" => j \in Merge \ dest)
  BY <1>2 DEF Exists
<1>4. PICK r \in TaskRecord : r = [i EXCEPT !.kind = kind, !.job = j, !.rest = rest, !.creating = c]
  BY <1>3 DEF TaskRecord
<1>5. r = Caller(kind, j, execute, rest)
  BY <1>1, <1>2, <1>4 DEF Caller
<1>6. r.kind = kind /\ r.job = j /\ ~r.cancelled /\ r.rest = rest /\ r.creating = c
  BY <1>1, <1>4 DEF TaskRecord
<1>7. QED
  BY <1>3, <1>5, <1>6

\* A caller that gets to the lock takes it or queues.
LEMMA BeginEffect ==
  ASSUME TypeOK, NEW t \in Task, NEW caller \in TaskRecord, NEW s, Begin(t, caller, s)
  PROVE  /\ task' \in [Task -> TaskRecord] /\ worker' \in [Task -> ThreadRecord]
         /\ \A u \in Task \ {t} : task'[u] = task[u] /\ worker'[u] = worker[u]
         /\ task'[t].kind = caller.kind /\ task'[t].job = caller.job
         /\ task'[t].cancelled = caller.cancelled /\ task'[t].creating = caller.creating
         /\ task'[t].rest = caller.rest
         /\ active' = s.active \cup {caller.job}
         /\ s.free => /\ task'[t].at = "slot" /\ worker'[t] = Running /\ queue' = queue
                      /\ runningJob' = caller.job /\ control' = "run" /\ pressed' = {}
                      /\ interrupted' = [s.interrupted EXCEPT ![caller.job] = "no"]
         /\ ~s.free => /\ task'[t].at = "queued" /\ worker'[t] = NoThread
                       /\ queue' = Append(queue, t) /\ runningJob' = s.running
                       /\ control' = control /\ pressed' = s.pressed
                       /\ interrupted' = s.interrupted
<1>1. PICK at \in {"slot", "queued"} : at = IF s.free THEN "slot" ELSE "queued"
  OBVIOUS
<1>2. PICK r \in TaskRecord : r = [caller EXCEPT !.at = at]
  BY DEF TaskRecord
<1>3. /\ r.at = at /\ r.kind = caller.kind /\ r.job = caller.job /\ r.cancelled = caller.cancelled
      /\ r.creating = caller.creating /\ r.rest = caller.rest
  BY <1>2 DEF TaskRecord
<1>4. PICK w \in ThreadRecord : w = IF s.free THEN Running ELSE NoThread
  BY ThreadFields
<1>5. task' = [task EXCEPT ![t] = r] /\ worker' = [worker EXCEPT ![t] = w]
  BY <1>1, <1>2, <1>4 DEF Begin
<1>6. /\ task' \in [Task -> TaskRecord] /\ worker' \in [Task -> ThreadRecord]
      /\ \A u \in Task \ {t} : task'[u] = task[u] /\ worker'[u] = worker[u]
      /\ task'[t] = r /\ worker'[t] = w
  BY <1>5 DEF TypeOK, TaskRecord, ThreadRecord
<1>7. active' = s.active \cup {caller.job}
  BY DEF Begin
<1>8. ASSUME s.free
      PROVE  /\ at = "slot" /\ w = Running /\ queue' = queue
             /\ runningJob' = caller.job /\ control' = "run" /\ pressed' = {}
             /\ interrupted' = [s.interrupted EXCEPT ![caller.job] = "no"]
  BY <1>1, <1>4, <1>8 DEF Begin
<1>9. ASSUME ~s.free
      PROVE  /\ at = "queued" /\ w = NoThread /\ queue' = Append(queue, t)
             /\ runningJob' = s.running /\ control' = control /\ pressed' = s.pressed
             /\ interrupted' = s.interrupted
  BY <1>1, <1>4, <1>9 DEF Begin
<1>10. QED
  BY <1>3, <1>6, <1>7, <1>8, <1>9

\* A task that has nothing to do, or a scheduler that wakes, runs a job.
LEMMA RunBegins ==
  ASSUME IInv, NEW t \in Task, NEW kind \in {"scheduler", "run"}, NEW j \in Job, Runs(j),
         NEW execute \in BOOLEAN, NEW rest \in SUBSET Job, kind = "scheduler" => rest = {},
         \/ t \in Free /\ kind = "run"
         \/ task[t].at = "sleep" /\ ~task[t].cancelled /\ task[t].job = j /\ kind = "scheduler",
         Begin(t, Caller(kind, j, execute, rest), Now),
         requests' \in 0..MaxRequests, restarts' \in 0..MaxRestarts,
         UNCHANGED <<store, dest, master, stopping, schedulers, made, lost>>
  PROVE  GoodStep
<1> USE SyncAssumption DEF IInv
<1>1. Exists(j) /\ j \notin active /\ NoThread.at = "none" /\ ~NoThread.made
  BY ThreadFields DEF Runs
<1>2. /\ task[t].at \in {"none", "sleep"} /\ worker[t].at = "none" /\ ~worker[t].made
      /\ ~Waiting(t) /\ t \notin Holding
      /\ task[t].at = "none" => kind = "run" /\ task[t].kind = "none"
      /\ task[t].at = "sleep" => kind = "scheduler" /\ task[t].kind = "scheduler" /\ task[t].job = j
  <2>1. CASE t \in Free /\ kind = "run"
    <3>1. /\ task[t] = Idle /\ worker[t] = NoThread
      BY <2>1 DEF Free
    <3>2. task[t].at = "none" /\ task[t].kind = "none" /\ worker[t].at = "none" /\ ~worker[t].made
      BY <3>1, TaskFields, ThreadFields
    <3>3. QED
      BY <2>1, <3>2 DEF QueueInShape, Holding
  <2>2. CASE /\ task[t].at = "sleep" /\ ~task[t].cancelled /\ task[t].job = j
             /\ kind = "scheduler"
    <3>1. task[t].kind = "scheduler" /\ worker[t] = NoThread
      BY <2>2 DEF TasksInShape, Busy, TypeOK
    <3>2. QED
      BY <1>1, <2>2, <3>1 DEF QueueInShape, Holding
  <2>3. QED
    BY <2>1, <2>2
<1>3. PICK caller \in TaskRecord :
        /\ caller = Caller(kind, j, execute, rest)
        /\ caller.kind = kind /\ caller.job = j /\ ~caller.cancelled /\ caller.rest = rest
        /\ caller.creating # "no" => j \in Merge \ dest
  BY <1>1, CallerFields
<1>4. PICK s : /\ s = Now /\ Begin(t, caller, s)
               /\ s.active = active /\ s.running = runningJob /\ s.interrupted = interrupted
               /\ s.pressed = pressed /\ (s.free <=> SlotFree)
  BY <1>3 DEF Now
<1>5. /\ task' \in [Task -> TaskRecord] /\ worker' \in [Task -> ThreadRecord]
      /\ \A u \in Task \ {t} : task'[u] = task[u] /\ worker'[u] = worker[u]
      /\ task'[t].kind = kind /\ task'[t].job = j /\ ~task'[t].cancelled /\ task'[t].rest = rest
      /\ task'[t].creating # "no" => j \in Merge \ dest
      /\ active' = active \cup {j}
  BY <1>3, <1>4, BeginEffect
<1>6. \/ /\ task'[t].at = "slot" /\ worker'[t] = Running /\ queue' = queue
         /\ runningJob' = j /\ control' = "run" /\ pressed' = {}
         /\ interrupted' = [interrupted EXCEPT ![j] = "no"]
         /\ Holding = {} /\ \A u \in Task : ~Waiting(u)
      \/ /\ task'[t].at = "queued" /\ worker'[t] = NoThread /\ queue' = Append(queue, t)
         /\ runningJob' = runningJob /\ control' = control /\ pressed' = pressed
         /\ interrupted' = interrupted
  <2>1. SlotFree => Holding = {} /\ \A u \in Task : ~Waiting(u)
    BY EmptySeq DEF SlotFree, Waiting
  <2>2. CASE s.free
    BY <1>3, <1>4, <2>1, <2>2, BeginEffect
  <2>3. CASE ~s.free
    BY <1>3, <1>4, <2>3, BeginEffect
  <2>4. QED
    BY <2>2, <2>3
<1>7. /\ queue' \in Seq(Task) /\ \A i, k \in 1..Len(queue') : queue'[i] = queue'[k] => i = k
      /\ \A u \in Task \ {t} : Waiting(u)' <=> Waiting(u)
      /\ Waiting(t)' <=> task'[t].at = "queued" 
  <2>1. CASE queue' = queue /\ task'[t].at = "slot"
    BY <1>2, <2>1 DEF QueueInShape, TypeOK, Waiting
  <2>2. CASE queue' = Append(queue, t) /\ task'[t].at = "queued"
    <3>1. /\ queue' \in Seq(Task) /\ \A i, k \in 1..Len(queue') : queue'[i] = queue'[k] => i = k
          /\ \A u \in Task : Waiting(u)' <=> Waiting(u) \/ u = t
      BY <1>2, <2>2, QueueGrows
    <3>2. QED
      BY <2>2, <3>1
  <2>3. QED
    BY <1>6, <2>1, <2>2
<1>8. /\ task'[t].at = "slot" \/ task'[t].at = "queued"
      /\ task'[t].at = "slot" => worker'[t].at = "running" /\ Holding = {} /\ control' = "run" /\ runningJob' = j
      /\ task'[t].at = "queued" => /\ worker'[t] = NoThread /\ runningJob' = runningJob
                                   /\ control' = control /\ pressed' = pressed
      /\ worker'[t].at # "ended" /\ worker'[t].outcome = "run" /\ ~worker'[t].made
  BY <1>6, ThreadFields
<1>9. TypeOK'
  <2>1. /\ runningJob' \in Job \cup {None} /\ control' \in {"run", "pause", "stop"}
        /\ interrupted' \in [Job -> {"no", "paused", "stopped"}]
        /\ pressed' \in SUBSET (Job \X {"pause", "stop"})
    <3>1. CASE interrupted' = [interrupted EXCEPT ![j] = "no"] /\ pressed' = {}
      BY <1>6, <3>1 DEF TypeOK
    <3>2. CASE interrupted' = interrupted /\ pressed' = pressed
      BY <1>6, <3>2 DEF TypeOK
    <3>3. QED
      BY <1>6, <3>1, <3>2
  <2>2. QED
    BY <1>5, <1>7, <2>1 DEF TypeOK, TaskRecord, ThreadRecord
<1>10. TasksInShape'
  BY <1>5, <1>8 DEF TasksInShape, Busy
<1>11. QueueInShape'
  BY <1>5, <1>7, <1>8 DEF QueueInShape
<1>12. HolderKnown'
  BY <1>2, <1>5, <1>8 DEF HolderKnown, Holding
<1>13. ActiveKnown'
  <2>1. ASSUME NEW u \in Task PROVE Busy(u)' <=> Busy(u) \/ u = t
    BY <1>5, <1>8 DEF Busy
  <2>2. ~Busy(t) /\ \A u \in Task : Busy(u) => task[u].job # j
    BY <1>1, <1>2 DEF ActiveKnown, Busy
  <2>3. QED
    BY <1>5, <2>1, <2>2 DEF ActiveKnown
<1>14. SchedulersKnown'
  BY <1>2, <1>5, SyncAssumption DEF SchedulersKnown
<1>15. PressesKnown'
  <2>1. CASE task'[t].at = "slot"
    BY <1>5, <1>8, <2>1 DEF PressesKnown, Holding
  <2>2. CASE task'[t].at = "queued"
    BY <1>5, <1>8, <2>2 DEF PressesKnown, Holding
  <2>3. QED
    BY <1>8, <2>1, <2>2
<1>16. CreatorsMerge'
  BY <1>5 DEF CreatorsMerge
<1>17. CreatorsKnown'
  BY <1>5, <1>8 DEF CreatorsKnown
<1>18. CreatorsBusy'
  BY <1>5, <1>8 DEF CreatorsBusy, Busy
<1>19. CreationKnown'
  <2>1. \A u \in Holding : u \in Holding' /\ task'[u] = task[u] /\ worker'[u] = worker[u]
    BY <1>2, <1>5 DEF Holding
  <2>2. QED
    BY <2>1 DEF CreationKnown
<1>20. LockStep
  <2>1. CASE s.free
    <3>1. task'[t].at = "slot" /\ queue' = queue /\ Holding = {} /\ queue = <<>>
      BY <1>4, <2>1, BeginEffect DEF SlotFree
    <3>2. Holding' = {t}
      BY <1>5, <3>1 DEF Holding
    <3>3. QED
      BY <3>1, <3>2 DEF LockStep
  <2>2. CASE ~s.free
    <3>1. task'[t].at = "queued" /\ queue' = Append(queue, t)
      BY <1>4, <2>2, BeginEffect
    <3>2. Holding' = Holding /\ ~(Holding = {} /\ queue = <<>>)
      BY <1>2, <1>4, <1>5, <2>2, <3>1 DEF Holding, SlotFree
    <3>3. QED
      BY <1>2, <3>1, <3>2 DEF LockStep
  <2>3. QED
    BY <2>1, <2>2
<1>21. CutStep
  BY <1>6 DEF CutStep, TypeOK
<1>22. QED
   BY <1>9, <1>10, <1>11, <1>12, <1>13, <1>14, <1>15, <1>16, <1>17, <1>18, <1>19, <1>20, <1>21
     DEF IInv, GoodStep

\* Asking for one job, for all enabled jobs, or for one that was paused.
LEMMA RunsKeep ==
  ASSUME IInv, RunAll \/ \E j \in Job : Run(j) \/ Resume(j)
  PROVE  GoodStep
<1> USE SyncAssumption
<1>1. TypeOK /\ requests' \in 0..MaxRequests /\ restarts' = restarts /\ restarts \in 0..MaxRestarts
  <2>1. TypeOK
    BY DEF IInv
  <2>2. Asked
    BY DEF RunAll, Run, Resume
  <2>3. QED
    BY <2>1, <2>2 DEF Asked, TypeOK
<1>2. UNCHANGED <<store, dest, master, stopping, schedulers, made, lost>>
  BY DEF RunAll, Run, Resume, durable
<1>3. {} \in SUBSET Job /\ TRUE \in BOOLEAN
  OBVIOUS
<1>4. ASSUME NEW j \in Job, Run(j) PROVE GoodStep
  <2>1. PICK t \in Free, execute \in BOOLEAN : Begin(t, Caller("run", j, execute, {}), Now)
    BY <1>4 DEF Run
  <2>2. t \in Task /\ Runs(j)
    BY <1>4 DEF Free, Run
  <2>3. QED
    BY <1>1, <1>2, <1>3, <2>1, <2>2, RunBegins
<1>5. ASSUME NEW j \in Job, Resume(j) PROVE GoodStep
  <2>1. PICK t \in Free : Begin(t, Caller("run", j, TRUE, {}), Now)
    BY <1>5 DEF Resume
  <2>2. t \in Task /\ Runs(j)
    BY <1>5 DEF Free, Resume
  <2>3. QED
    BY <1>1, <1>2, <1>3, <2>1, <2>2, RunBegins
<1>6. ASSUME RunAll PROVE GoodStep
  <2>1. PICK enabled : enabled = {j \in Job : store[j] = "on"}
    OBVIOUS
  <2>2. PICK runnable : runnable = {j \in enabled : Runs(j)}
    OBVIOUS
  <2>3. PICK first : first = Least(runnable)
    OBVIOUS
  <2>4. PICK rest : rest = {j \in enabled : j > first}
    OBVIOUS
  <2>5. runnable # {} /\ \E t \in Free : Begin(t, Caller("run", first, TRUE, rest), Now)
    BY <1>6, <2>1, <2>2, <2>3, <2>4 DEF RunAll
  <2>6. runnable \in SUBSET Job /\ rest \in SUBSET Job
    BY <2>1, <2>2, <2>4
  <2>7. first \in runnable
    BY <2>3, <2>5, <2>6, LeastIsOne
  <2>8. first \in Job /\ Runs(first)
    BY <2>2, <2>6, <2>7
  <2>9. PICK t \in Free : Begin(t, Caller("run", first, TRUE, rest), Now)
    BY <2>5
  <2>10. t \in Task
    BY DEF Free
  <2>11. QED
    BY <1>1, <1>2, <1>3, <2>6, <2>8, <2>9, <2>10, RunBegins
<1>7. QED
  BY <1>4, <1>5, <1>6

\* A scheduler at the head of its loop sleeps again or is over.
LEMMA LoopHeadEffect ==
  ASSUME TypeOK, NEW t \in Task, NEW j \in Job, NEW jobs, LoopHead(t, j, jobs)
  PROVE  /\ task' \in [Task -> TaskRecord] /\ \A u \in Task \ {t} : task'[u] = task[u]
         /\ task'[t] \in {Sleeping(j), Idle}
         /\ task'[t].kind \in {"none", "scheduler"} /\ ~task'[t].cancelled
         /\ task'[t].creating = "no" /\ task'[t].rest = {}
         /\ task'[t].kind = "none" <=> task'[t].at = "none"
         /\ task'[t].at \in {"none", "sleep"}
         /\ task'[t].kind = "scheduler" => task'[t].job = j
         /\ schedulers' \in [Job -> Task \cup {NoTask, Dead}]
         /\ \A i \in Job \ {j} : schedulers'[i] = schedulers[i]
         /\ task'[t].kind = "none" => schedulers'[j] = Dead
         /\ task'[t].kind # "none" => schedulers'[j] = schedulers[j]
<1>1. CASE task' = [task EXCEPT ![t] = Sleeping(j)] /\ schedulers' = schedulers
  BY <1>1, TaskFields DEF TypeOK, TaskRecord
<1>2. CASE task' = [task EXCEPT ![t] = Idle] /\ schedulers' = [schedulers EXCEPT ![j] = Dead]
  BY <1>2, TaskFields DEF TypeOK, TaskRecord
<1>3. QED
  BY <1>1, <1>2 DEF LoopHead

\* A scheduler whose job cannot run goes back to the head of its loop.
LEMMA WakeSkipsKeeps ==
  ASSUME IInv, NEW t \in Task, Wake(t), ~Runs(task[t].job)
  PROVE  GoodStep
<1> USE SyncAssumption DEF IInv
<1>1. /\ task[t].at = "sleep" /\ ~task[t].cancelled /\ task[t].kind = "scheduler" /\ task[t].job \in Job
      /\ worker[t] = NoThread /\ ~Waiting(t) /\ ~Busy(t)
  BY DEF Wake, TasksInShape, Busy, QueueInShape, TypeOK
<1>2. PICK j \in Job : j = task[t].job /\ LoopHead(t, j, store)
  BY <1>1 DEF Wake
<1>3. /\ task' \in [Task -> TaskRecord] /\ \A u \in Task \ {t} : task'[u] = task[u]
      /\ task'[t].kind \in {"none", "scheduler"} /\ ~task'[t].cancelled
      /\ task'[t].creating = "no" /\ task'[t].rest = {}
      /\ task'[t].kind = "none" <=> task'[t].at = "none"
      /\ task'[t].at \in {"none", "sleep"}
      /\ task'[t].kind = "scheduler" => task'[t].job = j
      /\ schedulers' \in [Job -> Task \cup {NoTask, Dead}]
      /\ \A i \in Job \ {j} : schedulers'[i] = schedulers[i]
      /\ task'[t].kind = "none" => schedulers'[j] = Dead
      /\ task'[t].kind # "none" => schedulers'[j] = schedulers[j]
  BY <1>2, LoopHeadEffect
<1>4. UNCHANGED <<store, dest, master, stopping, active, runningJob, control, interrupted, queue,
        worker, pressed, made, lost, requests, restarts>>
  BY DEF Wake, durable, bounds
<1>5. NoThread.at = "none" /\ ~NoThread.made /\ NoThread.outcome = "run"
  BY ThreadFields
<1>6. TypeOK'
  BY <1>3, <1>4 DEF TypeOK, TaskRecord
<1>7. TasksInShape'
  BY <1>1, <1>2, <1>3, <1>4, <1>5 DEF TasksInShape, Busy
<1>8. QueueInShape'
  BY <1>1, <1>3, <1>4 DEF QueueInShape, Waiting
<1>9. HolderKnown'
  BY <1>1, <1>3, <1>4 DEF HolderKnown, Holding
<1>10. ActiveKnown'
  <2>1. ASSUME NEW u \in Task PROVE Busy(u)' <=> Busy(u) /\ u # t
    BY <1>1, <1>3 DEF Busy
  <2>2. QED
    BY <1>1, <1>3, <1>4, <2>1 DEF ActiveKnown
<1>11. SchedulersKnown'
  BY <1>1, <1>2, <1>3, <1>4, SyncAssumption DEF SchedulersKnown
<1>12. PressesKnown'
  BY <1>1, <1>3, <1>4 DEF PressesKnown, Holding
<1>13. CreatorsMerge'
  BY <1>3 DEF CreatorsMerge
<1>14. CreatorsKnown'
  BY <1>1, <1>3, <1>4, <1>5 DEF CreatorsKnown
<1>15. CreatorsBusy'
  BY <1>1, <1>3, <1>4 DEF CreatorsBusy, Busy
<1>16. CreationKnown'
  <2>1. \A u \in Holding : u \in Holding' /\ task'[u] = task[u] /\ worker'[u] = worker[u]
    BY <1>1, <1>3, <1>4 DEF Holding
  <2>2. QED
    BY <1>4, <2>1 DEF CreationKnown
<1>17. LockStep
  <2>1. Holding' = Holding /\ queue' = queue
    BY <1>1, <1>3, <1>4 DEF Holding
  <2>2. QED
    BY <2>1 DEF LockStep
<1>18. CutStep
  BY <1>1, <1>2, <1>3, <1>4, <1>5 DEF CutStep
<1>19. QED
   BY <1>6, <1>7, <1>8, <1>9, <1>10, <1>11, <1>12, <1>13, <1>14, <1>15, <1>16, <1>17, <1>18 DEF
     IInv, GoodStep

\* A scheduler wakes.
LEMMA WakeKeeps ==
  ASSUME IInv, NEW t \in Task, Wake(t)
  PROVE  GoodStep
<1>1. CASE ~Runs(task[t].job)
  BY <1>1, WakeSkipsKeeps
<1>2. CASE Runs(task[t].job)
  <2>1. PICK j \in Job : j = task[t].job
    BY DEF IInv, Wake, TasksInShape, Busy, TypeOK
  <2>2. /\ task[t].at = "sleep" /\ ~task[t].cancelled /\ Runs(j)
        /\ Begin(t, Caller("scheduler", j, TRUE, {}), Now)
        /\ UNCHANGED <<store, dest, master, stopping, schedulers, made, lost>>
    BY <1>2, <2>1 DEF Wake, durable
  <2>3. requests' \in 0..MaxRequests /\ restarts' \in 0..MaxRestarts
    BY DEF Wake, bounds, IInv, TypeOK
  <2>4. {} \in SUBSET Job /\ TRUE \in BOOLEAN
    OBVIOUS
  <2>5. QED
    BY <2>1, <2>2, <2>3, <2>4, RunBegins
<1>3. QED
  BY <1>1, <1>2

\* The state a pass leaves: what is stored, and run_all's jobs that can still run.
StoredBy(t) == worker[t].made /\ worker[t].outcome # "error"
StoreAfter(t) == IF StoredBy(t) THEN [store EXCEPT ![task[t].job] = task[t].creating] ELSE store
RestAfter(t) == {i \in task[t].rest : StoreAfter(t)[i] \in {"off", "on"}
                                      /\ i \notin active \ {task[t].job}}
InterruptedAfter(t) == [interrupted EXCEPT ![task[t].job] = Cut(worker[t].outcome)]

\* What Finish does whoever it is that takes the result.
LEMMA FinishStores ==
  ASSUME IInv, NEW t \in Task, Finish(t)
  PROVE  /\ task[t].at = "slot" /\ task[t].kind \in {"scheduler", "run"} /\ task[t].job \in Job
         /\ worker[t].at = "ended" /\ ~task[t].cancelled
         /\ Holding = {t} /\ Busy(t) /\ ~Waiting(t)
         /\ StoredBy(t) => task[t].job \in Merge /\ task[t].creating \in {"off", "on"}
         /\ store' = StoreAfter(t) /\ store' \in [Job -> {"new", "off", "on", "deleted"}]
         /\ dest' = IF StoredBy(t) THEN dest \cup {task[t].job} ELSE dest
         /\ dest' \in SUBSET Merge
         /\ lost' = IF worker[t].made /\ ~StoredBy(t) THEN lost \cup {task[t].job} ELSE lost
         /\ lost' \in SUBSET Merge
         /\ InterruptedAfter(t) \in [Job -> {"no", "paused", "stopped"}]
         /\ UNCHANGED <<master, stopping, made, requests, restarts>>
<1>1. /\ task[t].at = "slot" /\ task[t].kind # "exclusive" /\ worker[t].at = "ended"
      /\ ~task[t].cancelled
      /\ UNCHANGED <<master, stopping, made, requests, restarts>>
  BY DEF Finish, bounds
<1>2. task[t].kind \in {"scheduler", "run"} /\ task[t].job \in Job /\ Busy(t) /\ ~Waiting(t)
  BY <1>1 DEF IInv, TypeOK, TasksInShape, QueueInShape, Busy
<1>3. Holding = {t}
  BY <1>1 DEF Holding, IInv, HolderKnown
<1>4. worker[t].made => task[t].job \in Merge /\ task[t].creating \in {"off", "on"}
  BY DEF IInv, TypeOK, CreatorsKnown, CreatorsMerge
<1>5. /\ store' = StoreAfter(t)
      /\ dest' = IF StoredBy(t) THEN dest \cup {task[t].job} ELSE dest
      /\ lost' = IF worker[t].made /\ ~StoredBy(t) THEN lost \cup {task[t].job} ELSE lost
  BY DEF Finish, StoreAfter, StoredBy
<1>6. Cut(worker[t].outcome) \in {"no", "paused", "stopped"}
  BY DEF Cut
<1>7. StoreAfter(t) \in [Job -> {"new", "off", "on", "deleted"}]
  BY <1>2, <1>4 DEF StoreAfter, StoredBy, IInv, TypeOK
<1>8. dest' \in SUBSET Merge /\ lost' \in SUBSET Merge
  BY <1>4, <1>5 DEF StoredBy, IInv, TypeOK
<1>9. InterruptedAfter(t) \in [Job -> {"no", "paused", "stopped"}]
  BY <1>2, <1>6 DEF InterruptedAfter, IInv, TypeOK
<1>10. StoredBy(t) => task[t].job \in Merge /\ task[t].creating \in {"off", "on"}
  BY <1>4 DEF StoredBy
<1>11. QED
  BY <1>1, <1>2, <1>3, <1>5, <1>7, <1>8, <1>9, <1>10

\* What a finished pass counts as was asked for during it.
LEMMA FinishCuts ==
  ASSUME IInv, NEW t \in Task, Finish(t), NEW i \in Job,
         InterruptedAfter(t)[i] \notin {interrupted[i], "no"}
  PROVE  /\ runningJob = i
         /\ <<i, IF InterruptedAfter(t)[i] = "paused" THEN "pause" ELSE "stop">> \in pressed
<1>1. task[t].job \in Job /\ t \in Holding
  BY FinishStores
<1>2. i = task[t].job /\ InterruptedAfter(t)[i] = Cut(worker[t].outcome)
  BY <1>1 DEF InterruptedAfter, IInv, TypeOK
<1>3. runningJob = i
  BY <1>1, <1>2 DEF IInv, HolderKnown
<1>4. Cut(worker[t].outcome) # "no"
  BY <1>2
<1>5. CASE worker[t].outcome = "pause"
  BY <1>1, <1>2, <1>3, <1>5 DEF Cut, IInv, PressesKnown
<1>6. CASE worker[t].outcome = "stop"
  BY <1>1, <1>2, <1>3, <1>6 DEF Cut, IInv, PressesKnown
<1>7. QED
  BY <1>4, <1>3, <1>5, <1>6 DEF Cut

\* A task takes the result of its pass and has nothing left to run.
LEMMA FinishEndsKeeps ==
  ASSUME IInv, NEW t \in Task, Finish(t), RestAfter(t) = {}
  PROVE  GoodStep
<1> USE SyncAssumption DEF IInv
<1>1. /\ task[t].at = "slot" /\ task[t].kind \in {"scheduler", "run"} /\ task[t].job \in Job
      /\ worker[t].at = "ended" /\ ~task[t].cancelled
      /\ Holding = {t} /\ Busy(t) /\ ~Waiting(t)
      /\ store' \in [Job -> {"new", "off", "on", "deleted"}]
      /\ dest' = IF StoredBy(t) THEN dest \cup {task[t].job} ELSE dest
      /\ dest' \in SUBSET Merge
      /\ lost' = IF worker[t].made /\ ~StoredBy(t) THEN lost \cup {task[t].job} ELSE lost
      /\ lost' \in SUBSET Merge
      /\ UNCHANGED <<master, stopping, made, requests, restarts>>
  BY FinishStores
<1>2. /\ active' = active \ {task[t].job} /\ runningJob' = None /\ pressed' = {}
      /\ interrupted' = InterruptedAfter(t) /\ interrupted' \in [Job -> {"no", "paused", "stopped"}]
      /\ worker' = [worker EXCEPT ![t] = NoThread]
      /\ UNCHANGED <<control, queue>>
      /\ \/ task[t].kind = "scheduler" /\ LoopHead(t, task[t].job, StoreAfter(t))
         \/ /\ task[t].kind = "run" /\ task' = [task EXCEPT ![t] = Idle]
            /\ UNCHANGED schedulers
  <2>1. PICK j \in Job : j = task[t].job
    BY <1>1
  <2>2. InterruptedAfter(t) \in [Job -> {"no", "paused", "stopped"}]
    BY FinishStores
  <2>3. QED
    BY <1>1, <2>1, <2>2 DEF Finish, RestAfter, StoreAfter, StoredBy, InterruptedAfter
<1>3. /\ task' \in [Task -> TaskRecord] /\ \A u \in Task \ {t} : task'[u] = task[u]
      /\ task'[t].kind \in {"none", "scheduler"} /\ ~task'[t].cancelled
      /\ task'[t].creating = "no" /\ task'[t].rest = {}
      /\ task'[t].kind = "none" <=> task'[t].at = "none"
      /\ task'[t].at \in {"none", "sleep"}
      /\ task'[t].kind = "scheduler" => task'[t].job = task[t].job
      /\ schedulers' \in [Job -> Task \cup {NoTask, Dead}]
      /\ \A i \in Job \ {task[t].job} : schedulers'[i] = schedulers[i]
      /\ task'[t].kind = "none" => schedulers'[task[t].job] # t
      /\ task'[t].kind # "none" => schedulers'[task[t].job] = schedulers[task[t].job]
      /\ schedulers'[task[t].job] # schedulers[task[t].job] => schedulers'[task[t].job] = Dead
  <2>1. CASE task[t].kind = "scheduler" /\ LoopHead(t, task[t].job, StoreAfter(t))
    <3>1. PICK j \in Job : j = task[t].job
      BY <1>1
    <3>2. PICK jobs : jobs = StoreAfter(t)
      OBVIOUS
    <3>3. LoopHead(t, j, jobs)
      BY <2>1, <3>1, <3>2
    <3>4. QED
      BY <3>1, <3>3, LoopHeadEffect, SyncAssumption
  <2>2. CASE task[t].kind = "run" /\ task' = [task EXCEPT ![t] = Idle] /\ schedulers' = schedulers
    <3>1. schedulers[task[t].job] # t
      BY <1>1, <2>2 DEF SchedulersKnown
    <3>2. QED
      BY <1>1, <2>2, <3>1, TaskFields DEF TypeOK, TaskRecord
  <2>3. QED
    BY <1>2, <2>1, <2>2
<1>4. /\ worker' \in [Task -> ThreadRecord] /\ \A u \in Task \ {t} : worker'[u] = worker[u]
      /\ worker'[t] = NoThread /\ worker'[t].at = "none" /\ ~worker'[t].made
      /\ worker'[t].outcome = "run" 
  BY <1>2, ThreadFields DEF TypeOK, ThreadRecord
<1>5. Holding' = {} /\ ~Busy(t)'
  BY <1>1, <1>3 DEF Holding, Busy
<1>6. TypeOK'
  BY <1>1, <1>2, <1>3, <1>4 DEF TypeOK, TaskRecord, ThreadRecord
<1>7. TasksInShape'
  BY <1>1, <1>3, <1>4 DEF TasksInShape, Busy
<1>8. QueueInShape'
  BY <1>1, <1>2, <1>3 DEF QueueInShape, Waiting
<1>9. HolderKnown'
  BY <1>2, <1>5 DEF HolderKnown
<1>10. ActiveKnown'
  <2>1. ASSUME NEW u \in Task PROVE Busy(u)' <=> Busy(u) /\ u # t
    BY <1>3, <1>5 DEF Busy
  <2>2. QED
    BY <1>1, <1>2, <1>3, <2>1 DEF ActiveKnown
<1>11. SchedulersKnown'
  <2>1. ASSUME NEW i \in Job, schedulers'[i] \in Task PROVE schedulers'[i] = schedulers[i]
    BY <1>1, <1>3, <2>1, SyncAssumption
  <2>2. ASSUME NEW i \in Job, schedulers'[i] = t PROVE task'[t].kind = "scheduler" /\ i = task[t].job
    BY <1>1, <1>3, <2>1, <2>2 DEF SchedulersKnown
  <2>3. QED
    BY <1>3, <2>1, <2>2 DEF SchedulersKnown
<1>12. PressesKnown'
  BY <1>5 DEF PressesKnown
<1>13. CreatorsMerge'
  BY <1>3 DEF CreatorsMerge
<1>14. CreatorsKnown'
  BY <1>3, <1>4 DEF CreatorsKnown
<1>15. CreatorsBusy'
  <2>1. ASSUME NEW u \in Task, u # t, Busy(u) PROVE task[u].job # task[t].job
    BY <1>1, <2>1 DEF ActiveKnown
  <2>2. ASSUME NEW u \in Task, task'[u].creating # "no", task'[u].job \notin lost'
        PROVE  Busy(u)' /\ task'[u].job \notin dest'
    <3>1. u # t /\ task'[u] = task[u] /\ task[u].job \notin lost
      BY <1>1, <1>3, <2>2
    <3>2. Busy(u) /\ task[u].job \notin dest
      BY <2>2, <3>1 DEF CreatorsBusy
    <3>3. task[u].job # task[t].job
      BY <2>1, <3>1, <3>2
    <3>4. QED
      BY <1>1, <3>1, <3>2, <3>3 DEF Busy
  <2>3. QED
    BY <2>2 DEF CreatorsBusy
<1>16. CreationKnown'
  <2>1. \A i \in Merge \ lost' : i \notin lost
    BY <1>1
  <2>2. ASSUME NEW i \in Merge \ lost', NEW u \in Holding, worker[u].made, task[u].job = i
        PROVE  i \in dest'
    BY <1>1, <2>2
  <2>3. \A i \in dest : i \in dest'
    BY <1>1
  <2>4. QED
    BY <1>1, <2>1, <2>2, <2>3 DEF CreationKnown
<1>17. LockStep
  BY <1>1, <1>2, <1>5 DEF LockStep
<1>18. CutStep
  BY <1>2, FinishCuts DEF CutStep
<1>19. QED
   BY <1>6, <1>7, <1>8, <1>9, <1>10, <1>11, <1>12, <1>13, <1>14, <1>15, <1>16, <1>17, <1>18 DEF
     IInv, GoodStep

\* run_all takes the result of one job and begins the next.
LEMMA FinishGoesOnKeeps ==
  ASSUME IInv, NEW t \in Task, Finish(t), RestAfter(t) # {}
  PROVE  GoodStep
<1> USE SyncAssumption DEF IInv
<1>1. /\ task[t].at = "slot" /\ task[t].kind \in {"scheduler", "run"} /\ task[t].job \in Job
      /\ worker[t].at = "ended" /\ ~task[t].cancelled
      /\ Holding = {t} /\ Busy(t) /\ ~Waiting(t)
      /\ store' \in [Job -> {"new", "off", "on", "deleted"}]
      /\ dest' = IF StoredBy(t) THEN dest \cup {task[t].job} ELSE dest
      /\ dest' \in SUBSET Merge
      /\ lost' = IF worker[t].made /\ ~StoredBy(t) THEN lost \cup {task[t].job} ELSE lost
      /\ lost' \in SUBSET Merge
      /\ UNCHANGED <<master, stopping, made, requests, restarts>>
  BY FinishStores
<1>2. task[t].kind = "run" /\ RestAfter(t) \in SUBSET Job
  BY <1>1 DEF RestAfter, TasksInShape, TypeOK
<1>3. PICK next \in RestAfter(t) : next = Least(RestAfter(t))
  BY <1>2, LeastIsOne
<1>4. next \in Job /\ next \in task[t].rest /\ next \notin active \ {task[t].job}
      /\ store'[next] \in {"off", "on"}
  <2>1. store' = StoreAfter(t)
    BY FinishStores
  <2>2. QED
    BY <1>2, <1>3, <2>1 DEF RestAfter
<1>5. PICK s : /\ s.free <=> queue = <<>>
               /\ s.active = active \ {task[t].job} /\ s.running = None /\ s.pressed = {}
               /\ s.interrupted = InterruptedAfter(t)
               /\ s = [active |-> active \ {task[t].job}, running |-> None, pressed |-> {},
                       free |-> queue = <<>>, interrupted |-> InterruptedAfter(t)]
  <2>1. PICK s : s = [active |-> active \ {task[t].job}, running |-> None, pressed |-> {},
                      free |-> queue = <<>>, interrupted |-> InterruptedAfter(t)]
    OBVIOUS
  <2>2. s.free <=> queue = <<>>
    BY <2>1
  <2>3. QED
    BY <2>1, <2>2
<1>6. PICK creating \in {"no", "off", "on"} :
        /\ creating = IF next \in Merge \ dest' THEN store'[next] ELSE "no"
        /\ creating # "no" => next \in Merge \ dest'
  BY <1>4
<1>7. PICK caller \in TaskRecord :
        /\ caller.kind = "run" /\ caller.job = next /\ ~caller.cancelled
        /\ caller.creating = creating
        /\ Begin(t, caller, s) /\ UNCHANGED schedulers
  <2>1. PICK others \in SUBSET Job : others = {i \in task[t].rest : i > next}
    BY DEF TypeOK
  <2>2. PICK c : c = IF TRUE /\ next \in Merge \ dest THEN store[next] ELSE "no"
    OBVIOUS
  <2>3. PICK i \in TaskRecord : i = Idle /\ ~i.cancelled
    BY TaskFields
  <2>4. PICK r : r = [i EXCEPT !.kind = "run", !.job = next, !.rest = others, !.creating = c]
    OBVIOUS
  <2>5. r = Caller("run", next, TRUE, others)
    BY <2>2, <2>3, <2>4 DEF Caller
  <2>6. PICK caller : caller = [r EXCEPT !.creating = creating]
    OBVIOUS
  <2>7. /\ caller \in TaskRecord /\ caller.kind = "run" /\ caller.job = next /\ ~caller.cancelled
        /\ caller.creating = creating
    BY <1>4, <2>3, <2>4, <2>6 DEF TaskRecord
  <2>8. store' = StoreAfter(t)
    BY FinishStores
  <2>9. Begin(t, caller, s) /\ UNCHANGED schedulers
    BY ZenonT(60), <1>3, <1>5, <1>6, <2>1, <2>5, <2>6, <2>8
    DEF Finish, RestAfter, StoreAfter, StoredBy, InterruptedAfter
  <2>10. QED
    BY <2>7, <2>9
<1>8. /\ task' \in [Task -> TaskRecord] /\ worker' \in [Task -> ThreadRecord]
      /\ \A u \in Task \ {t} : task'[u] = task[u] /\ worker'[u] = worker[u]
      /\ task'[t].kind = "run" /\ task'[t].job = next /\ ~task'[t].cancelled
      /\ task'[t].creating # "no" => next \in Merge \ dest'
      /\ active' = (active \ {task[t].job}) \cup {next}
  BY <1>5, <1>6, <1>7, BeginEffect
<1>9. \/ /\ task'[t].at = "slot" /\ worker'[t] = Running /\ queue' = queue
         /\ runningJob' = next /\ control' = "run" /\ pressed' = {}
         /\ interrupted' = [InterruptedAfter(t) EXCEPT ![next] = "no"]
      \/ /\ task'[t].at = "queued" /\ worker'[t] = NoThread /\ queue' = Append(queue, t)
         /\ runningJob' = None /\ control' = control /\ pressed' = {}
         /\ interrupted' = InterruptedAfter(t)
  BY <1>5, <1>7, BeginEffect
<1>10. /\ runningJob' \in Job \cup {None} /\ control' \in {"run", "pause", "stop"}
       /\ interrupted' \in [Job -> {"no", "paused", "stopped"}] /\ pressed' = {}
  <2>1. InterruptedAfter(t) \in [Job -> {"no", "paused", "stopped"}]
    BY FinishStores
  <2>2. QED
    BY <1>4, <1>9, <2>1 DEF TypeOK
<1>11. /\ queue' \in Seq(Task) /\ \A i, k \in 1..Len(queue') : queue'[i] = queue'[k] => i = k
       /\ \A u \in Task \ {t} : Waiting(u)' <=> Waiting(u)
       /\ Waiting(t)' <=> task'[t].at = "queued" 
  <2>1. CASE queue' = queue /\ task'[t].at = "slot"
    BY <1>1, <2>1 DEF QueueInShape, TypeOK, Waiting
  <2>2. CASE queue' = Append(queue, t) /\ task'[t].at = "queued"
    <3>1. /\ queue' \in Seq(Task) /\ \A i, k \in 1..Len(queue') : queue'[i] = queue'[k] => i = k
          /\ \A u \in Task : Waiting(u)' <=> Waiting(u) \/ u = t
      BY <1>1, <2>2, QueueGrows
    <3>2. QED
      BY <2>2, <3>1
  <2>3. QED
    BY <1>9, <2>1, <2>2
<1>12. /\ task'[t].at = "slot" \/ task'[t].at = "queued"
       /\ task'[t].at = "slot" => /\ worker'[t].at = "running" /\ control' = "run"
                                  /\ runningJob' = next
       /\ task'[t].at = "queued" => worker'[t] = NoThread /\ runningJob' = None
       /\ worker'[t].at # "ended" /\ worker'[t].outcome = "run" /\ ~worker'[t].made
  BY <1>9, ThreadFields
<1>13. Holding' = IF task'[t].at = "slot" THEN {t} ELSE {}
  BY <1>1, <1>8 DEF Holding
<1>14. TypeOK'
  <2>1. active' \in SUBSET Job
    BY <1>4, <1>8 DEF TypeOK
  <2>2. schedulers' \in [Job -> Task \cup {NoTask, Dead}]
    BY <1>7 DEF TypeOK
  <2>3. pressed' \in SUBSET (Job \X {"pause", "stop"})
    BY <1>10
  <2>4. QED
    BY <1>1, <1>8, <1>10, <1>11, <2>1, <2>2, <2>3 DEF TypeOK, TaskRecord, ThreadRecord
<1>15. TasksInShape'
  BY <1>4, <1>8, <1>12 DEF TasksInShape, Busy
<1>16. QueueInShape'
  BY <1>8, <1>11, <1>12 DEF QueueInShape
<1>17. HolderKnown'
  <2>1. CASE task'[t].at = "slot"
    BY <1>8, <1>12, <1>13, <2>1 DEF HolderKnown
  <2>2. CASE task'[t].at = "queued"
    BY <1>12, <1>13, <2>2 DEF HolderKnown
  <2>3. QED
    BY <1>12, <2>1, <2>2
<1>18. ActiveKnown'
  <2>1. ASSUME NEW u \in Task PROVE Busy(u)' <=> Busy(u) \/ u = t
    BY <1>8, <1>12 DEF Busy
  <2>2. \A u \in Task \ {t} : Busy(u) => task[u].job # next
    BY <1>1, <1>4 DEF ActiveKnown
  <2>3. \A u \in Task \ {t} : Busy(u) => task[u].job # task[t].job
    BY <1>1 DEF ActiveKnown
  <2>4. QED
    BY <1>1, <1>8, <2>1, <2>2, <2>3 DEF ActiveKnown
<1>19. SchedulersKnown'
  BY <1>2, <1>7, <1>8 DEF SchedulersKnown
<1>20. PressesKnown'
  BY <1>8, <1>12, <1>13 DEF PressesKnown
<1>21. CreatorsMerge'
  BY <1>8 DEF CreatorsMerge
<1>22. CreatorsKnown'
  BY <1>8, <1>12 DEF CreatorsKnown
<1>23. CreatorsBusy'
  <2>1. ASSUME NEW u \in Task, u # t, Busy(u) PROVE task[u].job # task[t].job
    BY <1>1, <2>1 DEF ActiveKnown
  <2>2. ASSUME NEW u \in Task, u # t, task'[u].creating # "no", task'[u].job \notin lost'
        PROVE  Busy(u)' /\ task'[u].job \notin dest'
    <3>1. task'[u] = task[u] /\ task[u].job \notin lost
      BY <1>1, <1>8, <2>2
    <3>2. Busy(u) /\ task[u].job \notin dest
      BY <2>2, <3>1 DEF CreatorsBusy
    <3>3. task[u].job # task[t].job
      BY <2>1, <2>2, <3>2
    <3>4. QED
      BY <1>1, <3>1, <3>2, <3>3 DEF Busy
  <2>3. Busy(t)' /\ (task'[t].creating # "no" => task'[t].job \notin dest')
    BY <1>8, <1>12 DEF Busy
  <2>4. QED
    BY <2>2, <2>3 DEF CreatorsBusy
<1>24. CreationKnown'
  <2>1. \A i \in Merge \ lost' : i \notin lost
    BY <1>1
  <2>2. ASSUME NEW i \in Merge \ lost', NEW u \in Holding, worker[u].made, task[u].job = i
        PROVE  i \in dest'
    BY <1>1, <2>2
  <2>3. \A i \in dest : i \in dest'
    BY <1>1
  <2>4. QED
    BY <1>1, <2>1, <2>2, <2>3 DEF CreationKnown
<1>25. LockStep
  <2>1. CASE s.free
    BY <1>1, <1>5, <1>7, <1>13, <2>1, BeginEffect DEF LockStep
  <2>2. CASE ~s.free
    <3>1. queue # <<>> /\ Holding = {t} /\ Holding' = {} /\ queue' = Append(queue, t)
      BY <1>1, <1>5, <1>7, <1>13, <2>2, BeginEffect
    <3>2. QED
      BY <3>1 DEF LockStep
  <2>3. QED
    BY <2>1, <2>2
<1>26. CutStep
  <2>1. \A i \in Job : interrupted'[i] \in {InterruptedAfter(t)[i], "no"}
    <3>1. InterruptedAfter(t) \in [Job -> {"no", "paused", "stopped"}]
      BY FinishStores
    <3>2. QED
      BY <1>9, <3>1
  <2>2. QED
    BY <2>1, FinishCuts DEF CutStep
<1>27. QED
   BY <1>14, <1>15, <1>16, <1>17, <1>18, <1>19, <1>20, <1>21, <1>22, <1>23, <1>24, <1>25, <1>26
     DEF IInv, GoodStep

\* A task takes the result of its pass.
LEMMA FinishKeeps ==
  ASSUME IInv, NEW t \in Task, Finish(t)
  PROVE  GoodStep
BY FinishEndsKeeps, FinishGoesOnKeeps

-----------------------------------------------------------------------------
(* Reconciliation of the schedulers, and the process. *)

\* What reconcile() makes of the tasks: new schedulers, cancelled ones and the others.
NewScheduler(t, j) ==
  /\ task[t] = Idle /\ worker[t] = NoThread
  /\ task'[t] = Sleeping(j) /\ schedulers'[j] = t
SameButCancelled(t, marked) ==
  /\ task'[t].kind = task[t].kind /\ task'[t].job = task[t].job /\ task'[t].at = task[t].at
  /\ task'[t].creating = task[t].creating /\ task'[t].rest = task[t].rest
  /\ task'[t].cancelled <=> task[t].cancelled \/ t \in marked

\* The effect of reconcile() on the tasks, the lock's waiters and the list of schedulers.
LEMMA ReconcileEffect ==
  ASSUME IInv, NEW jobs, NEW on, NEW stop, Reconcile(jobs, on, stop)
  PROVE  \E marked \in SUBSET (Task \cup {Dead}) :
           /\ task' \in [Task -> TaskRecord]
           /\ schedulers' \in [Job -> Task \cup {NoTask, Dead}]
           /\ queue' = Uncancelled(queue, marked)
           /\ \A t \in marked \cap Task : task[t].kind = "scheduler" /\ ~task[t].cancelled
           /\ \A t \in Task : \/ \E j \in Job : NewScheduler(t, j)
                              \/ SameButCancelled(t, marked)
           /\ \A j \in Job : schedulers'[j] \in Task =>
                \/ NewScheduler(schedulers'[j], j)
                \/ schedulers'[j] = schedulers[j] /\ schedulers[j] \notin marked
<1> USE SyncAssumption
<1> DEFINE wanted == Scheduled(jobs, on /\ ~stop)
           dropped == {j \in Job \ wanted : schedulers[j] # NoTask}
           added == {j \in wanted : schedulers[j] = NoTask}
           gone == {schedulers[j] : j \in dropped}
<1>1. \E new \in Injection(added, Free) :
        /\ schedulers' = [j \in Job |-> IF j \in dropped THEN NoTask
                                        ELSE IF j \in added THEN new[j] ELSE schedulers[j]]
        /\ task' = Started(added, new, [t \in Task |->
             IF t \in gone THEN [task[t] EXCEPT !.cancelled = TRUE] ELSE task[t]])
        /\ queue' = Uncancelled(queue, gone)
  BY DEF Reconcile
<1>2. /\ wanted \subseteq Job /\ dropped \subseteq Job /\ added \subseteq Job
      /\ \A j \in dropped : schedulers[j] # NoTask
      /\ \A j \in added : schedulers[j] = NoTask
      /\ gone = {schedulers[j] : j \in dropped}
  BY DEF Scheduled
<1>3. \A j \in added : j \notin dropped
  OBVIOUS
<1> HIDE DEF wanted, dropped, added, gone
<1>4. PICK marked : marked = gone
  OBVIOUS
<1>5. PICK new \in Injection(added, Free) :
        /\ schedulers' = [j \in Job |-> IF j \in dropped THEN NoTask
                                        ELSE IF j \in added THEN new[j] ELSE schedulers[j]]
        /\ task' = Started(added, new, [t \in Task |->
             IF t \in marked THEN [task[t] EXCEPT !.cancelled = TRUE] ELSE task[t]])
        /\ queue' = Uncancelled(queue, marked)
  BY <1>1, <1>4
<1>6. \A j \in added : new[j] \in Task /\ task[new[j]] = Idle /\ worker[new[j]] = NoThread
  BY DEF Injection, Free
<1>6a. \A i, j \in added : new[i] = new[j] => i = j
  BY DEF Injection, IsInjective
<1>7. /\ task \in [Task -> TaskRecord] /\ schedulers \in [Job -> Task \cup {NoTask, Dead}]
      /\ \A j \in Job : schedulers[j] \in Task =>
           /\ task[schedulers[j]].kind = "scheduler" /\ task[schedulers[j]].job = j
           /\ ~task[schedulers[j]].cancelled
  BY DEF IInv, TypeOK, TaskRecord, SchedulersKnown
<1>8. /\ marked \in SUBSET (Task \cup {Dead})
      /\ \A t \in marked \cap Task : task[t].kind = "scheduler" /\ ~task[t].cancelled
  <2>1. ASSUME NEW t \in marked PROVE t \in Task \cup {Dead}
    BY <1>2, <1>4, <1>7
  <2>2. ASSUME NEW t \in marked, t \in Task PROVE task[t].kind = "scheduler" /\ ~task[t].cancelled
    BY <1>2, <1>4, <1>7, <2>2
  <2>3. QED
    BY <2>1, <2>2
<1>9. PICK others : others = [t \in Task |->
        IF t \in marked THEN [task[t] EXCEPT !.cancelled = TRUE] ELSE task[t]]
  OBVIOUS
<1>10. task' = Started(added, new, others)
  BY <1>5, <1>9
<1>11. ASSUME NEW t \in Task
       PROVE  /\ \A j \in added : new[j] = t => task'[t] = Sleeping(j)
              /\ (\A j \in added : new[j] # t) => task'[t] = others[t]
  <2>1. /\ \A j \in added : new[j] = t => Started(added, new, others)[t] = Sleeping(j)
        /\ (\A j \in added : new[j] # t) => Started(added, new, others)[t] = others[t]
    BY <1>6a, StartedTask
  <2>2. QED
    BY <1>10, <2>1
<1>12. ASSUME NEW t \in Task
       PROVE  /\ others[t] \in TaskRecord
              /\ others[t].kind = task[t].kind /\ others[t].job = task[t].job
              /\ others[t].at = task[t].at /\ others[t].creating = task[t].creating
              /\ others[t].rest = task[t].rest
              /\ others[t].cancelled <=> task[t].cancelled \/ t \in marked
  <2>1. CASE t \in marked
    <3>1. PICK r \in TaskRecord : r = task[t]
      BY <1>7
    <3>2. others[t] = [r EXCEPT !.cancelled = TRUE]
      BY <1>9, <2>1, <3>1
    <3>3. others[t].cancelled = TRUE /\ others[t] \in TaskRecord
      BY <3>2 DEF TaskRecord
    <3>4. /\ others[t].kind = r.kind /\ others[t].job = r.job /\ others[t].at = r.at
          /\ others[t].creating = r.creating /\ others[t].rest = r.rest
      BY <3>2 DEF TaskRecord
    <3>5. QED
      BY <2>1, <3>1, <3>3, <3>4
  <2>2. CASE t \notin marked
    BY <1>7, <1>9, <2>2
  <2>3. QED
    BY <2>1, <2>2
<1>13. ASSUME NEW j \in added PROVE NewScheduler(new[j], j)
  <2>1. j \notin dropped /\ j \in Job
    BY <1>2, <1>3
  <2>2. schedulers'[j] = new[j]
    BY <1>5, <2>1
  <2>3. QED
    BY <1>6, <1>11, <2>2 DEF NewScheduler
<1>14. ASSUME NEW t \in Task PROVE (\E j \in Job : NewScheduler(t, j)) \/ SameButCancelled(t, marked)
  <2>1. CASE \E j \in added : new[j] = t
    BY <1>2, <1>13, <2>1
  <2>2. CASE \A j \in added : new[j] # t
    BY <1>11, <1>12, <2>2 DEF SameButCancelled
  <2>3. QED
    BY <2>1, <2>2
<1>15. task' \in [Task -> TaskRecord]
  <2>1. task' = [t \in Task |-> task'[t]]
    BY <1>10 DEF Started
  <2>2. ASSUME NEW t \in Task PROVE task'[t] \in TaskRecord
    BY <1>2, <1>11, <1>12, TaskFields
  <2>3. QED
    BY <2>1, <2>2
<1>16. schedulers' \in [Job -> Task \cup {NoTask, Dead}]
  BY <1>5, <1>6, <1>7
<1>17. ASSUME NEW j \in Job, schedulers'[j] \in Task
       PROVE  \/ NewScheduler(schedulers'[j], j)
              \/ schedulers'[j] = schedulers[j] /\ schedulers[j] \notin marked
  <2>1. j \notin dropped
    BY <1>5, <1>17
  <2>2. CASE j \in added
    <3>1. schedulers'[j] = new[j]
      BY <1>5, <2>1, <2>2
    <3>2. QED
      BY <1>13, <2>2, <3>1
  <2>3. CASE j \notin added
    <3>1. schedulers'[j] = schedulers[j]
      BY <1>5, <2>1, <2>3
    <3>2. \A i \in dropped : schedulers[i] # schedulers[j]
      BY <1>2, <1>7, <1>17, <2>1, <3>1
    <3>3. QED
      BY <1>2, <1>4, <3>1, <3>2
  <2>4. QED
    BY <2>2, <2>3
<1>18. queue' = Uncancelled(queue, marked)
  BY <1>5
<1>19. QED
  BY <1>8, <1>14, <1>15, <1>16, <1>17, <1>18

\* reconcile() with whatever it finds.
LEMMA ReconcileKeeps ==
  ASSUME IInv, NEW jobs, NEW on, NEW stop, Reconcile(jobs, on, stop),
         store' \in [Job -> {"new", "off", "on", "deleted"}],
         master' \in BOOLEAN, stopping' \in BOOLEAN, requests' \in 0..MaxRequests,
         UNCHANGED <<dest, active, runningJob, control, interrupted, worker, history, restarts>>
  PROVE  GoodStep
<1> USE SyncAssumption DEF IInv
<1>1. PICK marked \in SUBSET (Task \cup {Dead}) :
        /\ task' \in [Task -> TaskRecord]
        /\ schedulers' \in [Job -> Task \cup {NoTask, Dead}]
        /\ queue' = Uncancelled(queue, marked)
        /\ \A t \in marked \cap Task : task[t].kind = "scheduler" /\ ~task[t].cancelled
        /\ \A t \in Task : (\E j \in Job : NewScheduler(t, j)) \/ SameButCancelled(t, marked)
        /\ \A j \in Job : schedulers'[j] \in Task =>
             \/ NewScheduler(schedulers'[j], j)
             \/ schedulers'[j] = schedulers[j] /\ schedulers[j] \notin marked
  BY ReconcileEffect
<1>2. /\ queue' \in Seq(Task) /\ \A i, k \in 1..Len(queue') : queue'[i] = queue'[k] => i = k
      /\ \A u \in Task : Waiting(u)' <=> Waiting(u) /\ u \notin marked
  BY <1>1, QueueShrinks
<1>3. ASSUME NEW t \in Task, NEW j \in Job, NewScheduler(t, j)
      PROVE  /\ task[t].kind = "none" /\ task[t].at = "none" /\ worker[t] = NoThread
             /\ worker[t].at = "none" /\ worker[t].outcome = "run" /\ ~worker[t].made
             /\ task'[t].kind = "scheduler" /\ task'[t].job = j /\ task'[t].at = "sleep"
             /\ ~task'[t].cancelled /\ task'[t].creating = "no" /\ task'[t].rest = {}
             /\ schedulers'[j] = t
  BY <1>3, TaskFields, ThreadFields DEF NewScheduler
<1>4. UNCHANGED <<dest, active, runningJob, control, interrupted, worker, pressed, made, lost, restarts>>
  BY DEF history
<1>5. \A t \in Task : (Busy(t)' <=> Busy(t)) /\ (Busy(t) => task'[t].job = task[t].job)
  <2>1. ASSUME NEW t \in Task PROVE (Busy(t)' <=> Busy(t)) /\ (Busy(t) => task'[t].job = task[t].job)
    <3>1. CASE \E j \in Job : NewScheduler(t, j)
      BY <1>3, <3>1 DEF Busy
    <3>2. CASE SameButCancelled(t, marked)
      BY <3>2 DEF SameButCancelled, Busy
    <3>3. QED
      BY <1>1, <3>1, <3>2
  <2>2. QED
    BY <2>1
<1>6. Holding' = Holding /\ \A t \in Holding : task'[t].job = task[t].job
  <2>1. ASSUME NEW t \in Task
        PROVE  /\ task'[t].at = "slot" <=> task[t].at = "slot"
               /\ task[t].at = "slot" => task'[t].job = task[t].job
    <3>1. CASE \E j \in Job : NewScheduler(t, j)
      BY <1>3, <3>1
    <3>2. CASE SameButCancelled(t, marked)
      BY <3>2 DEF SameButCancelled
    <3>3. QED
      BY <1>1, <3>1, <3>2
  <2>2. QED
    BY <2>1 DEF Holding
<1>7. TypeOK'
  <2>1. restarts' \in 0..MaxRestarts /\ dest' \in SUBSET Merge
    BY <1>4 DEF TypeOK
  <2>2. QED
    BY <1>1, <1>2, <1>4, <2>1 DEF TypeOK, TaskRecord
<1>8. TasksInShape'
  <2>1. SUFFICES ASSUME NEW t \in Task
                 PROVE  /\ task'[t].kind = "none" <=> task'[t].at = "none"
                        /\ task'[t].kind = "scheduler" => task'[t].rest = {}
                        /\ task'[t].kind \in {"scheduler", "run"} => task'[t].job \in Job
                        /\ task'[t].kind = "exclusive" => task'[t].job = None
                        /\ task'[t].kind \in {"run", "exclusive"} => task'[t].at \in {"queued", "slot"}
                        /\ task'[t].cancelled => task'[t].kind = "scheduler"
                        /\ task'[t].at \in {"sleep", "queued"} => worker[t] = NoThread
                        /\ worker[t].at = "ended" => task'[t].at = "slot"
                        /\ task'[t].at = "slot" => worker[t].at # "none"
                        /\ worker[t].at # "ended" => worker[t].outcome = "run"
    BY <1>4 DEF TasksInShape, Busy
  <2>2. CASE \E j \in Job : NewScheduler(t, j)
    BY <1>3, <2>2
  <2>3. CASE SameButCancelled(t, marked)
    BY <1>1, <2>3 DEF SameButCancelled, TasksInShape, Busy
  <2>4. QED
    BY <1>1, <2>2, <2>3
<1>9. QueueInShape'
  <2>1. ASSUME NEW t \in Task PROVE Waiting(t)' <=> task'[t].at = "queued" /\ ~task'[t].cancelled
    <3>1. CASE \E j \in Job : NewScheduler(t, j)
      BY <1>2, <1>3, <3>1 DEF QueueInShape
    <3>2. CASE SameButCancelled(t, marked)
      BY <1>2, <3>2 DEF SameButCancelled, QueueInShape
    <3>3. QED
      BY <1>1, <3>1, <3>2
  <2>2. QED
    BY <1>2, <2>1 DEF QueueInShape
<1>10. HolderKnown'
  BY <1>4, <1>6 DEF HolderKnown
<1>11. ActiveKnown'
  BY <1>4, <1>5 DEF ActiveKnown
<1>12. SchedulersKnown'
  <2>1. ASSUME NEW j \in Job, schedulers'[j] \in Task
        PROVE  /\ task'[schedulers'[j]].kind = "scheduler" /\ task'[schedulers'[j]].job = j
               /\ ~task'[schedulers'[j]].cancelled
    <3>1. CASE NewScheduler(schedulers'[j], j)
      BY <1>3, <2>1, <3>1
    <3>2. CASE schedulers'[j] = schedulers[j] /\ schedulers[j] \notin marked
      <4>1. PICK t \in Task : t = schedulers[j] /\ t = schedulers'[j] /\ t \notin marked
        BY <2>1, <3>2
      <4>2. task[t].kind = "scheduler" /\ task[t].job = j /\ ~task[t].cancelled
        BY <4>1 DEF SchedulersKnown
      <4>3. SameButCancelled(t, marked)
        BY <1>1, <1>3, <4>2
      <4>4. QED
        BY <4>1, <4>2, <4>3 DEF SameButCancelled
    <3>3. QED
      BY <1>1, <2>1, <3>1, <3>2
  <2>2. QED
    BY <2>1 DEF SchedulersKnown
<1>13. PressesKnown'
  BY <1>4, <1>6 DEF PressesKnown
<1>14. CreatorsMerge'
  <2>1. ASSUME NEW t \in Task, task'[t].creating # "no" PROVE task'[t].job \in Merge
    BY <1>1, <1>3, <2>1 DEF SameButCancelled, CreatorsMerge
  <2>2. QED
    BY <2>1 DEF CreatorsMerge
<1>15. CreatorsKnown'
  <2>1. ASSUME NEW t \in Task, worker[t].made PROVE task'[t].creating # "no" /\ worker[t].at # "none"
    BY <1>1, <1>3, <2>1 DEF SameButCancelled, CreatorsKnown
  <2>2. QED
    BY <1>4, <2>1 DEF CreatorsKnown
<1>16. CreatorsBusy'
  <2>1. ASSUME NEW t \in Task, task'[t].creating # "no", task'[t].job \notin lost
        PROVE  Busy(t) /\ task'[t].job \notin dest
    BY <1>1, <1>3, <2>1 DEF SameButCancelled, CreatorsBusy
  <2>2. QED
    BY <1>4, <1>5, <2>1 DEF CreatorsBusy
<1>17. CreationKnown'
  BY <1>4, <1>6 DEF CreationKnown
<1>18. LockStep
  BY <1>1, <1>6 DEF LockStep
<1>19. CutStep
  BY <1>4 DEF CutStep
<1>20. QED
   BY <1>7, <1>8, <1>9, <1>10, <1>11, <1>12, <1>13, <1>14, <1>15, <1>16, <1>17, <1>18, <1>19 DEF
     IInv, GoodStep

\* Editing the store, the switch, and the end of the service.
LEMMA ReconcilesKeep ==
  ASSUME IInv, Schedule \/ Shutdown \/ \E j \in Job : Edit(j)
  PROVE  GoodStep
<1>1. TypeOK
  BY DEF IInv
<1>2. CASE Schedule
  <2>1. /\ Reconcile(store, master', FALSE) /\ master' = ~master
        /\ UNCHANGED <<store, dest, stopping, active, runningJob, control, interrupted, worker,
                       history, restarts>>
        /\ requests < MaxRequests /\ requests' = requests + 1
    BY <1>2 DEF Schedule, Asked
  <2>2. /\ store' \in [Job -> {"new", "off", "on", "deleted"}]
        /\ master' \in BOOLEAN /\ stopping' \in BOOLEAN /\ requests' \in 0..MaxRequests
    BY <1>1, <2>1, SyncAssumption DEF TypeOK
  <2>3. QED
    BY <2>1, <2>2, ReconcileKeeps
<1>3. CASE Shutdown
  <2>1. /\ Reconcile(store, FALSE, TRUE) /\ stopping' = TRUE
        /\ UNCHANGED <<store, dest, master, active, runningJob, control, interrupted, worker,
                       history, requests, restarts>>
    BY <1>3 DEF Shutdown, durable, bounds
  <2>2. /\ store' \in [Job -> {"new", "off", "on", "deleted"}]
        /\ master' \in BOOLEAN /\ stopping' \in BOOLEAN /\ requests' \in 0..MaxRequests
    BY <1>1, <2>1 DEF TypeOK
  <2>3. QED
    BY <2>1, <2>2, ReconcileKeeps
<1>4. ASSUME NEW j \in Job, Edit(j) PROVE GoodStep
  <2>1. PICK to \in {"off", "on", "deleted"} :
          store' = [store EXCEPT ![j] = to] /\ Reconcile(store', master, FALSE)
    BY <1>4 DEF Edit
  <2>2. /\ UNCHANGED <<dest, master, stopping, active, runningJob, control, interrupted, worker,
                       history, restarts>>
        /\ requests < MaxRequests /\ requests' = requests + 1
    BY <1>4 DEF Edit, Asked
  <2>3. /\ store' \in [Job -> {"new", "off", "on", "deleted"}]
        /\ master' \in BOOLEAN /\ stopping' \in BOOLEAN /\ requests' \in 0..MaxRequests
    BY <1>1, <2>1, <2>2, SyncAssumption DEF TypeOK
  <2>4. QED
    BY <2>1, <2>2, <2>3, ReconcileKeeps
<1>5. QED
  BY <1>2, <1>3, <1>4

\* The process ends and another one starts.
LEMMA RestartKeeps ==
  ASSUME IInv, Restart
  PROVE  GoodStep
<1> USE SyncAssumption DEF IInv
<1>1. PICK first \in SUBSET Job : first = Scheduled(store, master)
  BY DEF Scheduled
<1>2. PICK new \in Injection(first, Task) :
        /\ schedulers' = Listed(first, new)
        /\ task' = Started(first, new, [t \in Task |-> Idle])
  BY <1>1 DEF Restart
<1>3. /\ task' = [t \in Task |-> task'[t]]
      /\ \A t \in Task : task'[t] = Idle \/ \E j \in first : task'[t] = Sleeping(j)
      /\ \A j \in first : new[j] \in Task /\ task'[new[j]] = Sleeping(j)
  <2>1. PICK tasks : tasks = task'
    OBVIOUS
  <2>2. tasks = Started(first, new, [t \in Task |-> Idle])
    BY <1>2, <2>1
  <2>3. /\ tasks = [t \in Task |-> tasks[t]]
        /\ \A t \in Task : tasks[t] = Idle \/ \E j \in first : tasks[t] = Sleeping(j)
        /\ \A j \in first : new[j] \in Task /\ tasks[new[j]] = Sleeping(j)
    BY <2>2, FreshStart
  <2>4. QED
    BY <2>1, <2>3
<1>4. schedulers' = [j \in Job |-> IF j \in first THEN new[j] ELSE NoTask]
  BY <1>2 DEF Listed
<1>5. /\ stopping' = FALSE /\ active' = {} /\ runningJob' = None
      /\ control' = "run" /\ interrupted' = [j \in Job |-> "no"]
      /\ queue' = <<>> /\ worker' = [t \in Task |-> NoThread] /\ pressed' = {}
      /\ UNCHANGED <<store, dest, master, made, requests>>
  BY DEF Restart, durable
<1>6. /\ restarts' \in 0..MaxRestarts /\ lost' \in SUBSET Merge
      /\ \A i \in lost : i \in lost'
      /\ \A i \in Merge, t \in Task : Awaited(t, i) => i \in lost'
  BY DEF Restart, TypeOK
<1>7. ASSUME NEW t \in Task
      PROVE  /\ task'[t] \in TaskRecord /\ task'[t].at \in {"none", "sleep"} /\ ~task'[t].cancelled
             /\ task'[t].kind = IF task'[t].at = "none" THEN "none" ELSE "scheduler"
             /\ task'[t].creating = "no" /\ task'[t].rest = {}
             /\ task'[t].at = "sleep" => task'[t].job \in Job
             /\ worker'[t] = NoThread /\ worker'[t].at = "none" /\ worker'[t].outcome = "run"
             /\ ~worker'[t].made
  BY <1>1, <1>3, <1>5, TaskFields, ThreadFields
<1>8. Holding' = {} /\ \A t \in Task : ~Busy(t)'
  BY <1>7 DEF Holding, Busy
<1>9. TypeOK'
  <2>1. task' \in [Task -> TaskRecord]
    BY <1>3, <1>7
  <2>2. schedulers' \in [Job -> Task \cup {NoTask, Dead}]
    BY <1>3, <1>4
  <2>3. worker' \in [Task -> ThreadRecord] /\ queue' \in Seq(Task)
    BY <1>5, ThreadFields
  <2>4. /\ store' \in [Job -> {"new", "off", "on", "deleted"}] /\ dest' \in SUBSET Merge
        /\ made' \in [Job -> 0..2] /\ requests' \in 0..MaxRequests /\ master' \in BOOLEAN
    BY <1>5 DEF TypeOK
  <2>5. /\ active' \in SUBSET Job /\ runningJob' \in Job \cup {None} /\ stopping' \in BOOLEAN
        /\ control' \in {"run", "pause", "stop"}
        /\ interrupted' \in [Job -> {"no", "paused", "stopped"}]
        /\ pressed' \in SUBSET (Job \X {"pause", "stop"})
    BY <1>5
  <2>6. QED
    BY <1>6, <2>1, <2>2, <2>3, <2>4, <2>5 DEF TypeOK, TaskRecord, ThreadRecord
<1>10. TasksInShape'
  BY <1>7 DEF TasksInShape, Busy
<1>11. QueueInShape'
  BY <1>5, <1>7 DEF QueueInShape, Waiting
<1>12. HolderKnown'
  BY <1>5, <1>8 DEF HolderKnown
<1>13. ActiveKnown'
  BY <1>5, <1>8 DEF ActiveKnown
<1>14. SchedulersKnown'
  BY <1>1, <1>3, <1>4, SyncAssumption, TaskFields DEF SchedulersKnown
<1>15. PressesKnown'
  BY <1>8 DEF PressesKnown
<1>16. CreatorsMerge'
  BY <1>7 DEF CreatorsMerge
<1>17. CreatorsKnown'
  BY <1>7 DEF CreatorsKnown
<1>18. CreatorsBusy'
  BY <1>7 DEF CreatorsBusy
<1>19. CreationKnown'
  <2>1. ASSUME NEW i \in Merge \ lost', made[i] # 0 PROVE made[i] = 1 /\ i \in dest
    <3>1. made[i] = 1 /\ (i \in dest \/ \E t \in Holding : worker[t].made /\ task[t].job = i)
      BY <1>6, <2>1 DEF CreationKnown
    <3>2. \A t \in Task : worker[t].made /\ task[t].job = i => Awaited(t, i)
      BY DEF Awaited, CreatorsKnown
    <3>3. QED
      BY <1>6, <2>1, <3>1, <3>2 DEF Holding
  <2>2. QED
    BY <1>5, <2>1 DEF CreationKnown
<1>20. LockStep
  BY <1>5, <1>8 DEF LockStep
<1>21. CutStep
  BY <1>5 DEF CutStep
<1>22. QED
   BY <1>9, <1>10, <1>11, <1>12, <1>13, <1>14, <1>15, <1>16, <1>17, <1>18, <1>19, <1>20, <1>21
     DEF IInv, GoodStep

-----------------------------------------------------------------------------
(* The theorems. *)

\* A step that changes no variable.
LEMMA StutterKeeps == ASSUME IInv, UNCHANGED vars PROVE GoodStep
<1>1. UNCHANGED <<store, dest, master, stopping, schedulers, active, runningJob, control,
                  interrupted, task, queue, worker, pressed, made, lost, requests, restarts>>
  BY DEF vars, durable, service, history, bounds
<1>2. TypeOK' /\ TasksInShape' /\ QueueInShape' /\ HolderKnown' /\ ActiveKnown'
  BY <1>1 DEF IInv, TypeOK, TasksInShape, QueueInShape, HolderKnown, ActiveKnown, Busy, Waiting,
              Holding
<1>3. /\ SchedulersKnown' /\ PressesKnown' /\ CreatorsMerge' /\ CreatorsKnown' /\ CreatorsBusy'
      /\ CreationKnown'
  BY <1>1 DEF IInv, SchedulersKnown, PressesKnown, CreatorsMerge, CreatorsKnown, CreatorsBusy,
              CreationKnown, Busy, Holding
<1>4. LockStep /\ CutStep
  BY <1>1 DEF LockStep, CutStep, Holding
<1>5. QED
  BY <1>2, <1>3, <1>4 DEF IInv, GoodStep

\* Every step keeps the inductive invariant, the lock's order and the record of the buttons.
LEMMA StepKeeps == IInv /\ [Next]_vars => GoodStep
<1> SUFFICES ASSUME IInv, [Next]_vars PROVE GoodStep
  OBVIOUS
<1>1. ASSUME NEW j \in Job, Edit(j) \/ Run(j) \/ Resume(j) \/ Pause(j) \/ Stop(j) PROVE GoodStep
  BY <1>1, ReconcilesKeep, RunsKeep, PressKeeps DEF Pause, Stop
<1>2. ASSUME Schedule \/ RunAll \/ Exclusive \/ Shutdown \/ Restart PROVE GoodStep
  BY <1>2, ReconcilesKeep, RunsKeep, ExclusiveKeeps, RestartKeeps
<1>3. ASSUME NEW t \in Task, WithdrawExclusive(t) \/ FailThread(t) PROVE GoodStep
  BY <1>3, WithdrawExclusiveKeeps, FailThreadKeeps
<1>4. ASSUME NEW t \in Task, NEW j \in Merge, CreateDestination(t, j) PROVE GoodStep
  BY <1>4, CreateDestinationKeeps
<1>5. ASSUME NEW t \in Task, Progress(t) PROVE GoodStep
  BY <1>5, WakeKeeps, GrantKeeps, FinishKeeps, DeliverCancelKeeps, EndThreadKeeps, OrphanEndKeeps,
     LeaveSlotKeeps DEF Progress
<1>6. QED
  BY <1>1, <1>2, <1>3, <1>4, <1>5, StutterKeeps DEF Next, People, Creation

\* The invariant holds of every state the service reaches.
LEMMA Invariant == Spec => []IInv
<1>1. Init => IInv
  BY InitHolds
<1>2. IInv /\ [Next]_vars => IInv'
  BY StepKeeps DEF GoodStep
<1>3. QED
  BY <1>1, <1>2, PTL DEF Spec

\* In every state: the types, at most one task inside the lock, whose job status() names, and
\* each active job with exactly one task that runs it or queues for it.
THEOREM StatusHolds == Spec => []StatusIsTrue
<1>1. ASSUME IInv PROVE RunningIsHolder
  <2>1. Cardinality(Holding) <= 1
    <3>1. CASE Holding = {}
      BY <3>1, FS_EmptySet
    <3>2. CASE \E t \in Task : Holding = {t}
      BY <3>2, FS_Singleton
    <3>3. Holding = {} \/ \E t \in Task : Holding = {t}
      BY <1>1 DEF IInv, HolderKnown, Holding
    <3>4. QED
      BY <3>1, <3>2, <3>3
  <2>2. None \notin Job
    BY DEF None, Job
  <2>3. QED
    BY <1>1, <2>1, <2>2 DEF RunningIsHolder, IInv, HolderKnown
<1>2. ASSUME IInv PROVE ActiveIsOneRun
  <2>1. SUFFICES ASSUME NEW j \in Job
                 PROVE  Cardinality({t \in Task : Busy(t) /\ task[t].job = j})
                          = IF j \in active THEN 1 ELSE 0
    BY DEF ActiveIsOneRun, Busy
  <2>2. PICK runs : runs = {t \in Task : Busy(t) /\ task[t].job = j}
    OBVIOUS
  <2>3. CASE j \in active
    <3>1. PICK t \in Task : Busy(t) /\ task[t].job = j
      BY <1>2, <2>3 DEF IInv, ActiveKnown
    <3>2. runs = {t}
      BY <1>2, <2>2, <3>1 DEF IInv, ActiveKnown
    <3>3. QED
      BY <2>2, <2>3, <3>2, FS_Singleton
  <2>4. CASE j \notin active
    <3>1. runs = {}
      BY <1>2, <2>2, <2>4 DEF IInv, ActiveKnown
    <3>2. QED
      BY <2>2, <2>4, <3>1, FS_EmptySet
  <2>5. QED
    BY <2>3, <2>4
<1>3. IInv => StatusIsTrue
  BY <1>1, <1>2 DEF StatusIsTrue, IInv
<1>4. QED
  BY <1>3, Invariant, PTL

\* A merge job creates its destination once, unless the result of a pass that did was lost.
THEOREM CreatedOnce == Spec => []DestinationOnce
<1>1. IInv => DestinationOnce
  BY DEF IInv, CreationKnown, DestinationOnce
<1>2. QED
  BY <1>1, Invariant, PTL

\* A pass counts as paused or stopped only by a button that was pressed for its job meanwhile.
THEOREM ButtonsReachTheirPass == Spec => ControlIsOwn
<1>1. CutStep => (\A j \in Job : interrupted'[j] \notin {interrupted[j], "no"} =>
        /\ runningJob = j
        /\ <<j, IF interrupted'[j] = "paused" THEN "pause" ELSE "stop">> \in pressed)
  BY DEF CutStep
<1>2. IInv /\ [Next]_vars => CutStep
  BY StepKeeps DEF GoodStep
<1>3. QED
  BY <1>1, <1>2, Invariant, PTL DEF Spec, ControlIsOwn

-----------------------------------------------------------------------------
(* The lock keeps the promise of EngineSlot. *)

\* Who EngineSlot says holds the slot.
LEMMA HolderIs ==
  /\ Holding = {} => Holder = NoTask
  /\ \A t \in Task : Holding = {t} => Holder = t
BY DEF Holder

LEMMA HolderBecomes ==
  /\ Holding' = {} => Holder' = NoTask
  /\ \A t \in Task : Holding' = {t} => Holder' = t
BY DEF Holder

\* The waiters of EngineSlot are those of the lock, and cancelling some is withdrawing them.
LEMMA WithdrawIs ==
  ASSUME IInv, NEW marked, queue' = Uncancelled(queue, marked), Holder' = Holder
  PROVE  Slot!Next
<1>1. queue \in Seq(Task) /\ \A i \in 1..Len(queue) : queue[i] \in Task
  BY DEF IInv, TypeOK
<1>2. PICK some : some = {c \in Task : c \in marked /\ Waiting(c)}
  OBVIOUS
<1>3. \A c \in some : Slot!Waits(c)
  BY <1>1, <1>2 DEF Slot!Waits, Waiting
<1>4. PICK others : others = Task \ marked
  OBVIOUS
<1>5. PICK rest : rest = Task \ some
  OBVIOUS
<1>6. Kept(queue, others) = Kept(queue, rest)
  <2>1. \A i \in 1..Len(queue) : queue[i] \in others <=> queue[i] \in rest
    BY <1>1, <1>2, <1>4, <1>5 DEF Waiting
  <2>2. QED
    BY <1>1, <2>1, KeptAgrees
<1>7. queue' = Kept(queue, Task \ some)
  BY <1>4, <1>5, <1>6 DEF Uncancelled
<1>8. Slot!Kept(queue, Task \ some) = Kept(queue, Task \ some)
  BY DEF Slot!Kept, Kept, Slot!Positions, Positions, Slot!Rank, Rank,
         Slot!Cardinality, Cardinality
<1>9. Slot!Withdraw(some)
  BY <1>3, <1>7, <1>8 DEF Slot!Withdraw
<1>10. some \in SUBSET Task
  BY <1>2
<1>11. QED
  BY <1>9, <1>10 DEF Slot!Next

\* Every step of the service is a step of EngineSlot, or none.
LEMMA LockImplements ==
  ASSUME IInv, LockStep
  PROVE  [Slot!Next]_(Slot!vars)
<1> USE SyncAssumption
<1>1. /\ \A t \in Task : Waiting(t) <=> Slot!Waits(t)
      /\ \A t \in Task : Holding = {} \/ Holding = {t} \/ t \notin Holding
  BY DEF IInv, TypeOK, Waiting, Slot!Waits, HolderKnown
<1>0. Holding' = Holding => Holder' = Holder
  <2>1. Holding = {} \/ \E t \in Task : Holding = {t}
    BY <1>1 DEF Holding
  <2>2. QED
    BY <2>1, HolderIs, HolderBecomes
<1>2. CASE Holding' = Holding /\ queue' = queue
  BY <1>0, <1>2 DEF Slot!vars
<1>3. ASSUME NEW t \in Task, Holding = {}, queue = <<>>, Holding' = {t}, queue' = queue
      PROVE  Slot!Next
  <2>1. Holder = NoTask /\ Holder' = t
    BY <1>3, HolderIs, HolderBecomes
  <2>2. ~Slot!Waits(t)
    BY <1>3, EmptySeq DEF Slot!Waits
  <2>3. Slot!Ask(t)
    BY <1>3, <2>1, <2>2 DEF Slot!Ask
  <2>4. QED
    BY <2>3 DEF Slot!Next
<1>4. ASSUME NEW t \in Task, t \notin Holding, ~Waiting(t), ~(Holding = {} /\ queue = <<>>),
             Holding' = Holding, queue' = Append(queue, t)
      PROVE  Slot!Next
  <2>1. Holder' = Holder
    BY <1>0, <1>4
  <2>2. Holder # t /\ (Holder = NoTask => Holding = {})
    BY <1>4, HolderIs DEF Holder, Holding
  <2>3. Slot!Ask(t)
    BY <1>1, <1>4, <2>1, <2>2 DEF Slot!Ask
  <2>4. QED
    BY <2>3 DEF Slot!Next
<1>5. ASSUME Holding = {}, queue # <<>>, Holding' = {Head(queue)}, queue' = Tail(queue)
      PROVE  Slot!Next
  <2>1. Head(queue) \in Task
    BY <1>5, HeadTailProperties DEF IInv, TypeOK
  <2>2. Holder = NoTask /\ Holder' = Head(queue)
    BY <1>5, <2>1, HolderIs, HolderBecomes
  <2>3. Slot!Grant
    BY <1>5, <2>2 DEF Slot!Grant
  <2>4. QED
    BY <2>3 DEF Slot!Next
<1>6. ASSUME NEW t \in Task, Holding = {t}, Holding' = {}, queue' = queue
      PROVE  Slot!Next
  BY <1>6, HolderIs, HolderBecomes DEF Slot!Release, Slot!Next
<1>7. ASSUME NEW t \in Task, Holding = {t}, queue # <<>>, Holding' = {}, queue' = Append(queue, t)
      PROVE  Slot!Next
  BY <1>7, HolderIs, HolderBecomes DEF Slot!ReleaseAndAsk, Slot!Next
<1>8. ASSUME NEW marked, Holding' = Holding, queue' = Uncancelled(queue, marked)
      PROVE  Slot!Next
  BY <1>0, <1>8, WithdrawIs
<1>9. CASE Holding' = {} /\ queue' = <<>>
  BY <1>9, HolderBecomes DEF Slot!Reset, Slot!Next
<1>10. QED
  BY <1>2, <1>3, <1>4, <1>5, <1>6, <1>7, <1>8, <1>9 DEF LockStep

\* The tasks of the sync service use their lock as EngineSlot says: one holder, first come
\* first served, and a cancelled waiter is forgotten.
THEOREM LockIsEngineSlot == Spec => ImplementsEngineSlot
<1>1. Init => Slot!Init
  <2>1. SUFFICES ASSUME Init PROVE Slot!Init
    OBVIOUS
  <2>2. Holding = {} /\ queue = <<>>
    <3>1. PICK first \in SUBSET Job : first = Scheduled(store, master)
      BY DEF Scheduled
    <3>2. PICK new \in Injection(first, Task) : task = Started(first, new, [t \in Task |-> Idle])
      BY <2>1, <3>1 DEF Init
    <3>3. \A t \in Task : task[t] = Idle \/ \E j \in first : task[t] = Sleeping(j)
      BY <3>2, FreshStart
    <3>4. QED
      BY <2>1, <3>1, <3>3, TaskFields DEF Holding, Init
  <2>3. QED
    BY <2>2, HolderIs DEF Slot!Init
<1>2. IInv /\ [Next]_vars => [Slot!Next]_(Slot!vars)
  BY StepKeeps, LockImplements DEF GoodStep
<1>3. QED
  BY <1>1, <1>2, Invariant, PTL DEF Spec, ImplementsEngineSlot, Slot!Spec
=============================================================================
