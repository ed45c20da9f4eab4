--------------------------- MODULE TransfersProof ---------------------------
(***************************************************************************)
(* What holds of Transfers for any number of transfers and tracks, any     *)
(* catalog, whatever the resolver finds and the provider declines, any     *)
(* batch size and any bounds.                                              *)
(***************************************************************************)
EXTENDS Transfers, SubsequenceProof

-----------------------------------------------------------------------------
(* The inductive invariant: what holds of one transfer, and of the lock     *)
(* and the playlists.                                                       *)

Conflict == [state : {"no", "open", "chosen", "applied"}, id : Id \cup {NoId}]
WorkerRecord == [at : {"none", "setup", "match", "poll", "send", "ended", "failed"},
                 apply : BOOLEAN, pending : [Track -> Id \cup {NoId}], base : Counts,
                 adds : Seq(Track \X Id), whole : BOOLEAN, written : Counts,
                 missed : SUBSET Track, applied : SUBSET Track, completed : BOOLEAN]
ResolverRecord == [at : {"none", "checked", "late", "saving"}, track : Track \cup {1},
                   id : Id \cup {NoId}, live : BOOLEAN, snapshot : Record \cup {<<>>}]

InQueue(c) == \E i \in 1..Len(queue) : queue[i] = c

\* It runs exactly while it holds the lock and has a thread, and waits exactly while queued.
InSlot(j) ==
  /\ status[j] = "running" <=> holder = j
  /\ status[j] = "running" <=> worker[j].at # "none"
  /\ status[j] = "queued" <=> InQueue(j)

\* A thread past its setup has a destination, of those created it is the only one.
TargetKnown(j) ==
  /\ worker[j].at \in {"match", "poll", "send", "ended"} => dest[j] # NoPlaylist
  /\ status[j] = "new" => created[j] = 0
  /\ dest[j] = NoPlaylist /\ status[j] # "gone" => created[j] = 0
  /\ created[j] <= 1

\* The rows that are left are of different tracks, and none was written before.
RowsAreNew(j) == worker[j].at \in {"poll", "send"} =>
  \A i \in 1..Len(worker[j].adds) :
    /\ <<dest[j], worker[j].adds[i][1], worker[j].adds[i][2]>> \notin copied
    /\ \A k \in 1..Len(worker[j].adds) : worker[j].adds[i][1] = worker[j].adds[k][1] => i = k

\* A thread that applies people's choices writes these, and those it counts as applied are there.
RowsAreChoices(j) == worker[j].apply =>
  /\ worker[j].at \in {"poll", "send"} => \A i \in 1..Len(worker[j].adds) :
       /\ worker[j].pending[worker[j].adds[i][1]] # NoId
       /\ worker[j].pending[worker[j].adds[i][1]] = worker[j].adds[i][2]
  /\ worker[j].at \in {"poll", "send", "ended"} => \A t \in worker[j].applied :
       worker[j].pending[t] # NoId => worker[j].pending[t] \in contents[dest[j]]

\* They are still the choices of the conflicts, unless a resolve() came late.
ChoicesStand(j) == j \notin raced /\ worker[j].at # "none" /\ worker[j].apply =>
  \A t \in Track : worker[j].pending[t] # NoId => conflict[j][t].id = worker[j].pending[t]

\* A resolve() that was let in is late from the moment the job goes on.
ResolverKnown(j) ==
  /\ resolver[j].at # "none" =>
       status[j] \notin {"new", "gone"} /\ resolver[j].track \in Track
  /\ resolver[j].at = "checked" =>
       /\ status[j] \notin {"queued", "running"}
       /\ resolver[j].live => conflict[j][resolver[j].track].state # "applied"
  /\ resolver[j].at = "saving" =>
       resolver[j].snapshot \in Record /\ resolver[j].snapshot.added <= confirmed[j]

\* An applied match has a destination it is on.
AppliedInShape(j) ==
  /\ status[j] = "new" => \A t \in Track : conflict[j][t].state # "applied"
  /\ j \notin raced => \A t \in Track : conflict[j][t].state = "applied" =>
       dest[j] # NoPlaylist /\ conflict[j][t].id \in contents[dest[j]]

\* The record of a job that nothing works on is the job's state.
RecordFollows(j) ==
  j \notin raced /\ status[j] \in {"paused"} \cup Terminal => hist[j] = Snapshot(j)

\* At most these additions are still to come without another request.
StillToCome(j) ==
  IF status[j] = "queued" \/ worker[j].at \in {"setup", "match"} THEN NumTracks
  ELSE IF worker[j].at \in {"poll", "send"} THEN Len(worker[j].adds) ELSE 0

\* The thread counts on from what was confirmed before; there is one run per request.
CountKnown(j) ==
  /\ status[j] # "gone" => added[j] = confirmed[j]
  /\ status[j] = "new" => confirmed[j] = 0
  /\ hist[j].added <= confirmed[j]
  /\ worker[j].at # "none" => added[j] = worker[j].base + worker[j].written
  /\ confirmed[j] + StillToCome(j) <= NumTracks * requests

\* A write that is under way or to come is the first since a button was accepted.
FirstWrite(j) ==
  /\ control[j] = "run" => since[j] = 0
  /\ status[j] = "queued" \/ worker[j].at \in {"setup", "match", "send"} => since[j] = 0
  /\ since[j] <= 1

JobInv(j) ==
  /\ InSlot(j) /\ TargetKnown(j) /\ RowsAreNew(j) /\ RowsAreChoices(j) /\ ChoicesStand(j)
  /\ ResolverKnown(j) /\ AppliedInShape(j) /\ RecordFollows(j) /\ CountKnown(j) /\ FirstWrite(j)

\* Nobody waits twice.
QueueDistinct == \A i, k \in 1..Len(queue) : queue[i] = queue[k] => i = k

\* What was written is there.
WrittenIsThere == \A e \in copied : e[3] \in contents[e[1]]

IInv == TypeOK /\ QueueDistinct /\ WrittenIsThere /\ CopiedOnce /\ \A j \in Job : JobInv(j)

-----------------------------------------------------------------------------
(* What steps have in common. *)

\* The types of one transfer's state.
Typed(j) ==
  /\ status[j] \in {"new", "queued", "running", "paused", "gone"} \cup Terminal
  /\ control[j] \in {"run", "pause", "stop"}
  /\ dest[j] \in Playlist \cup {NoPlaylist} /\ applying[j] \in BOOLEAN /\ added[j] \in Counts
  /\ conflict[j] \in [Track -> Conflict] /\ worker[j] \in WorkerRecord
  /\ resolver[j] \in ResolverRecord /\ hist[j] \in Record
  /\ confirmed[j] \in Counts /\ created[j] \in 0..2 /\ since[j] \in 0..2
  /\ aborted[j] \in BOOLEAN

\* A job is untouched by a step.
Untouched(i) ==
  /\ status'[i] = status[i] /\ control'[i] = control[i] /\ dest'[i] = dest[i]
  /\ added'[i] = added[i] /\ conflict'[i] = conflict[i] /\ worker'[i] = worker[i]
  /\ resolver'[i] = resolver[i] /\ hist'[i] = hist[i] /\ confirmed'[i] = confirmed[i]
  /\ created'[i] = created[i] /\ since'[i] = since[i]
  /\ holder' = i <=> holder = i
  /\ InQueue(i)' <=> InQueue(i)
  /\ i \in raced' <=> i \in raced
  /\ worker[i].at \in {"poll", "send"} => copied' = copied

\* Playlists only grow, and requests are counted.
Grows ==
  /\ \A p \in Playlist : contents[p] \subseteq contents'[p]
  /\ requests' \in Int /\ requests <= requests'

\* The state of a transfer has its types.
LEMMA TypesOfOne ==
  ASSUME TypeOK, NEW j \in Job
  PROVE  Typed(j)
<1>1. status[j] \in {"new", "queued", "running", "paused", "gone"} \cup Terminal
  BY DEF TypeOK
<1>2. /\ control[j] \in {"run", "pause", "stop"} /\ dest[j] \in Playlist \cup {NoPlaylist}
      /\ applying[j] \in BOOLEAN /\ added[j] \in Counts
  BY DEF TypeOK
<1>3. conflict[j] \in [Track -> Conflict]
  BY DEF TypeOK, Conflict
<1>4. worker[j] \in WorkerRecord
  BY DEF TypeOK, WorkerRecord
<1>5. resolver[j] \in ResolverRecord
  BY DEF TypeOK, ResolverRecord
<1>6. /\ hist[j] \in Record /\ confirmed[j] \in Counts /\ created[j] \in 0..2
      /\ since[j] \in 0..2 /\ aborted[j] \in BOOLEAN
  BY DEF TypeOK
<1>7. QED
  BY <1>1, <1>2, <1>3, <1>4, <1>5, <1>6 DEF Typed

\* More requests allow for more.
LEMMA Monotone ==
  ASSUME NEW n \in Nat, NEW a \in Int, NEW b \in Int, a <= b
  PROVE  n * a <= n * b /\ n * (a + 1) = n * a + n
  OBVIOUS

\* What fits the requests fits the bound of the counts.
LEMMA Countable ==
  ASSUME NEW j \in Job, NEW n \in Nat, NEW r \in 0..MaxRequests, n <= NumTracks * r
  PROVE  n \in Counts
<1>1. /\ NumJobs \in Nat /\ NumJobs >= 1 /\ NumTracks \in Nat /\ MaxRequests \in Nat
      /\ r \in Int /\ r <= MaxRequests + 1
  BY TransfersAssumption DEF Job
<1>2. NumTracks * r <= NumTracks * (MaxRequests + 1)
  BY <1>1, Monotone
<1>3. PICK k \in Nat : k = NumTracks * (MaxRequests + 1)
  BY <1>1
<1>4. k * 1 <= k * NumJobs /\ k * 1 = k /\ k * NumJobs = NumJobs * NumTracks * (MaxRequests + 1)
  BY <1>1, <1>3, Monotone
<1>5. NumJobs * NumTracks * (MaxRequests + 1) \in Nat
  BY <1>1
<1>6. QED
  BY <1>1, <1>2, <1>3, <1>4, <1>5 DEF Counts

\* A count is a number.
LEMMA CountsAreInt ==
  ASSUME NEW n \in Counts
  PROVE  n \in Nat
<1>1. NumJobs \in Nat /\ NumTracks \in Nat /\ MaxRequests \in Nat
  BY TransfersAssumption
<1>2. NumJobs * NumTracks * (MaxRequests + 1) \in Nat
  BY <1>1
<1>3. QED
  BY <1>2 DEF Counts

\* What is still to come is a number.
LEMMA StillTyped ==
  ASSUME TypeOK, NEW j \in Job
  PROVE  StillToCome(j) \in Nat
<1>1. worker[j].adds \in Seq(Track \X Id)
  BY TypesOfOne DEF Typed, WorkerRecord
<1>2. Len(worker[j].adds) \in Nat
  BY <1>1, LenProperties
<1>3. QED
  BY <1>2, TransfersAssumption DEF StillToCome

\* No more than before is confirmed or to come.
LEMMA FitsStill ==
  ASSUME TypeOK, NEW j \in Job, CountKnown(j), requests' \in Int, requests <= requests',
         confirmed'[j] = confirmed[j], StillToCome(j)' \in Int, StillToCome(j)' <= StillToCome(j)
  PROVE  confirmed'[j] + StillToCome(j)' <= NumTracks * requests'
<1>1. NumTracks \in Nat /\ requests \in Int
  BY TransfersAssumption DEF TypeOK
<1>2. /\ NumTracks * requests <= NumTracks * requests'
      /\ NumTracks * requests \in Int /\ NumTracks * requests' \in Int
  BY <1>1, Monotone
<1>3. confirmed[j] \in Int /\ StillToCome(j) \in Int
  <2>1. confirmed[j] \in Counts
    BY TypesOfOne DEF Typed
  <2>2. QED
    BY <2>1, CountsAreInt, StillTyped
<1>4. confirmed[j] + StillToCome(j) <= NumTracks * requests
  BY DEF CountKnown
<1>5. QED
  BY <1>2, <1>3, <1>4

\* A step keeps what holds of the jobs it does not touch.
LEMMA OthersKeep ==
  ASSUME IInv, NEW i \in Job, Untouched(i), Grows
  PROVE  JobInv(i)'
<1>1. JobInv(i) /\ Typed(i)
  BY TypesOfOne DEF IInv
<1>2. InSlot(i)'
  BY <1>1 DEF JobInv, InSlot, Untouched
<1>3. TargetKnown(i)'
  BY <1>1 DEF JobInv, TargetKnown, Untouched
<1>4. RowsAreNew(i)'
  BY <1>1 DEF JobInv, RowsAreNew, Untouched
<1>5. RowsAreChoices(i)'
  <2>1. ASSUME worker[i].at \in {"poll", "send", "ended"}
        PROVE  contents[dest[i]] \subseteq contents'[dest[i]]
    BY <1>1, <2>1 DEF JobInv, TargetKnown, Typed, Grows
  <2>2. QED
    BY <1>1, <2>1 DEF JobInv, RowsAreChoices, Untouched
<1>6. ChoicesStand(i)'
  BY <1>1 DEF JobInv, ChoicesStand, Untouched
<1>7. ResolverKnown(i)'
  BY <1>1 DEF JobInv, ResolverKnown, Untouched
<1>8. AppliedInShape(i)'
  <2>1. ASSUME dest[i] # NoPlaylist
        PROVE  contents[dest[i]] \subseteq contents'[dest[i]]
    BY <1>1, <2>1 DEF Typed, Grows
  <2>2. QED
    BY <1>1, <2>1 DEF JobInv, AppliedInShape, Untouched
<1>9. RecordFollows(i)'
  BY <1>1 DEF JobInv, RecordFollows, Snapshot, Untouched
<1>10. CountKnown(i)'
   <2>1. StillToCome(i)' = StillToCome(i)
     BY DEF StillToCome, Untouched
   <2>2. confirmed'[i] + StillToCome(i)' <= NumTracks * requests'
     <3>1. TypeOK /\ CountKnown(i) /\ confirmed'[i] = confirmed[i] /\ requests' \in Int
           /\ requests <= requests'
       BY <1>1 DEF IInv, JobInv, Untouched, Grows
     <3>2. StillToCome(i) \in Nat
       BY <3>1, StillTyped
     <3>3. QED
       BY <2>1, <3>1, <3>2, FitsStill
   <2>3. QED
     BY <1>1, <2>2 DEF JobInv, CountKnown, Untouched
<1>11. FirstWrite(i)'
   BY <1>1 DEF JobInv, FirstWrite, Untouched
<1>12. QED
   BY <1>2, <1>3, <1>4, <1>5, <1>6, <1>7, <1>8, <1>9, <1>10, <1>11 DEF JobInv

-----------------------------------------------------------------------------
(* The lock.  Clients other than the one that moves keep their place. *)

Clients == Job \cup {Sync}

\* What holds of the lock in every state, and what its every step keeps.
LockTyped == queue \in Seq(Clients) /\ holder \in Clients \cup {NoOne}
OthersWait(c) == \A d \in Clients \ {c} :
  (InQueue(d)' <=> InQueue(d)) /\ (holder' = d <=> holder = d)

\* A client that asks gets the lock or the last place in the queue.
LEMMA AskLock ==
  ASSUME LockTyped, QueueDistinct, NEW c \in Clients, Slot!Ask(c)
  PROVE  /\ LockTyped' /\ QueueDistinct' /\ OthersWait(c)
         /\ holder # c /\ ~InQueue(c)
         /\ InQueue(c)' <=> holder' # c
<1>1. c # holder /\ ~InQueue(c)
  BY DEF Slot!Ask, Slot!Waits, InQueue, LockTyped
<1>2. CASE holder = NoOne /\ queue = <<>>
  <2>1. holder' = c /\ queue' = queue /\ Len(queue) = 0
    BY <1>2 DEF Slot!Ask
  <2>2. c # NoOne /\ \A d \in Clients : d # NoOne
    BY DEF Clients, Job, Sync, NoOne
  <2>3. QED
    BY <1>1, <1>2, <2>1, <2>2 DEF LockTyped, QueueDistinct, OthersWait, InQueue
<1>3. CASE ~(holder = NoOne /\ queue = <<>>)
  <2>1. queue' = Append(queue, c) /\ holder' = holder
    BY <1>3 DEF Slot!Ask
  <2>2. /\ Len(queue) \in Nat /\ queue' \in Seq(Clients) /\ Len(queue') = Len(queue) + 1
        /\ \A i \in 1..Len(queue) : queue'[i] = queue[i]
        /\ queue'[Len(queue) + 1] = c
    BY <2>1, AppendProperties, LenProperties DEF LockTyped
  <2>3. QueueDistinct'
    BY <1>1, <2>2 DEF QueueDistinct, InQueue
  <2>4. InQueue(c)' /\ \A d \in Clients \ {c} : InQueue(d)' <=> InQueue(d)
    BY <2>2 DEF InQueue
  <2>5. QED
    BY <1>1, <2>1, <2>2, <2>3, <2>4 DEF LockTyped, OthersWait
<1>4. QED
  BY <1>2, <1>3

\* The lock goes to the first in the queue.
LEMMA GrantLock ==
  ASSUME LockTyped, QueueDistinct, NEW c, holder' = c, Slot!Grant
  PROVE  /\ LockTyped' /\ QueueDistinct' /\ OthersWait(c)
         /\ holder = NoOne /\ c \in Clients /\ InQueue(c) /\ ~InQueue(c)'
<1>1. holder = NoOne /\ queue # <<>> /\ c = Head(queue) /\ queue' = Tail(queue)
  BY DEF Slot!Grant
<1>2. /\ queue' \in Seq(Clients) /\ Len(queue) \in Nat \ {0} /\ c = queue[1]
      /\ Len(queue') = Len(queue) - 1 /\ \A i \in 1..Len(queue') : queue'[i] = queue[i + 1]
  BY <1>1, HeadTailProperties, EmptySeq, LenProperties DEF LockTyped
<1>3. c \in Clients /\ InQueue(c)
  BY <1>2 DEF InQueue, LockTyped
<1>4. QueueDistinct'
  BY <1>2 DEF QueueDistinct
<1>5. ASSUME InQueue(c)' PROVE FALSE
  <2>1. PICK i \in 1..Len(queue') : queue'[i] = c
    BY <1>5 DEF InQueue
  <2>2. i + 1 \in 1..Len(queue) /\ queue[i + 1] = queue[1] /\ 1 \in 1..Len(queue) /\ i + 1 # 1
    BY <1>2, <2>1
  <2>3. QED
    BY <2>2 DEF QueueDistinct
<1>6. ASSUME NEW d \in Clients, d # c
      PROVE  (InQueue(d)' <=> InQueue(d)) /\ (holder' = d <=> holder = d)
  <2>1. ASSUME InQueue(d)' PROVE InQueue(d)
    <3>1. PICK i \in 1..Len(queue') : queue'[i] = d
      BY <2>1 DEF InQueue
    <3>2. i + 1 \in 1..Len(queue) /\ queue[i + 1] = d
      BY <1>2, <3>1
    <3>3. QED
      BY <3>2 DEF InQueue
  <2>2. ASSUME InQueue(d) PROVE InQueue(d)'
    <3>1. PICK i \in 1..Len(queue) : queue[i] = d
      BY <2>2 DEF InQueue
    <3>2. i # 1
      BY <1>2, <1>6, <3>1
    <3>3. i - 1 \in 1..Len(queue') /\ queue'[i - 1] = queue[(i - 1) + 1] /\ (i - 1) + 1 = i
      BY <1>2, <3>1, <3>2
    <3>4. QED
      BY <3>1, <3>3 DEF InQueue
  <2>3. holder # d
    BY <1>1, <1>6 DEF Clients, Job, Sync, NoOne
  <2>4. QED
    BY <1>6, <2>1, <2>2, <2>3
<1>7. QED
  BY <1>1, <1>2, <1>3, <1>4, <1>5, <1>6 DEF LockTyped, OthersWait

\* The holder leaves.
LEMMA ReleaseLock ==
  ASSUME LockTyped, QueueDistinct, NEW c \in Clients, holder = c, Slot!Release
  PROVE  /\ LockTyped' /\ QueueDistinct' /\ OthersWait(c)
         /\ holder' = NoOne /\ (InQueue(c)' <=> InQueue(c))
<1>1. holder' = NoOne /\ queue' = queue
  BY DEF Slot!Release
<1>2. \A d \in Clients : d # NoOne
  BY DEF Clients, Job, Sync, NoOne
<1>3. QED
  BY <1>1, <1>2 DEF LockTyped, QueueDistinct, OthersWait, InQueue

\* Filtering the queue is the same operation wherever it is named.
LEMMA SlotKept ==
  ASSUME NEW s, NEW S
  PROVE  Slot!Kept(s, S) = Kept(s, S)
BY DEF Slot!Kept, Kept, Slot!Positions, Positions, Slot!Rank, Rank, Slot!Cardinality, Cardinality

\* A client that is cancelled leaves the queue.
LEMMA WithdrawLock ==
  ASSUME LockTyped, QueueDistinct, NEW c \in Clients, Slot!Withdraw({c})
  PROVE  /\ LockTyped' /\ QueueDistinct' /\ OthersWait(c)
         /\ holder' = holder /\ ~InQueue(c)'
<1>1. PICK S : S = Clients \ {c}
  OBVIOUS
<1>2. PICK q \in Seq(Clients) : q = queue
  BY DEF LockTyped
<1>3. queue' = Kept(q, S) /\ holder' = holder
  BY <1>1, <1>2, SlotKept DEF Slot!Withdraw, Clients
<1>4. \A i, k \in 1..Len(q) : q[i] = q[k] => i = k
  BY <1>2 DEF QueueDistinct
<1>5. /\ queue' \in Seq(Clients)
      /\ \A x : InQueue(x)' <=> x \in S /\ InQueue(x)
  BY <1>2, <1>3, KeptElements DEF InQueue
<1>6. QueueDistinct'
  BY <1>3, <1>4, KeptDistinct DEF QueueDistinct
<1>7. QED
  BY <1>1, <1>3, <1>5, <1>6 DEF LockTyped, OthersWait

-----------------------------------------------------------------------------
(* People's actions. *)

\* A record is saved as the job is then.
LEMMA Saves ==
  ASSUME TypeOK, NEW j \in Job, Saved(j), Snapshot(j)' \in Record
  PROVE  /\ hist' \in [Job -> Record] /\ hist'[j] = Snapshot(j)' /\ hist'[j].added = added'[j]
         /\ \A i \in Job \ {j} : hist'[i] = hist[i]
<1>1. hist \in [Job -> Record] /\ hist' = [hist EXCEPT ![j] = Snapshot(j)']
  BY DEF TypeOK, Saved
<1>2. Snapshot(j)'.added = added'[j]
  BY DEF Snapshot
<1>3. QED
  BY <1>1, <1>2

\* No count is a count.
LEMMA ZeroCounts == 0 \in Counts
<1>1. NumJobs \in Nat /\ NumTracks \in Nat /\ MaxRequests \in Nat
  BY TransfersAssumption
<1>2. NumJobs * NumTracks * (MaxRequests + 1) \in Nat
  BY <1>1
<1>3. QED
  BY <1>2 DEF Counts

\* A job that nothing works on.
LEMMA RestingFields ==
  /\ Resting \in WorkerRecord /\ Resting.at = "none" /\ ~Resting.apply
<1>1. NoChoice \in [Track -> Id \cup {NoId}] /\ <<>> \in Seq(Track \X Id)
  BY DEF NoChoice
<1>2. QED
  BY <1>1, ZeroCounts DEF Resting, WorkerRecord

\* What a thread starts from: people's choices, and what was confirmed so far.
Begins(w, j, apply) ==
  /\ w.at = "setup" /\ w.apply = apply /\ w.base = added[j] /\ w.written = 0
  /\ \A t \in Track : w.pending[t] # NoId =>
       conflict[j][t].state = "chosen" /\ conflict[j][t].id = w.pending[t]

\* A thread starts from what was confirmed so far, with people's choices or without.
LEMMA StartingFields ==
  ASSUME TypeOK, NEW j \in Job, NEW apply \in BOOLEAN
  PROVE  Starting(j, apply) \in WorkerRecord /\ Begins(Starting(j, apply), j, apply)
<1>1. Typed(j)
  BY TypesOfOne
<1>2. PICK p \in [Track -> Id \cup {NoId}] :
        /\ p = IF apply THEN Pending(j) ELSE NoChoice
        /\ \A t \in Track : p[t] # NoId =>
             conflict[j][t].state = "chosen" /\ conflict[j][t].id = p[t]
  <2>1. Pending(j) \in [Track -> Id \cup {NoId}]
    BY <1>1 DEF Pending, Typed, Conflict
  <2>2. \A t \in Track : Pending(j)[t] # NoId =>
          conflict[j][t].state = "chosen" /\ conflict[j][t].id = Pending(j)[t]
    BY DEF Pending
  <2>3. NoChoice \in [Track -> Id \cup {NoId}] /\ \A t \in Track : NoChoice[t] = NoId
    BY DEF NoChoice
  <2>4. QED
    BY <2>1, <2>2, <2>3
<1>3. PICK r \in WorkerRecord : r = Resting /\ r.written = 0
  BY RestingFields DEF Resting
<1>4. PICK b \in Counts : b = added[j]
  BY <1>1 DEF Typed
<1>5. Starting(j, apply) = [r EXCEPT !.at = "setup", !.base = b, !.apply = apply, !.pending = p]
  BY <1>2, <1>3, <1>4 DEF Starting, Base
<1>6. PICK w \in WorkerRecord :
        w = [r EXCEPT !.at = "setup", !.base = b, !.apply = apply, !.pending = p]
  BY DEF WorkerRecord
<1>7. w.at = "setup" /\ w.base = b /\ w.apply = apply /\ w.pending = p /\ w.written = r.written
  BY <1>6 DEF WorkerRecord
<1>8. QED
  BY <1>2, <1>3, <1>4, <1>5, <1>6, <1>7 DEF Begins

\* A job that is submitted or goes on asks for the lock, and may start at once.
LEMMA ScheduleKeeps ==
  ASSUME IInv, NEW j \in Job, NEW apply \in BOOLEAN, Schedule(j, apply), Saved(j), Asked,
         status[j] \in {"new", "paused"} \cup Terminal,
         UNCHANGED <<added, conflict, manual, contents, copied, again, confirmed, created, raced>>,
         dest' \in [Job -> Playlist \cup {NoPlaylist}], applying' \in [Job -> BOOLEAN],
         \A i \in Job \ {j} : dest'[i] = dest[i], status[j] # "new" => dest'[j] = dest[j]
  PROVE  IInv'
<1>1. TypeOK /\ Typed(j) /\ JobInv(j) /\ LockTyped /\ QueueDistinct /\ j \in Clients
  BY TypesOfOne DEF IInv, TypeOK, LockTyped, Clients
<1>2. /\ LockTyped' /\ QueueDistinct' /\ OthersWait(j)
      /\ holder # j /\ ~InQueue(j) /\ (InQueue(j)' <=> holder' # j)
  BY <1>1, AskLock DEF Schedule
<1>3. /\ status' \in [Job -> {"queued", "running"} \cup {"new", "paused", "gone"} \cup Terminal]
      /\ \A i \in Job \ {j} : status'[i] = status[i]
      /\ status'[j] = IF holder' = j THEN "running" ELSE "queued"
  BY <1>1 DEF Schedule, TypeOK
<1>4. PICK w \in WorkerRecord :
        /\ worker' = [worker EXCEPT ![j] = w]
        /\ holder' = j => Begins(w, j, apply)
        /\ holder' # j => w.at = "none" /\ ~w.apply
  BY <1>1, StartingFields, RestingFields DEF Schedule
<1>5. /\ worker' \in [Job -> WorkerRecord] /\ worker'[j] = w
      /\ \A i \in Job \ {j} : worker'[i] = worker[i]
  BY <1>1, <1>4 DEF TypeOK, WorkerRecord
<1>6. /\ resolver' \in [Job -> ResolverRecord] /\ \A i \in Job \ {j} : resolver'[i] = resolver[i]
      /\ resolver'[j].at = IF resolver[j].at = "checked" THEN "late" ELSE resolver[j].at
      /\ resolver'[j].track = resolver[j].track /\ resolver'[j].live = resolver[j].live
      /\ resolver'[j].snapshot = resolver[j].snapshot
  <2>1. resolver \in [Job -> ResolverRecord]
    BY <1>1 DEF TypeOK, ResolverRecord
  <2>2. resolver' = [resolver EXCEPT ![j].at = IF @ = "checked" THEN "late" ELSE @]
    BY DEF Schedule
  <2>3. QED
    BY <2>1, <2>2 DEF ResolverRecord
<1>7. /\ control' \in [Job -> {"run", "pause", "stop"}] /\ control'[j] = "run"
      /\ since' \in [Job -> 0..2] /\ since'[j] = 0 /\ aborted' \in [Job -> BOOLEAN]
      /\ \A i \in Job \ {j} : control'[i] = control[i] /\ since'[i] = since[i]
  BY <1>1 DEF Schedule, TypeOK
<1>8. /\ UNCHANGED <<added, conflict, manual, contents, copied, again, confirmed, created, raced>>
      /\ dest' \in [Job -> Playlist \cup {NoPlaylist}] /\ applying' \in [Job -> BOOLEAN]
      /\ \A i \in Job \ {j} : dest'[i] = dest[i]
      /\ status[j] # "new" => dest'[j] = dest[j]
  OBVIOUS
<1>9. requests' = requests + 1 /\ requests' \in 0..MaxRequests /\ UNCHANGED <<faults, restarts>>
  BY <1>1, TransfersAssumption DEF Asked, TypeOK
<1>10. Snapshot(j)' \in Record
   BY <1>1, <1>3, <1>8 DEF Snapshot, Record, Typed
<1>11. /\ hist' \in [Job -> Record] /\ hist'[j].added = added'[j]
       /\ \A i \in Job \ {j} : hist'[i] = hist[i]
   BY <1>1, <1>10, Saves
<1>12. TypeOK'
   BY <1>1, <1>2, <1>3, <1>5, <1>6, <1>7, <1>8, <1>9, <1>11
      DEF TypeOK, WorkerRecord, ResolverRecord, LockTyped, Clients
<1>13. ASSUME NEW i \in Job, i # j PROVE JobInv(i)'
   <2>1. Untouched(i)
     BY <1>2, <1>3, <1>5, <1>6, <1>7, <1>8, <1>11, <1>13 DEF Untouched, OthersWait, Clients
   <2>2. Grows
     BY <1>1, <1>8, <1>9 DEF Grows, TypeOK
   <2>3. QED
     BY <2>1, <2>2, OthersKeep
<1>14. InSlot(j)'
   BY <1>2, <1>3, <1>4, <1>5 DEF InSlot, Begins
<1>15. TargetKnown(j)'
   BY <1>1, <1>3, <1>4, <1>5, <1>8 DEF TargetKnown, JobInv, Begins, Terminal
<1>16. RowsAreNew(j)' /\ RowsAreChoices(j)'
   BY <1>4, <1>5 DEF RowsAreNew, RowsAreChoices, Begins
<1>17. ChoicesStand(j)'
   BY <1>4, <1>5, <1>8 DEF ChoicesStand, Begins
<1>18. ResolverKnown(j)'
   BY <1>1, <1>3, <1>6, <1>8 DEF ResolverKnown, JobInv
<1>19. AppliedInShape(j)'
   BY <1>1, <1>3, <1>8 DEF AppliedInShape, JobInv
<1>20. RecordFollows(j)'
   BY <1>3 DEF RecordFollows, Terminal
<1>21. CountKnown(j)'
   <2>1. NumTracks \in Nat /\ requests \in Int
     BY <1>1, TransfersAssumption DEF TypeOK
   <2>2. NumTracks * requests' = NumTracks * requests + NumTracks /\ NumTracks * requests \in Int
     BY <1>9, <2>1, Monotone
   <2>3. added[j] \in Int /\ confirmed[j] \in Int /\ added[j] = confirmed[j]
     BY <1>1, CountsAreInt DEF Typed, JobInv, CountKnown, Terminal
   <2>4. confirmed[j] <= NumTracks * requests
     <3>1. StillToCome(j) = 0
       BY <1>1 DEF JobInv, InSlot, StillToCome, Terminal
     <3>2. QED
       BY <1>1, <2>2, <2>3, <3>1 DEF JobInv, CountKnown
   <2>5. StillToCome(j)' = NumTracks
     BY <1>3, <1>4, <1>5 DEF StillToCome, Begins
   <2>6. confirmed'[j] + StillToCome(j)' <= NumTracks * requests'
     BY <1>8, <2>1, <2>2, <2>3, <2>4, <2>5
   <2>7. worker'[j].at # "none" => added'[j] = worker'[j].base + worker'[j].written
     BY <1>4, <1>5, <1>8, <2>3 DEF Begins
   <2>8. QED
     BY <1>3, <1>8, <1>11, <2>3, <2>6, <2>7 DEF CountKnown
<1>22. FirstWrite(j)'
   BY <1>7 DEF FirstWrite
<1>23. JobInv(j)'
   BY <1>14, <1>15, <1>16, <1>17, <1>18, <1>19, <1>20, <1>21, <1>22 DEF JobInv
<1>24. WrittenIsThere' /\ CopiedOnce'
   BY <1>8 DEF IInv, WrittenIsThere, CopiedOnce
<1>25. QED
   BY <1>2, <1>12, <1>13, <1>23, <1>24 DEF IInv

\* submit(): a new job, with a destination or none.
LEMMA SubmitKeeps ==
  ASSUME IInv, NEW j \in Job, Submit(j)
  PROVE  IInv'
<1>1. dest' \in [Job -> Playlist \cup {NoPlaylist}] /\ \A i \in Job \ {j} : dest'[i] = dest[i]
  <2>1. PICK p \in {Existing, NoPlaylist} : dest' = [dest EXCEPT ![j] = p]
    BY DEF Submit
  <2>2. Existing \in Playlist
    BY TransfersAssumption DEF Existing, Playlist
  <2>3. QED
    BY <2>1, <2>2 DEF IInv, TypeOK
<1>2. /\ Schedule(j, FALSE) /\ Saved(j) /\ Asked /\ status[j] = "new"
      /\ UNCHANGED <<applying, added, conflict, manual, contents,
                     copied, again, confirmed, created, raced>>
  BY DEF Submit
<1>3. applying' \in [Job -> BOOLEAN]
  BY <1>2 DEF IInv, TypeOK
<1>4. QED
  BY <1>1, <1>2, <1>3, ScheduleKeeps

\* resume(): a paused job goes on with what it was doing.
LEMMA ResumeKeeps ==
  ASSUME IInv, NEW j \in Job, Resume(j)
  PROVE  IInv'
<1>1. /\ Schedule(j, applying[j]) /\ Saved(j) /\ Asked /\ status[j] = "paused"
      /\ UNCHANGED <<added, conflict, manual, contents, copied, again, confirmed, created, raced>>
      /\ dest' = dest /\ applying' = applying
  BY DEF Resume
<1>2. /\ dest' \in [Job -> Playlist \cup {NoPlaylist}] /\ applying' \in [Job -> BOOLEAN]
      /\ applying[j] \in BOOLEAN
  BY <1>1 DEF IInv, TypeOK
<1>3. QED
  BY <1>1, <1>2, ScheduleKeeps

\* apply_resolved(): a job that is over writes the matches people chose.
LEMMA ApplyResolvedKeeps ==
  ASSUME IInv, NEW j \in Job, ApplyResolved(j)
  PROVE  IInv'
<1>1. /\ Schedule(j, TRUE) /\ Saved(j) /\ Asked /\ status[j] \in Terminal
      /\ UNCHANGED <<added, conflict, manual, contents, copied, again, confirmed, created, raced>>
      /\ dest' = dest /\ applying' = [applying EXCEPT ![j] = TRUE]
  BY DEF ApplyResolved
<1>2. dest' \in [Job -> Playlist \cup {NoPlaylist}] /\ applying' \in [Job -> BOOLEAN]
  BY <1>1 DEF IInv, TypeOK
<1>3. status[j] # "new"
  BY <1>1 DEF Terminal
<1>4. QED
  BY <1>1, <1>2, <1>3, ScheduleKeeps

\* Pausing and stopping: the control value, and a job that waits is stopped.
LEMMA PauseKeeps ==
  ASSUME IInv, NEW j \in Job, Pause(j)
  PROVE  IInv'
<1>1. TypeOK /\ Typed(j) /\ JobInv(j)
  BY TypesOfOne DEF IInv
<1>2. /\ status[j] = "running" /\ Saved(j) /\ control' = [control EXCEPT ![j] = "pause"]
      /\ UNCHANGED <<status, dest, applying, added, conflict, worker, resolver, lock, manual,
                     contents, history, raced>>
  BY DEF Pause
<1>3. requests' = requests + 1 /\ requests' \in 0..MaxRequests /\ UNCHANGED <<faults, restarts>>
  BY <1>1, TransfersAssumption DEF Pause, Asked, TypeOK
<1>4. /\ hist' \in [Job -> Record] /\ hist'[j].added = added'[j]
      /\ \A i \in Job \ {j} : hist'[i] = hist[i]
  <2>1. Snapshot(j)' \in Record
    BY <1>1, <1>2 DEF Snapshot, Record, Typed
  <2>2. QED
    BY <1>1, <1>2, <2>1, Saves
<1>5. TypeOK'
  BY <1>1, <1>2, <1>3, <1>4 DEF TypeOK, lock, history
<1>6. ASSUME NEW i \in Job, i # j PROVE JobInv(i)'
  <2>1. Untouched(i)
    BY <1>1, <1>2, <1>4, <1>6 DEF Untouched, InQueue, lock, history, TypeOK
  <2>2. Grows
    BY <1>1, <1>2, <1>3 DEF Grows, TypeOK
  <2>3. QED
    BY <2>1, <2>2, OthersKeep
<1>7. InSlot(j)' /\ TargetKnown(j)' /\ RowsAreNew(j)' /\ RowsAreChoices(j)' /\ ChoicesStand(j)'
  BY <1>1, <1>2 DEF InSlot, TargetKnown, RowsAreNew, RowsAreChoices, ChoicesStand, JobInv,
                    InQueue, lock, history
<1>8. ResolverKnown(j)' /\ AppliedInShape(j)' /\ RecordFollows(j)'
  BY <1>1, <1>2 DEF ResolverKnown, AppliedInShape, RecordFollows, JobInv, history, Terminal
<1>9. CountKnown(j)'
  <2>1. StillToCome(j)' = StillToCome(j)
    BY <1>2 DEF StillToCome
  <2>2. confirmed'[j] + StillToCome(j)' <= NumTracks * requests'
    BY <1>1, <1>2, <1>3, <2>1, StillTyped, FitsStill DEF JobInv, history, TypeOK
  <2>3. CountKnown(j) /\ added'[j] = added[j] /\ confirmed'[j] = confirmed[j]
        /\ confirmed[j] \in Int
    BY <1>1, <1>2, CountsAreInt DEF JobInv, Typed, history
  <2>4. QED
    BY <1>2, <1>4, <2>2, <2>3 DEF CountKnown
<1>10. FirstWrite(j)'
   BY <1>1, <1>2 DEF FirstWrite, JobInv, history, TypeOK
<1>11. WrittenIsThere' /\ CopiedOnce' /\ QueueDistinct'
   BY <1>2 DEF IInv, WrittenIsThere, CopiedOnce, QueueDistinct, lock, history
<1>12. QED
   BY <1>5, <1>6, <1>7, <1>8, <1>9, <1>10, <1>11 DEF IInv, JobInv

\* stop(): a job that waits leaves the queue, and is over; one that runs is told.
LEMMA StopKeeps ==
  ASSUME IInv, NEW j \in Job, Stop(j)
  PROVE  IInv'
<1>1. TypeOK /\ Typed(j) /\ JobInv(j) /\ LockTyped /\ QueueDistinct /\ j \in Clients
  BY TypesOfOne DEF IInv, TypeOK, LockTyped, Clients
<1>2. /\ status[j] \in {"queued", "running", "paused"} /\ Saved(j)
      /\ control' = [control EXCEPT ![j] = "stop"] /\ aborted' = [aborted EXCEPT ![j] = TRUE]
      /\ UNCHANGED <<dest, applying, added, conflict, worker, resolver, manual, contents,
                     copied, again, confirmed, created, since, raced>>
  BY DEF Stop
<1>3. /\ LockTyped' /\ QueueDistinct' /\ OthersWait(j) /\ holder' = holder
      /\ InQueue(j)' <=> InQueue(j) /\ status[j] # "queued"
  <2>1. CASE status[j] = "queued"
    BY <1>1, <2>1, WithdrawLock DEF Stop
  <2>2. CASE status[j] # "queued"
    <3>1. UNCHANGED lock
      BY <2>2 DEF Stop
    <3>2. QED
      BY <1>1, <2>2, <3>1 DEF lock, LockTyped, QueueDistinct, OthersWait, InQueue
  <2>3. QED
    BY <2>1, <2>2
<1>4. requests' = requests + 1 /\ requests' \in 0..MaxRequests /\ UNCHANGED <<faults, restarts>>
  BY <1>1, TransfersAssumption DEF Stop, Asked, TypeOK
<1>5. /\ status' \in [Job -> {"new", "queued", "running", "paused", "gone"} \cup Terminal]
      /\ \A i \in Job \ {j} : status'[i] = status[i] /\ control'[i] = control[i]
      /\ status'[j] = IF status[j] = "running" THEN "running" ELSE "stopped"
      /\ control'[j] = "stop"
  BY <1>1, <1>2 DEF Stop, Withdrawn, TypeOK, Terminal
<1>6. /\ hist' \in [Job -> Record] /\ hist'[j] = Snapshot(j)' /\ hist'[j].added = added'[j]
      /\ \A i \in Job \ {j} : hist'[i] = hist[i]
  <2>1. Snapshot(j)' \in Record
    BY <1>1, <1>2, <1>5 DEF Snapshot, Record, Typed, Terminal
  <2>2. QED
    BY <1>1, <1>2, <2>1, Saves
<1>7. TypeOK'
  BY <1>1, <1>2, <1>3, <1>4, <1>5, <1>6 DEF TypeOK, LockTyped, Clients
<1>8. ASSUME NEW i \in Job, i # j PROVE JobInv(i)'
  <2>1. Untouched(i)
    BY <1>2, <1>3, <1>5, <1>6, <1>8 DEF Untouched, OthersWait, Clients
  <2>2. Grows
    BY <1>1, <1>2, <1>4 DEF Grows, TypeOK
  <2>3. QED
    BY <2>1, <2>2, OthersKeep
<1>9. InSlot(j)'
  BY <1>1, <1>2, <1>3, <1>5 DEF InSlot, JobInv
<1>10. TargetKnown(j)' /\ RowsAreNew(j)' /\ RowsAreChoices(j)' /\ ChoicesStand(j)'
   BY <1>1, <1>2, <1>5 DEF TargetKnown, RowsAreNew, RowsAreChoices, ChoicesStand, JobInv
<1>11. ResolverKnown(j)' /\ AppliedInShape(j)' /\ RecordFollows(j)'
   BY <1>1, <1>2, <1>5, <1>6 DEF ResolverKnown, AppliedInShape, RecordFollows, JobInv
<1>12. CountKnown(j)'
   <2>1. StillToCome(j)' \in Int /\ StillToCome(j)' <= StillToCome(j)
     <3>1. StillToCome(j)' = StillToCome(j) \/ StillToCome(j)' = 0
       BY <1>1, <1>2, <1>5 DEF StillToCome, JobInv, InSlot
     <3>2. StillToCome(j) \in Nat
       BY <1>1, StillTyped
     <3>3. QED
       BY <3>1, <3>2
   <2>2. confirmed'[j] + StillToCome(j)' <= NumTracks * requests'
     BY <1>1, <1>2, <1>4, <2>1, FitsStill DEF JobInv, TypeOK
   <2>3. CountKnown(j) /\ confirmed[j] \in Int
     BY <1>1, CountsAreInt DEF JobInv, Typed
   <2>4. QED
     BY <1>2, <1>5, <1>6, <2>2, <2>3 DEF CountKnown
<1>13. FirstWrite(j)'
   BY <1>1, <1>2, <1>5 DEF FirstWrite, JobInv
<1>14. WrittenIsThere' /\ CopiedOnce'
   BY <1>2 DEF IInv, WrittenIsThere, CopiedOnce
<1>15. QED
   BY <1>3, <1>7, <1>8, <1>9, <1>10, <1>11, <1>12, <1>13, <1>14 DEF IInv, JobInv

-----------------------------------------------------------------------------
(* The lock is handed on, and other clients. *)

\* The job that has waited longest starts its thread.
LEMMA GrantKeeps ==
  ASSUME IInv, Grant
  PROVE  IInv'
<1>1. TypeOK /\ LockTyped /\ QueueDistinct /\ \A i \in Job : JobInv(i)
  BY DEF IInv, TypeOK, LockTyped, Clients
<1>2. PICK c : c = holder'
  OBVIOUS
<1>3. /\ Slot!Grant
      /\ UNCHANGED <<resolver, manual, contents, copied, again, confirmed, created, since,
                     aborted, raced, requests, faults, restarts>>
  BY DEF Grant, history, bounds
<1>4. /\ LockTyped' /\ QueueDistinct' /\ OthersWait(c)
      /\ holder = NoOne /\ c \in Clients /\ InQueue(c) /\ ~InQueue(c)'
  BY <1>1, <1>2, <1>3, GrantLock
<1>5. Grows
  BY <1>1, <1>3 DEF Grows, TypeOK
<1>6. WrittenIsThere' /\ CopiedOnce'
  BY <1>3 DEF IInv, WrittenIsThere, CopiedOnce
<1>7. CASE c = Sync
  <2>1. UNCHANGED <<status, control, dest, applying, added, conflict, worker, hist>>
    BY <1>2, <1>7 DEF Grant, memory
  <2>2. TypeOK'
    BY <1>1, <1>3, <1>4, <2>1 DEF TypeOK, LockTyped, Clients
  <2>3. ASSUME NEW i \in Job PROVE JobInv(i)'
    <3>1. Untouched(i)
      BY <1>3, <1>4, <1>7, <2>1 DEF Untouched, OthersWait, Clients, Job, Sync
    <3>2. QED
      BY <1>5, <3>1, OthersKeep
  <2>4. QED
    BY <1>4, <1>6, <2>2, <2>3 DEF IInv
<1>8. CASE c # Sync
  <2>1. c \in Job
    BY <1>4, <1>8 DEF Clients
  <2>2. PICK j \in Job : j = c
    BY <2>1
  <2>3. /\ status' = [status EXCEPT ![j] = "running"]
        /\ worker' = [worker EXCEPT ![j] = Starting(j, applying[j])]
        /\ UNCHANGED <<control, dest, applying, added, conflict>> /\ Saved(j)
    BY <1>2, <1>8, <2>2 DEF Grant
  <2>4. Typed(j) /\ JobInv(j) /\ status[j] = "queued"
    BY <1>1, <1>4, <2>2, TypesOfOne DEF JobInv, InSlot
  <2>5. PICK w \in WorkerRecord : worker' = [worker EXCEPT ![j] = w] /\ Begins(w, j, applying[j])
    BY <1>1, <2>3, <2>4, StartingFields DEF Typed
  <2>6. /\ worker' \in [Job -> WorkerRecord] /\ worker'[j] = w
        /\ status' \in [Job -> {"new", "queued", "running", "paused", "gone"} \cup Terminal]
        /\ status'[j] = "running"
        /\ \A i \in Job \ {j} : worker'[i] = worker[i] /\ status'[i] = status[i]
    BY <1>1, <2>3, <2>5 DEF TypeOK, WorkerRecord
  <2>7. /\ hist' \in [Job -> Record] /\ hist'[j].added = added'[j]
        /\ \A i \in Job \ {j} : hist'[i] = hist[i]
    <3>1. Snapshot(j)' \in Record
      BY <2>3, <2>4, <2>6 DEF Snapshot, Record, Typed
    <3>2. QED
      BY <1>1, <2>3, <3>1, Saves
  <2>8. TypeOK'
    BY <1>1, <1>3, <1>4, <2>3, <2>6, <2>7 DEF TypeOK, LockTyped, Clients, WorkerRecord
  <2>9. ASSUME NEW i \in Job, i # j PROVE JobInv(i)'
    <3>1. Untouched(i)
      BY <1>3, <1>4, <2>2, <2>3, <2>6, <2>7, <2>9 DEF Untouched, OthersWait, Clients
    <3>2. QED
      BY <1>5, <3>1, OthersKeep
  <2>10. InSlot(j)'
     BY <1>2, <1>4, <2>2, <2>5, <2>6 DEF InSlot, Begins
  <2>11. TargetKnown(j)'
     BY <1>3, <2>3, <2>4, <2>5, <2>6 DEF TargetKnown, JobInv, Begins
  <2>12. RowsAreNew(j)' /\ RowsAreChoices(j)'
     BY <2>5, <2>6 DEF RowsAreNew, RowsAreChoices, Begins
  <2>13. ChoicesStand(j)'
     BY <2>3, <2>5, <2>6 DEF ChoicesStand, Begins
  <2>14. ResolverKnown(j)'
     BY <1>3, <2>4, <2>6 DEF ResolverKnown, JobInv
  <2>15. AppliedInShape(j)'
     BY <1>3, <2>3, <2>4, <2>6 DEF AppliedInShape, JobInv
  <2>16. RecordFollows(j)'
     BY <2>6 DEF RecordFollows, Terminal
  <2>17. CountKnown(j)'
     <3>1. StillToCome(j)' = NumTracks /\ StillToCome(j) = NumTracks /\ NumTracks \in Int
       BY <2>4, <2>5, <2>6, TransfersAssumption DEF StillToCome, Begins
     <3>2. confirmed'[j] + StillToCome(j)' <= NumTracks * requests'
       <4>1. requests' \in Int /\ requests <= requests' /\ confirmed'[j] = confirmed[j]
         BY <1>1, <1>3 DEF TypeOK
       <4>2. QED
         BY <1>1, <2>4, <3>1, <4>1, FitsStill DEF JobInv
     <3>3. CountKnown(j) /\ confirmed[j] \in Int /\ added[j] \in Int
       BY <2>4, CountsAreInt DEF JobInv, Typed
     <3>4. QED
       BY <1>3, <2>3, <2>4, <2>5, <2>6, <2>7, <3>2, <3>3 DEF CountKnown, Begins
  <2>18. FirstWrite(j)'
     <3>1. since[j] = 0
       BY <2>4 DEF JobInv, FirstWrite
     <3>2. QED
       BY <1>3, <2>3, <2>4, <3>1 DEF FirstWrite
  <2>19. QED
     BY <1>4, <1>6, <2>8, <2>9, <2>10, <2>11, <2>12, <2>13, <2>14, <2>15, <2>16, <2>17, <2>18
        DEF IInv, JobInv
<1>9. QED
  BY <1>7, <1>8

-----------------------------------------------------------------------------
(* resolve(). *)

\* What resolve() leaves alone.
Aside ==
  /\ UNCHANGED <<status, control, dest, applying, added, worker, holder, queue, contents, copied,
                 again, confirmed, created, since, aborted, faults, restarts>>
  /\ requests' \in 0..MaxRequests /\ requests <= requests'

\* A resolve() starts, moves and counts nothing.
LEMMA AsideKeeps ==
  ASSUME IInv, NEW j \in Job, Aside, hist'[j].added <= confirmed[j]
  PROVE  /\ InSlot(j)' /\ TargetKnown(j)' /\ RowsAreNew(j)' /\ RowsAreChoices(j)'
         /\ CountKnown(j)' /\ FirstWrite(j)'
<1>1. TypeOK /\ Typed(j) /\ JobInv(j)
  BY TypesOfOne DEF IInv
<1>2. InSlot(j)' /\ TargetKnown(j)' /\ RowsAreNew(j)' /\ RowsAreChoices(j)' /\ FirstWrite(j)'
  BY <1>1 DEF Aside, JobInv, InSlot, TargetKnown, RowsAreNew, RowsAreChoices, FirstWrite, InQueue
<1>3. CountKnown(j)'
  <2>1. StillToCome(j)' = StillToCome(j) /\ requests' \in Int /\ requests <= requests'
    BY DEF StillToCome, Aside
  <2>2. CountKnown(j) /\ StillToCome(j) \in Nat /\ confirmed'[j] = confirmed[j]
    BY <1>1, StillTyped DEF JobInv, Aside
  <2>3. confirmed'[j] + StillToCome(j)' <= NumTracks * requests'
    BY <1>1, <2>1, <2>2, FitsStill
  <2>4. QED
    BY <2>2, <2>3 DEF CountKnown, Aside
<1>4. QED
  BY <1>2, <1>3

\* A choice for a job that nothing works on is let in.
LEMMA CheckResolveKeeps ==
  ASSUME IInv, NEW j \in Job, NEW t \in Track, CheckResolve(j, t)
  PROVE  IInv'
<1>1. TypeOK /\ Typed(j) /\ JobInv(j)
  BY TypesOfOne DEF IInv
<1>2. /\ status[j] \in {"paused"} \cup Terminal /\ conflict[j][t].state \in {"open", "chosen"}
      /\ UNCHANGED <<memory, worker, lock, hist, manual, contents, history, raced>>
  BY DEF CheckResolve
<1>3. Aside /\ UNCHANGED <<conflict, hist, manual, raced>>
  <2>1. requests' = requests + 1 /\ requests' \in 0..MaxRequests /\ UNCHANGED <<faults, restarts>>
    BY <1>1, TransfersAssumption DEF CheckResolve, Asked, TypeOK
  <2>2. requests <= requests'
    BY <1>1, <2>1 DEF TypeOK
  <2>3. QED
    BY <1>2, <2>1, <2>2 DEF Aside, memory, lock, history
<1>4. PICK r \in ResolverRecord :
        /\ resolver' = [resolver EXCEPT ![j] = r]
        /\ r.at = "checked" /\ r.track = t
  <2>1. PICK id \in Id : resolver' = [resolver EXCEPT ![j] =
          [NoResolver EXCEPT !.at = "checked", !.track = t, !.id = id, !.live = TRUE]]
    BY DEF CheckResolve
  <2>2. PICK n \in ResolverRecord : n = NoResolver
    BY DEF NoResolver, ResolverRecord
  <2>3. PICK r \in ResolverRecord :
          r = [n EXCEPT !.at = "checked", !.track = t, !.id = id, !.live = TRUE]
    BY DEF ResolverRecord
  <2>4. r.at = "checked" /\ r.track = t
    BY <2>3 DEF ResolverRecord
  <2>5. QED
    BY <2>1, <2>2, <2>3, <2>4
<1>5. /\ resolver' \in [Job -> ResolverRecord] /\ resolver'[j] = r
      /\ \A i \in Job \ {j} : resolver'[i] = resolver[i]
  BY <1>1, <1>4 DEF TypeOK, ResolverRecord
<1>6. TypeOK'
  BY <1>1, <1>3, <1>5 DEF TypeOK, Aside, ResolverRecord
<1>7. ASSUME NEW i \in Job, i # j PROVE JobInv(i)'
  <2>1. Untouched(i)
    BY <1>3, <1>5, <1>7 DEF Untouched, Aside, InQueue
  <2>2. Grows
    BY <1>1, <1>3 DEF Grows, Aside, TypeOK
  <2>3. QED
    BY <2>1, <2>2, OthersKeep
<1>8. hist'[j].added <= confirmed[j]
  BY <1>1, <1>3 DEF JobInv, CountKnown
<1>9. ChoicesStand(j)' /\ AppliedInShape(j)'
  BY <1>1, <1>3 DEF ChoicesStand, AppliedInShape, JobInv, Aside
<1>10. RecordFollows(j)'
   BY <1>1, <1>3 DEF RecordFollows, Snapshot, JobInv, Aside
<1>11. ResolverKnown(j)'
   BY <1>2, <1>3, <1>4, <1>5 DEF ResolverKnown, Aside, Terminal
<1>12. WrittenIsThere' /\ CopiedOnce' /\ QueueDistinct'
   BY <1>3 DEF IInv, WrittenIsThere, CopiedOnce, QueueDistinct, Aside
<1>13. QED
   BY <1>3, <1>6, <1>7, <1>8, <1>9, <1>10, <1>11, <1>12, AsideKeeps DEF IInv, JobInv

\* The choice is stored; it may come too late.
LEMMA StoreChoiceKeeps ==
  ASSUME IInv, NEW j \in Job, StoreChoice(j)
  PROVE  IInv'
<1>1. TypeOK /\ Typed(j) /\ JobInv(j)
  BY TypesOfOne DEF IInv
<1>2. PICK r \in ResolverRecord : r = resolver[j]
  BY <1>1 DEF Typed
<1>3. /\ r.at \in {"checked", "late"} /\ manual' = [manual EXCEPT ![r.track] = r.id]
      /\ r.track \in Track /\ r.id \in Id \cup {NoId}
      /\ raced' = IF r.at = "late" THEN raced \cup {j} ELSE raced
  BY <1>1, <1>2 DEF StoreChoice, ResolverRecord, JobInv, ResolverKnown
<1>4. Aside /\ UNCHANGED hist
  <2>1. UNCHANGED <<requests, faults, restarts>>
    BY DEF StoreChoice, bounds
  <2>2. requests' \in 0..MaxRequests /\ requests <= requests'
    BY <1>1, <2>1 DEF TypeOK
  <2>3. QED
    BY <2>1, <2>2 DEF StoreChoice, Aside, lock, history
<1>5. status[j] \notin {"new", "gone"} /\ Snapshot(j) \in Record
  <2>1. status[j] \notin {"new", "gone"}
    BY <1>1, <1>2, <1>3 DEF JobInv, ResolverKnown
  <2>2. QED
    BY <1>1, <2>1 DEF Snapshot, Record, Typed
<1>6. PICK c \in [Track -> Conflict] :
        /\ conflict' = [conflict EXCEPT ![j] = c]
        /\ \A t \in Track : t # r.track \/ ~r.live => c[t] = conflict[j][t]
        /\ r.live /\ conflict[j][r.track].state # "applied" => c[r.track].state # "applied"
  <2>1. CASE ~r.live
    <3>1. PICK c \in [Track -> Conflict] : c = conflict[j]
      BY <1>1 DEF Typed
    <3>2. conflict' = [conflict EXCEPT ![j] = c]
      BY <1>1, <1>2, <2>1, <3>1 DEF StoreChoice, TypeOK
    <3>3. QED
      BY <2>1, <3>1, <3>2
  <2>2. CASE r.live
    <3>1. conflict' = [conflict EXCEPT
            ![j][r.track].state = IF @ = "applied" THEN @ ELSE "chosen", ![j][r.track].id = r.id]
      BY <1>2, <2>2 DEF StoreChoice
    <3>2. /\ conflict' \in [Job -> [Track -> Conflict]]
          /\ \A i \in Job \ {j} : conflict'[i] = conflict[i]
      BY <1>1, <1>3, <3>1 DEF TypeOK, Conflict
    <3>3. \A t \in Track : t # r.track => conflict'[j][t] = conflict[j][t]
      BY <1>1, <1>3, <3>1 DEF TypeOK, Conflict
    <3>4. conflict[j][r.track].state # "applied" => conflict'[j][r.track].state = "chosen"
      BY <1>1, <1>3, <3>1 DEF TypeOK, Conflict
    <3>5. PICK c \in [Track -> Conflict] : c = conflict'[j]
      BY <3>2
    <3>6. conflict' = [conflict EXCEPT ![j] = c]
      BY <1>1, <3>2, <3>5 DEF TypeOK, Conflict
    <3>7. QED
      BY <1>3, <2>2, <3>3, <3>4, <3>5, <3>6
  <2>3. QED
    BY <2>1, <2>2
<1>7. /\ conflict' \in [Job -> [Track -> Conflict]] /\ conflict'[j] = c
      /\ \A i \in Job \ {j} : conflict'[i] = conflict[i]
  BY <1>1, <1>6 DEF TypeOK, Conflict
<1>8. PICK n \in ResolverRecord :
        /\ resolver' = [resolver EXCEPT ![j] = n]
        /\ n.at = "saving" /\ n.snapshot = Snapshot(j) /\ n.track = r.track
  <2>1. PICK s \in Record : s = Snapshot(j)
    BY <1>5
  <2>2. PICK n \in ResolverRecord : n = [r EXCEPT !.at = "saving", !.snapshot = s]
    BY DEF ResolverRecord
  <2>3. n.at = "saving" /\ n.snapshot = s /\ n.track = r.track
    BY <2>2 DEF ResolverRecord
  <2>4. resolver' = [resolver EXCEPT ![j] = n]
    BY <1>1, <1>2, <2>1, <2>2 DEF StoreChoice, TypeOK
  <2>5. QED
    BY <2>1, <2>3, <2>4
<1>9. /\ resolver' \in [Job -> ResolverRecord] /\ resolver'[j] = n
      /\ \A i \in Job \ {j} : resolver'[i] = resolver[i]
  BY <1>1, <1>8 DEF TypeOK, ResolverRecord
<1>10. manual' \in [Track -> Id \cup {NoId}] /\ raced' \in SUBSET Job
   BY <1>1, <1>3 DEF TypeOK
<1>11. TypeOK'
   BY <1>1, <1>4, <1>7, <1>9, <1>10 DEF TypeOK, Aside, ResolverRecord, Conflict
<1>12. ASSUME NEW i \in Job, i # j PROVE JobInv(i)'
   <2>1. Untouched(i)
     BY <1>3, <1>4, <1>7, <1>9, <1>12 DEF Untouched, Aside, InQueue
   <2>2. Grows
     BY <1>1, <1>4 DEF Grows, Aside, TypeOK
   <2>3. QED
     BY <2>1, <2>2, OthersKeep
<1>13. hist'[j].added <= confirmed[j]
   BY <1>1, <1>4 DEF JobInv, CountKnown
<1>14. ChoicesStand(j)'
   BY <1>1, <1>2, <1>3, <1>4 DEF ChoicesStand, ResolverKnown, InSlot, JobInv, Aside
<1>15. AppliedInShape(j)'
   BY <1>1, <1>2, <1>3, <1>4, <1>5, <1>6, <1>7 DEF AppliedInShape, ResolverKnown, JobInv, Aside
<1>16. RecordFollows(j)'
   BY <1>1, <1>3, <1>4 DEF RecordFollows, Snapshot, JobInv, Aside
<1>17. ResolverKnown(j)'
   <2>1. Snapshot(j).added = added[j] /\ added[j] = confirmed[j] /\ confirmed[j] \in Int
     BY <1>1, <1>5, CountsAreInt DEF Snapshot, JobInv, CountKnown, Typed
   <2>2. QED
     BY <1>3, <1>4, <1>5, <1>8, <1>9, <2>1 DEF ResolverKnown, Aside
<1>18. WrittenIsThere' /\ CopiedOnce' /\ QueueDistinct'
   BY <1>4 DEF IInv, WrittenIsThere, CopiedOnce, QueueDistinct, Aside
<1>19. QED
   BY <1>4, <1>11, <1>12, <1>13, <1>14, <1>15, <1>16, <1>17, <1>18, AsideKeeps DEF IInv, JobInv

\* What history.save() read of the job is written.
LEMMA SaveChoiceKeeps ==
  ASSUME IInv, NEW j \in Job, SaveChoice(j)
  PROVE  IInv'
<1>1. TypeOK /\ Typed(j) /\ JobInv(j)
  BY TypesOfOne DEF IInv
<1>2. PICK s \in Record : s = resolver[j].snapshot /\ s.added <= confirmed[j]
  BY <1>1 DEF SaveChoice, JobInv, ResolverKnown
<1>3. Aside /\ UNCHANGED <<conflict, manual>>
  <2>1. UNCHANGED <<requests, faults, restarts>>
    BY DEF SaveChoice, bounds
  <2>2. requests' \in 0..MaxRequests /\ requests <= requests'
    BY <1>1, <2>1 DEF TypeOK
  <2>3. QED
    BY <2>1, <2>2 DEF SaveChoice, Aside, memory, lock, history
<1>4. /\ hist' \in [Job -> Record] /\ hist'[j] = s /\ \A i \in Job \ {j} : hist'[i] = hist[i]
      /\ raced' \in SUBSET Job /\ \A i \in Job \ {j} : i \in raced' <=> i \in raced
      /\ raced \subseteq raced' /\ (j \notin raced' => s = Snapshot(j))
  BY <1>1, <1>2 DEF SaveChoice, TypeOK
<1>5. /\ resolver' \in [Job -> ResolverRecord] /\ resolver'[j].at = "none"
      /\ \A i \in Job \ {j} : resolver'[i] = resolver[i]
  <2>1. NoResolver \in ResolverRecord /\ NoResolver.at = "none"
    BY DEF NoResolver, ResolverRecord
  <2>2. QED
    BY <1>1, <2>1 DEF SaveChoice, TypeOK, ResolverRecord
<1>6. TypeOK'
  BY <1>1, <1>3, <1>4, <1>5 DEF TypeOK, Aside, ResolverRecord
<1>7. ASSUME NEW i \in Job, i # j PROVE JobInv(i)'
  <2>1. Untouched(i)
    BY <1>3, <1>4, <1>5, <1>7 DEF Untouched, Aside, InQueue
  <2>2. Grows
    BY <1>1, <1>3 DEF Grows, Aside, TypeOK
  <2>3. QED
    BY <2>1, <2>2, OthersKeep
<1>8. hist'[j].added <= confirmed[j]
  BY <1>2, <1>4
<1>9. ChoicesStand(j)' /\ AppliedInShape(j)'
  BY <1>1, <1>3, <1>4 DEF ChoicesStand, AppliedInShape, JobInv, Aside
<1>10. RecordFollows(j)'
   BY <1>3, <1>4 DEF RecordFollows, Snapshot, Aside
<1>11. ResolverKnown(j)'
   BY <1>5 DEF ResolverKnown
<1>12. WrittenIsThere' /\ CopiedOnce' /\ QueueDistinct'
   BY <1>3 DEF IInv, WrittenIsThere, CopiedOnce, QueueDistinct, Aside
<1>13. QED
   BY <1>3, <1>6, <1>7, <1>8, <1>9, <1>10, <1>11, <1>12, AsideKeeps DEF IInv, JobInv

-----------------------------------------------------------------------------
(* The rest of the system. *)

\* A sync pass asks for the lock.
LEMMA SyncAsksKeeps ==
  ASSUME IInv, SyncAsks
  PROVE  IInv'
<1>1. TypeOK /\ LockTyped /\ QueueDistinct
  BY DEF IInv, TypeOK, LockTyped, Clients
<1>2. LockTyped' /\ QueueDistinct' /\ OthersWait(Sync)
  BY <1>1, AskLock DEF SyncAsks, Clients
<1>3. requests' = requests + 1 /\ requests' \in 0..MaxRequests /\ UNCHANGED <<faults, restarts>>
  BY <1>1, TransfersAssumption DEF SyncAsks, Asked, TypeOK
<1>4. UNCHANGED <<memory, worker, resolver, hist, manual, contents, history, raced>>
  BY DEF SyncAsks
<1>5. TypeOK'
  BY <1>1, <1>2, <1>3, <1>4 DEF TypeOK, LockTyped, Clients, memory, history
<1>6. ASSUME NEW i \in Job PROVE JobInv(i)'
  <2>1. Untouched(i)
    BY <1>2, <1>4 DEF Untouched, OthersWait, Clients, Job, Sync, memory, history
  <2>2. Grows
    BY <1>1, <1>3, <1>4 DEF Grows, TypeOK
  <2>3. QED
    BY <2>1, <2>2, OthersKeep
<1>7. WrittenIsThere' /\ CopiedOnce'
  BY <1>4 DEF IInv, WrittenIsThere, CopiedOnce, history
<1>8. QED
  BY <1>2, <1>5, <1>6, <1>7 DEF IInv

\* A sync pass may add to the existing playlist.
LEMMA SyncEndsKeeps ==
  ASSUME IInv, SyncEnds
  PROVE  IInv'
<1>1. TypeOK /\ LockTyped /\ QueueDistinct
  BY DEF IInv, TypeOK, LockTyped, Clients
<1>2. LockTyped' /\ QueueDistinct' /\ OthersWait(Sync)
  BY <1>1, ReleaseLock DEF SyncEnds, Clients
<1>3. UNCHANGED <<memory, worker, resolver, hist, manual, history, raced, bounds>>
  BY DEF SyncEnds
<1>4. contents' \in [Playlist -> SUBSET Id] /\ \A p \in Playlist : contents[p] \subseteq contents'[p]
  <2>1. PICK ids \in SUBSET Id : contents' = [contents EXCEPT ![Existing] = @ \cup ids]
    BY DEF SyncEnds
  <2>2. contents \in [Playlist -> SUBSET Id]
    BY <1>1 DEF TypeOK
  <2>3. QED
    BY <2>1, <2>2
<1>5. TypeOK'
  BY <1>1, <1>2, <1>3, <1>4 DEF TypeOK, LockTyped, Clients, memory, history, bounds
<1>6. ASSUME NEW i \in Job PROVE JobInv(i)'
  <2>1. Untouched(i)
    BY <1>2, <1>3 DEF Untouched, OthersWait, Clients, Job, Sync, memory, history
  <2>2. Grows
    BY <1>1, <1>3, <1>4 DEF Grows, TypeOK, bounds
  <2>3. QED
    BY <2>1, <2>2, OthersKeep
<1>7. WrittenIsThere' /\ CopiedOnce'
  BY <1>1, <1>3, <1>4 DEF IInv, TypeOK, WrittenIsThere, CopiedOnce, history
<1>8. QED
  BY <1>2, <1>5, <1>6, <1>7 DEF IInv

\* The process ends: what was in memory is gone.
LEMMA RestartKeeps ==
  ASSUME IInv, Restart
  PROVE  IInv'
<1>1. TypeOK /\ \A i \in Job : Typed(i) /\ JobInv(i)
  BY TypesOfOne DEF IInv
<1>2. /\ status' = [i \in Job |-> IF status[i] = "new" THEN "new" ELSE "gone"]
      /\ control' = [i \in Job |-> "run"] /\ dest' = [i \in Job |-> NoPlaylist]
      /\ applying' = [i \in Job |-> FALSE] /\ added' = [i \in Job |-> 0]
      /\ conflict' = [i \in Job |-> [t \in Track |-> NoConflict]]
      /\ worker' = [i \in Job |-> Resting] /\ resolver' = [i \in Job |-> NoResolver]
      /\ aborted' = [i \in Job |-> FALSE] /\ since' = [i \in Job |-> 0] /\ raced' = {}
      /\ UNCHANGED <<manual, contents, copied, again, confirmed, created, requests, faults>>
  BY DEF Restart
<1>3. holder' = NoOne /\ queue' = <<>> /\ Len(queue') = 0
  BY DEF Restart, Slot!Reset
<1>4. restarts' \in 0..MaxRestarts
  BY <1>1, TransfersAssumption DEF Restart, TypeOK
<1>5. /\ hist' \in [Job -> Record]
      /\ \A i \in Job : hist'[i].added = hist[i].added
  <2>1. hist \in [Job -> Record]
    BY <1>1 DEF TypeOK
  <2>2. ASSUME NEW r \in Record
        PROVE  [r EXCEPT !.status = "error"] \in Record /\ [r EXCEPT !.status = "error"].added = r.added
    BY DEF Record, Terminal
  <2>3. hist' = [i \in Job |-> IF status[i] = "new" \/ hist[i].status \in Terminal THEN hist[i]
                               ELSE [hist[i] EXCEPT !.status = "error"]]
    BY DEF Restart
  <2>4. QED
    BY <2>1, <2>2, <2>3
<1>6. NoConflict \in Conflict /\ NoConflict.state = "no"
  BY DEF NoConflict, Conflict
<1>7. NoResolver \in ResolverRecord /\ NoResolver.at = "none"
  BY DEF NoResolver, ResolverRecord
<1>8. TypeOK'
  <2>1. /\ status' \in [Job -> {"new", "queued", "running", "paused", "gone"} \cup Terminal]
        /\ control' \in [Job -> {"run", "pause", "stop"}]
        /\ dest' \in [Job -> Playlist \cup {NoPlaylist}] /\ applying' \in [Job -> BOOLEAN]
        /\ added' \in [Job -> Counts] /\ aborted' \in [Job -> BOOLEAN] /\ since' \in [Job -> 0..2]
        /\ raced' \in SUBSET Job
    BY <1>2, ZeroCounts
  <2>2. conflict' \in [Job -> [Track -> Conflict]]
    BY <1>2, <1>6
  <2>3. worker' \in [Job -> WorkerRecord]
    BY <1>2, RestingFields
  <2>4. resolver' \in [Job -> ResolverRecord]
    BY <1>2, <1>7
  <2>5. holder' \in Job \cup {Sync, NoOne} /\ queue' \in Seq(Job \cup {Sync})
    BY <1>3
  <2>6. QED
    BY <1>1, <1>2, <1>4, <1>5, <2>1, <2>2, <2>3, <2>4, <2>5
       DEF TypeOK, Conflict, WorkerRecord, ResolverRecord
<1>9. ASSUME NEW i \in Job PROVE JobInv(i)'
   <2>1. i # NoOne /\ InQueue(i)' = FALSE
     BY <1>3 DEF Job, NoOne, InQueue
   <2>2. /\ status'[i] = IF status[i] = "new" THEN "new" ELSE "gone"
         /\ worker'[i].at = "none" /\ ~worker'[i].apply /\ resolver'[i].at = "none"
         /\ added'[i] = 0 /\ control'[i] = "run" /\ since'[i] = 0 /\ dest'[i] = NoPlaylist
         /\ \A t \in Track : conflict'[i][t].state = "no"
     BY <1>2, <1>6, <1>7, RestingFields
   <2>3. InSlot(i)'
     BY <1>3, <2>1, <2>2 DEF InSlot
   <2>4. TargetKnown(i)'
     BY <1>1, <1>2, <2>2 DEF TargetKnown, JobInv
   <2>5. RowsAreNew(i)' /\ RowsAreChoices(i)' /\ ChoicesStand(i)' /\ ResolverKnown(i)' /\ AppliedInShape(i)'
     BY <2>2 DEF RowsAreNew, RowsAreChoices, ChoicesStand, ResolverKnown, AppliedInShape
   <2>6. RecordFollows(i)' /\ FirstWrite(i)'
     BY <2>2 DEF RecordFollows, FirstWrite, Terminal
   <2>7. CountKnown(i)'
     <3>1. StillToCome(i)' = 0 /\ StillToCome(i) \in Nat
       BY <1>1, <2>2, StillTyped DEF StillToCome
     <3>2. requests' \in Int /\ requests <= requests' /\ confirmed'[i] = confirmed[i]
       BY <1>1, <1>2 DEF TypeOK
     <3>3. confirmed'[i] + StillToCome(i)' <= NumTracks * requests'
       BY <1>1, <3>1, <3>2, FitsStill DEF JobInv
     <3>4. CountKnown(i)
       BY <1>1 DEF JobInv
     <3>5. QED
       BY <1>5, <2>2, <3>2, <3>3, <3>4 DEF CountKnown
   <2>8. QED
     BY <2>3, <2>4, <2>5, <2>6, <2>7 DEF JobInv
<1>10. WrittenIsThere' /\ CopiedOnce' /\ QueueDistinct'
   BY <1>2, <1>3 DEF IInv, WrittenIsThere, CopiedOnce, QueueDistinct
<1>11. QED
   BY <1>8, <1>9, <1>10 DEF IInv

-----------------------------------------------------------------------------
(* The thread. *)

\* Whose thread is alive holds the lock, alone.
LEMMA Runs ==
  ASSUME IInv, NEW j \in Job, worker[j].at # "none"
  PROVE  /\ TypeOK /\ Typed(j) /\ JobInv(j)
         /\ status[j] = "running" /\ holder = j /\ resolver[j].at # "checked"
         /\ \A i \in Job \ {j} : worker[i].at = "none"
<1>1. TypeOK /\ \A i \in Job : Typed(i) /\ JobInv(i)
  BY TypesOfOne DEF IInv
<1>2. status[j] = "running" /\ holder = j
  BY <1>1 DEF JobInv, InSlot
<1>3. resolver[j].at # "checked"
  BY <1>1, <1>2 DEF JobInv, ResolverKnown
<1>4. \A i \in Job \ {j} : worker[i].at = "none"
  BY <1>1, <1>2 DEF JobInv, InSlot
<1>5. QED
  BY <1>1, <1>2, <1>3, <1>4

\* The destination is found or created.
LEMMA SetupKeeps ==
  ASSUME IInv, NEW j \in Job, Setup(j)
  PROVE  IInv'
<1>1. worker[j].at = "setup"
  BY DEF Setup
<1>2. /\ TypeOK /\ Typed(j) /\ JobInv(j) /\ status[j] = "running" /\ holder = j
      /\ \A i \in Job \ {j} : worker[i].at = "none"
  BY <1>1, Runs
<1>3. UNCHANGED <<status, control, applying, added, conflict, resolver, lock, hist, manual, contents,
                  copied, again, confirmed, since, aborted, raced, bounds>>
  BY DEF Setup
<1>4. PICK w \in WorkerRecord :
        /\ worker' = [worker EXCEPT ![j] = w]
        /\ w.at = "match" /\ w.apply = worker[j].apply /\ w.pending = worker[j].pending
        /\ w.base = worker[j].base /\ w.written = worker[j].written
  <2>1. PICK r \in WorkerRecord : r = worker[j]
    BY <1>2 DEF Typed
  <2>2. PICK w \in WorkerRecord : w = [r EXCEPT !.at = "match"]
    BY DEF WorkerRecord
  <2>3. /\ w.at = "match" /\ w.apply = r.apply /\ w.pending = r.pending
        /\ w.base = r.base /\ w.written = r.written
    BY <2>2 DEF WorkerRecord
  <2>4. worker' = [worker EXCEPT ![j] = w]
    BY <1>2, <2>1, <2>2 DEF Setup, TypeOK
  <2>5. QED
    BY <2>1, <2>3, <2>4
<1>5. /\ worker' \in [Job -> WorkerRecord] /\ worker'[j] = w
      /\ \A i \in Job \ {j} : worker'[i] = worker[i]
  BY <1>2, <1>4 DEF TypeOK, WorkerRecord
<1>6. /\ dest' \in [Job -> Playlist \cup {NoPlaylist}] /\ created' \in [Job -> 0..2]
      /\ \A i \in Job \ {j} : dest'[i] = dest[i] /\ created'[i] = created[i]
      /\ dest'[j] # NoPlaylist /\ created'[j] <= 1
      /\ dest[j] # NoPlaylist => dest'[j] = dest[j]
  <2>1. j \in Playlist /\ j # NoPlaylist
    BY TransfersAssumption DEF Job, Playlist, NoPlaylist
  <2>2. CASE dest[j] = NoPlaylist
    <3>1. created[j] = 0
      BY <1>2, <2>2 DEF JobInv, TargetKnown
    <3>2. dest' = [dest EXCEPT ![j] = j] /\ created' = [created EXCEPT ![j] = 1]
      BY <1>2, <2>2, <3>1 DEF Setup, StoredDest, TypeOK
    <3>3. QED
      BY <1>2, <2>1, <2>2, <3>2 DEF TypeOK
  <2>3. CASE dest[j] # NoPlaylist
    BY <1>2, <2>3 DEF Setup, TypeOK, JobInv, TargetKnown
  <2>4. QED
    BY <2>2, <2>3
<1>7. TypeOK'
  BY <1>2, <1>3, <1>5, <1>6 DEF TypeOK, WorkerRecord, lock, bounds
<1>8. ASSUME NEW i \in Job, i # j PROVE JobInv(i)'
  <2>1. Untouched(i)
    BY <1>3, <1>5, <1>6, <1>8 DEF Untouched, InQueue, lock
  <2>2. Grows
    BY <1>2, <1>3 DEF Grows, TypeOK, bounds
  <2>3. QED
    BY <2>1, <2>2, OthersKeep
<1>9. InSlot(j)'
  BY <1>2, <1>3, <1>4, <1>5 DEF InSlot, JobInv, InQueue, lock
<1>10. TargetKnown(j)'
   BY <1>2, <1>3, <1>6 DEF TargetKnown
<1>11. RowsAreNew(j)' /\ RowsAreChoices(j)'
   BY <1>4, <1>5 DEF RowsAreNew, RowsAreChoices
<1>12. ChoicesStand(j)'
   BY <1>1, <1>2, <1>3, <1>4, <1>5 DEF ChoicesStand, JobInv
<1>13. ResolverKnown(j)' /\ RecordFollows(j)'
   BY <1>2, <1>3 DEF ResolverKnown, RecordFollows, JobInv, Terminal
<1>14. AppliedInShape(j)'
   BY <1>2, <1>3, <1>6 DEF AppliedInShape, JobInv
<1>15. CountKnown(j)'
   <2>1. StillToCome(j)' = StillToCome(j)
     BY <1>1, <1>3, <1>4, <1>5 DEF StillToCome
   <2>2. /\ requests' \in Int /\ requests <= requests' /\ confirmed'[j] = confirmed[j]
         /\ StillToCome(j) \in Nat
     BY <1>2, <1>3, StillTyped DEF TypeOK, bounds
   <2>3. confirmed'[j] + StillToCome(j)' <= NumTracks * requests'
     BY <1>2, <2>1, <2>2, FitsStill DEF JobInv
   <2>4. CountKnown(j)
     BY <1>2 DEF JobInv
   <2>5. QED
     BY <1>1, <1>3, <1>4, <1>5, <2>3, <2>4 DEF CountKnown
<1>16. FirstWrite(j)'
   BY <1>1, <1>2, <1>3, <1>4, <1>5 DEF FirstWrite, JobInv
<1>17. WrittenIsThere' /\ CopiedOnce' /\ QueueDistinct'
   BY <1>3 DEF IInv, WrittenIsThere, CopiedOnce, QueueDistinct, lock
<1>18. QED
   BY <1>7, <1>8, <1>9, <1>10, <1>11, <1>12, <1>13, <1>14, <1>15, <1>16, <1>17 DEF IInv, JobInv

\* Between two batches the thread goes on or ends.
LEMMA PollKeeps ==
  ASSUME IInv, NEW j \in Job, Poll(j)
  PROVE  IInv'
<1>1. worker[j].at = "poll"
  BY DEF Poll
<1>2. /\ TypeOK /\ Typed(j) /\ JobInv(j) /\ status[j] = "running" /\ holder = j
      /\ \A i \in Job \ {j} : worker[i].at = "none"
  BY <1>1, Runs
<1>3. UNCHANGED <<status, control, dest, applying, added, conflict, resolver, holder, queue, hist,
                  manual, contents, copied, again, confirmed, created, since, aborted, raced,
                  requests, faults, restarts>>
  BY DEF Poll, memory, lock, history, bounds
<1>4. PICK w \in WorkerRecord :
        /\ worker' = [worker EXCEPT ![j] = w]
        /\ w.at \in {"send", "ended"} /\ (w.at = "send" => control[j] = "run")
        /\ w.apply = worker[j].apply /\ w.pending = worker[j].pending /\ w.adds = worker[j].adds
        /\ w.base = worker[j].base /\ w.written = worker[j].written /\ w.applied = worker[j].applied
  <2>1. PICK r \in WorkerRecord : r = worker[j]
    BY <1>2 DEF Typed
  <2>2. PICK w \in WorkerRecord :
          w = IF control[j] = "run" THEN [r EXCEPT !.at = "send"]
              ELSE [r EXCEPT !.at = "ended", !.completed = FALSE]
    BY DEF WorkerRecord
  <2>3. /\ w.at = (IF control[j] = "run" THEN "send" ELSE "ended")
        /\ w.apply = r.apply /\ w.pending = r.pending /\ w.adds = r.adds
        /\ w.base = r.base /\ w.written = r.written /\ w.applied = r.applied
    BY <2>2 DEF WorkerRecord
  <2>4. worker' = [worker EXCEPT ![j] = w]
    BY ZenonT(40), <1>2, <2>1, <2>2 DEF Poll, Continues, TypeOK
  <2>5. QED
    BY <2>1, <2>3, <2>4
<1>5. /\ worker' \in [Job -> WorkerRecord] /\ worker'[j] = w
      /\ \A i \in Job \ {j} : worker'[i] = worker[i]
  BY <1>2, <1>4 DEF TypeOK, WorkerRecord
<1>6. TypeOK'
  BY <1>2, <1>3, <1>5 DEF TypeOK, WorkerRecord
<1>7. ASSUME NEW i \in Job, i # j PROVE JobInv(i)'
  <2>1. Untouched(i)
    BY <1>3, <1>5, <1>7 DEF Untouched, InQueue
  <2>2. Grows
    BY <1>2, <1>3 DEF Grows, TypeOK
  <2>3. QED
    BY <2>1, <2>2, OthersKeep
<1>8. InSlot(j)' /\ TargetKnown(j)'
  BY <1>1, <1>2, <1>3, <1>4, <1>5 DEF InSlot, TargetKnown, JobInv, InQueue
<1>9. RowsAreNew(j)'
  <2>1. RowsAreNew(j) /\ worker[j].at \in {"poll", "send"}
    BY <1>1, <1>2 DEF JobInv
  <2>2. worker'[j].adds = worker[j].adds /\ dest'[j] = dest[j] /\ copied' = copied
    BY <1>3, <1>4, <1>5
  <2>3. QED
    BY <2>1, <2>2 DEF RowsAreNew
<1>10. RowsAreChoices(j)' /\ ChoicesStand(j)'
   BY <1>1, <1>2, <1>3, <1>4, <1>5 DEF RowsAreChoices, ChoicesStand, JobInv
<1>11. ResolverKnown(j)' /\ RecordFollows(j)' /\ AppliedInShape(j)'
   BY <1>2, <1>3 DEF ResolverKnown, RecordFollows, AppliedInShape, JobInv, Terminal
<1>12. CountKnown(j)'
   <2>1. Len(worker[j].adds) \in Nat
     <3>1. worker[j].adds \in Seq(Track \X Id)
       BY <1>2 DEF Typed, WorkerRecord
     <3>2. QED
       BY <3>1, LenProperties
   <2>2. StillToCome(j)' \in Nat /\ StillToCome(j)' <= StillToCome(j)
     BY <1>1, <1>2, <1>3, <1>4, <1>5, <2>1 DEF StillToCome
   <2>3. requests' \in Int /\ requests <= requests' /\ confirmed'[j] = confirmed[j]
     BY <1>2, <1>3 DEF TypeOK
   <2>4. confirmed'[j] + StillToCome(j)' <= NumTracks * requests'
     BY <1>2, <2>2, <2>3, FitsStill DEF JobInv
   <2>5. CountKnown(j)
     BY <1>2 DEF JobInv
   <2>6. QED
     BY <1>1, <1>3, <1>4, <1>5, <2>4, <2>5 DEF CountKnown
<1>13. FirstWrite(j)'
   BY <1>1, <1>2, <1>3, <1>4, <1>5 DEF FirstWrite, JobInv
<1>14. WrittenIsThere' /\ CopiedOnce' /\ QueueDistinct'
   BY <1>3 DEF IInv, WrittenIsThere, CopiedOnce, QueueDistinct
<1>15. QED
   BY <1>6, <1>7, <1>8, <1>9, <1>10, <1>11, <1>12, <1>13, <1>14 DEF IInv, JobInv

\* The task takes the result.
LEMMA ConcludeKeeps ==
  ASSUME IInv, NEW j \in Job, Conclude(j)
  PROVE  IInv'
<1>1. worker[j].at \in {"ended", "failed"}
  BY DEF Conclude
<1>2. /\ TypeOK /\ Typed(j) /\ JobInv(j) /\ status[j] = "running" /\ holder = j
      /\ resolver[j].at # "checked" /\ \A i \in Job \ {j} : worker[i].at = "none"
  BY <1>1, Runs
<1>3. /\ UNCHANGED <<control, dest, applying, added, manual, contents, copied, again, confirmed,
                     created, since, aborted, raced, requests, faults, restarts>>
      /\ Saved(j) /\ worker' = [worker EXCEPT ![j] = Resting]
      /\ status' = [status EXCEPT ![j] = Verdict(j)]
  BY DEF Conclude, history, bounds
<1>4. /\ LockTyped' /\ QueueDistinct' /\ OthersWait(j)
      /\ holder' = NoOne /\ (InQueue(j)' <=> InQueue(j))
  <2>1. LockTyped /\ QueueDistinct /\ j \in Clients
    BY DEF IInv, TypeOK, LockTyped, Clients
  <2>2. QED
    BY <1>2, <2>1, ReleaseLock DEF Conclude, Released
<1>5. /\ worker' \in [Job -> WorkerRecord] /\ worker'[j].at = "none" /\ ~worker'[j].apply
      /\ \A i \in Job \ {j} : worker'[i] = worker[i]
  BY <1>2, <1>3, RestingFields DEF TypeOK, WorkerRecord
<1>6. /\ status' \in [Job -> {"new", "queued", "running", "paused", "gone"} \cup Terminal]
      /\ status'[j] \in {"paused"} \cup Terminal /\ \A i \in Job \ {j} : status'[i] = status[i]
  BY <1>2, <1>3 DEF TypeOK, Verdict, Terminal
<1>7. /\ resolver' \in [Job -> ResolverRecord] /\ \A i \in Job \ {j} : resolver'[i] = resolver[i]
      /\ resolver'[j].at = resolver[j].at /\ resolver'[j].snapshot = resolver[j].snapshot
      /\ resolver'[j].track = resolver[j].track
  <2>1. resolver \in [Job -> ResolverRecord]
    BY <1>2 DEF TypeOK, ResolverRecord
  <2>2. PICK b \in BOOLEAN : resolver' = [resolver EXCEPT ![j].live = b]
    <3>1. PICK b \in BOOLEAN :
            b <=> resolver[j].live /\ (worker[j].at = "failed" \/ worker[j].apply)
      OBVIOUS
    <3>2. resolver[j].live \in BOOLEAN /\ worker[j].apply \in BOOLEAN
      BY <1>2, <2>1 DEF Typed, WorkerRecord, ResolverRecord
    <3>3. b = (resolver[j].live /\ (worker[j].at = "failed" \/ worker[j].apply))
      BY <3>1, <3>2
    <3>4. QED
      BY <3>3 DEF Conclude
  <2>3. QED
    BY <2>1, <2>2 DEF ResolverRecord
<1>8. PICK c \in [Track -> Conflict] :
        /\ conflict' = [conflict EXCEPT ![j] = c]
        /\ \A t \in Track : c[t].state = "applied" =>
             /\ c[t].id = conflict[j][t].id
             /\ \/ conflict[j][t].state = "applied"
                \/ /\ worker[j].at = "ended" /\ worker[j].apply
                   /\ t \in worker[j].applied /\ worker[j].pending[t] # NoId
  <2>1. PICK o \in [Track -> Conflict] : o = conflict[j]
    BY <1>2 DEF Typed
  <2>2. CASE worker[j].at = "failed"
    <3>1. conflict' = [conflict EXCEPT ![j] = o]
      BY <1>2, <2>1, <2>2 DEF Conclude, TypeOK, Conflict
    <3>2. QED
      BY <2>1, <3>1
  <2>3. CASE worker[j].at # "failed"
    <3> DEFINE w == worker[j]
               Reviewed(t) == IF ~w.apply
                     THEN IF t \in w.missed THEN [NoConflict EXCEPT !.state = "open"] ELSE NoConflict
                     ELSE IF t \in Only(w) \cap w.applied THEN [o[t] EXCEPT !.state = "applied"]
                     ELSE IF t \in Only(w) \cap w.missed THEN [o[t] EXCEPT !.state = "open"]
                     ELSE o[t]
    <3>1. conflict' = [conflict EXCEPT ![j] = [t \in Track |-> Reviewed(t)]]
      BY <2>1, <2>3 DEF Conclude
    <3>2. /\ NoConflict \in Conflict /\ NoConflict.state = "no"
          /\ [NoConflict EXCEPT !.state = "open"] \in Conflict
          /\ [NoConflict EXCEPT !.state = "open"].state = "open"
      BY DEF NoConflict, Conflict
    <3>3. ASSUME NEW t \in Track
          PROVE  /\ Reviewed(t) \in Conflict
                 /\ Reviewed(t).state = "applied" =>
                      /\ Reviewed(t).id = o[t].id
                      /\ o[t].state = "applied" \/ (w.apply /\ t \in Only(w) \cap w.applied)
      <4>1. CASE ~w.apply
        BY <3>2, <4>1
      <4>2. CASE w.apply
        <5>1. PICK e \in Conflict : e = o[t]
          OBVIOUS
        <5>2. /\ [e EXCEPT !.state = "applied"] \in Conflict /\ [e EXCEPT !.state = "open"] \in Conflict
              /\ [e EXCEPT !.state = "applied"].id = e.id /\ [e EXCEPT !.state = "open"].state = "open"
          BY DEF Conflict
        <5>3. QED
          BY <4>2, <5>1, <5>2
      <4>3. QED
        BY <4>1, <4>2
    <3>4. \A t \in Only(w) : worker[j].pending[t] # NoId
      BY DEF Only
    <3>5. worker[j].at = "ended"
      BY <1>1, <2>3
    <3> HIDE DEF Reviewed
    <3>6. PICK c \in [Track -> Conflict] : c = [t \in Track |-> Reviewed(t)]
      BY <3>3
    <3>7. \A t \in Track : c[t] = Reviewed(t)
      BY <3>6
    <3>8. QED
      BY <2>1, <3>1, <3>3, <3>4, <3>5, <3>6, <3>7
  <2>4. QED
    BY <2>2, <2>3
<1>9. /\ conflict' \in [Job -> [Track -> Conflict]] /\ conflict'[j] = c
      /\ \A i \in Job \ {j} : conflict'[i] = conflict[i]
  BY <1>2, <1>8 DEF TypeOK, Conflict
<1>10. /\ hist' \in [Job -> Record] /\ hist'[j] = Snapshot(j)' /\ hist'[j].added = added'[j]
       /\ \A i \in Job \ {j} : hist'[i] = hist[i]
   <2>1. Snapshot(j)' \in Record
     BY <1>2, <1>3, <1>6 DEF Snapshot, Record, Typed
   <2>2. QED
     BY <1>2, <1>3, <2>1, Saves
<1>11. TypeOK'
   BY <1>2, <1>3, <1>4, <1>5, <1>6, <1>7, <1>9, <1>10
      DEF TypeOK, WorkerRecord, ResolverRecord, Conflict, LockTyped, Clients
<1>12. ASSUME NEW i \in Job, i # j PROVE JobInv(i)'
   <2>1. Untouched(i)
     BY <1>3, <1>4, <1>5, <1>6, <1>7, <1>9, <1>10, <1>12 DEF Untouched, OthersWait, Clients
   <2>2. Grows
     BY <1>2, <1>3 DEF Grows, TypeOK
   <2>3. QED
     BY <2>1, <2>2, OthersKeep
<1>13. InSlot(j)'
   BY <1>2, <1>4, <1>5, <1>6 DEF InSlot, JobInv, Job, NoOne, Terminal
<1>14. TargetKnown(j)' /\ RowsAreNew(j)' /\ RowsAreChoices(j)' /\ ChoicesStand(j)'
   BY <1>2, <1>3, <1>5, <1>6 DEF TargetKnown, RowsAreNew, RowsAreChoices, ChoicesStand, JobInv, Terminal
<1>15. ResolverKnown(j)'
   BY <1>2, <1>3, <1>6, <1>7 DEF ResolverKnown, JobInv, Terminal
<1>16. AppliedInShape(j)'
   <2>1. status'[j] # "new"
     BY <1>6 DEF Terminal
   <2>2. ASSUME j \notin raced', NEW t \in Track, conflict'[j][t].state = "applied"
         PROVE  dest'[j] # NoPlaylist /\ conflict'[j][t].id \in contents'[dest'[j]]
     <3>1. CASE conflict[j][t].state = "applied"
       BY <1>2, <1>3, <1>8, <1>9, <2>2, <3>1 DEF JobInv, AppliedInShape
     <3>2. CASE /\ worker[j].at = "ended" /\ worker[j].apply
                /\ t \in worker[j].applied /\ worker[j].pending[t] # NoId
       <4>1. conflict[j][t].id = worker[j].pending[t]
         BY <1>2, <1>3, <2>2, <3>2 DEF JobInv, ChoicesStand
       <4>2. worker[j].pending[t] \in contents[dest[j]] /\ dest[j] # NoPlaylist
         BY <1>2, <3>2 DEF JobInv, RowsAreChoices, TargetKnown
       <4>3. QED
         BY <1>3, <1>8, <1>9, <2>2, <4>1, <4>2
     <3>3. QED
       BY <1>8, <1>9, <2>2, <3>1, <3>2
   <2>3. QED
     BY <2>1, <2>2 DEF AppliedInShape
<1>17. RecordFollows(j)'
   BY <1>10 DEF RecordFollows
<1>18. CountKnown(j)'
   <2>1. StillToCome(j)' = 0 /\ StillToCome(j) \in Nat
     BY <1>2, <1>5, <1>6, StillTyped DEF StillToCome, Terminal
   <2>2. requests' \in Int /\ requests <= requests' /\ confirmed'[j] = confirmed[j]
     BY <1>2, <1>3 DEF TypeOK
   <2>3. confirmed'[j] + StillToCome(j)' <= NumTracks * requests'
     BY <1>2, <2>1, <2>2, FitsStill DEF JobInv
   <2>4. CountKnown(j) /\ confirmed[j] \in Int
     BY <1>2, CountsAreInt DEF JobInv, Typed
   <2>5. status'[j] # "new"
     BY <1>6 DEF Terminal
   <2>6. QED
     BY <1>2, <1>3, <1>5, <1>10, <2>3, <2>4, <2>5 DEF CountKnown
<1>19. FirstWrite(j)'
   BY <1>2, <1>3, <1>5, <1>6 DEF FirstWrite, JobInv, Terminal
<1>20. WrittenIsThere' /\ CopiedOnce'
   BY <1>3 DEF IInv, WrittenIsThere, CopiedOnce
<1>21. QED
   BY <1>4, <1>11, <1>12, <1>13, <1>14, <1>15, <1>16, <1>17, <1>18, <1>19, <1>20 DEF IInv, JobInv

-----------------------------------------------------------------------------
(* Writes. *)

\* The next batch is a beginning of the rows that are left; the rest follows.
BatchFits(j, batch, rest) ==
  LET adds == worker[j].adds IN
  /\ batch \in Seq(Track \X Id) /\ rest \in Seq(Track \X Id)
  /\ Len(adds) \in Nat /\ Len(batch) \in Nat /\ Len(rest) \in Nat
  /\ Len(rest) = Len(adds) - Len(batch)
  /\ \A i \in 1..Len(batch) : i \in 1..Len(adds) /\ batch[i] = adds[i]
  /\ \A i \in 1..Len(rest) : Len(batch) + i \in 1..Len(adds) /\ rest[i] = adds[Len(batch) + i]

\* A batch is the first of the rows; the rest are others, of other tracks.
LEMMA BatchFields ==
  ASSUME TypeOK, NEW j \in Job
  PROVE  BatchFits(j, Batch(j), SubSeq(worker[j].adds, Len(Batch(j)) + 1, Len(worker[j].adds)))
<1>1. PICK adds \in Seq(Track \X Id) : adds = worker[j].adds
  BY TypesOfOne DEF Typed, WorkerRecord
<1>2. Len(adds) \in Nat /\ \A i \in 1..Len(adds) : adds[i] \in Track \X Id
  BY LenProperties
<1>3. BatchSize \in Nat
  BY TransfersAssumption
<1>4. PICK batch : batch = Batch(j)
  OBVIOUS
<1>5. /\ batch \in Seq(Track \X Id) /\ Len(batch) \in Nat /\ Len(batch) <= Len(adds)
      /\ \A i \in 1..Len(batch) : batch[i] = adds[i]
  <2>1. CASE worker[j].whole \/ Len(adds) <= BatchSize
    <3>1. batch = adds
      BY <1>1, <1>4, <2>1 DEF Batch
    <3>2. QED
      BY <1>2, <3>1
  <2>2. CASE ~(worker[j].whole \/ Len(adds) <= BatchSize)
    <3>1. batch = SubSeq(adds, 1, BatchSize) /\ BatchSize < Len(adds)
      BY <1>1, <1>2, <1>3, <1>4, <2>2 DEF Batch
    <3>2. \A i \in 1..BatchSize : adds[i] \in Track \X Id
      BY <1>2, <1>3, <3>1
    <3>3. /\ batch \in Seq(Track \X Id)
          /\ Len(batch) = IF 1 <= BatchSize THEN BatchSize - 1 + 1 ELSE 0
          /\ \A i \in 1..(BatchSize - 1 + 1) : batch[i] = adds[1 + i - 1]
      BY <1>3, <3>1, <3>2, SubSeqProperties
    <3>4. Len(batch) = BatchSize
      BY <1>3, <3>3
    <3>5. \A i \in 1..BatchSize : batch[i] = adds[i]
      <4>1. ASSUME NEW i \in 1..BatchSize PROVE batch[i] = adds[i]
        <5>1. i \in 1..(BatchSize - 1 + 1) /\ 1 + i - 1 = i
          BY <1>3
        <5>2. QED
          BY <3>3, <5>1
      <4>2. QED
        BY <4>1
    <3>6. QED
      BY <1>2, <1>3, <3>1, <3>3, <3>4, <3>5
  <2>3. QED
    BY <2>1, <2>2
<1>6. PICK m \in Int : m = Len(batch) + 1
  BY <1>5
<1>7. PICK rest : rest = SubSeq(adds, m, Len(adds))
  OBVIOUS
<1>8. \A i \in m..Len(adds) : adds[i] \in Track \X Id
  BY <1>2, <1>5, <1>6
<1>9. /\ rest \in Seq(Track \X Id)
      /\ Len(rest) = IF m <= Len(adds) THEN Len(adds) - m + 1 ELSE 0
      /\ \A i \in 1..(Len(adds) - m + 1) : rest[i] = adds[m + i - 1]
  BY SMTT(20), <1>2, <1>6, <1>7, <1>8, SubSeqProperties
<1>10. Len(rest) = Len(adds) - Len(batch) /\ Len(adds) - m + 1 = Len(adds) - Len(batch)
   BY <1>2, <1>5, <1>6, <1>9
<1>11. ASSUME NEW i \in 1..Len(rest)
       PROVE  Len(batch) + i \in 1..Len(adds) /\ rest[i] = adds[Len(batch) + i]
   <2>1. m + i - 1 = Len(batch) + i /\ Len(batch) + i \in 1..Len(adds)
     BY <1>2, <1>5, <1>6, <1>10
   <2>2. i \in 1..(Len(adds) - m + 1)
     BY <1>10
   <2>3. rest[i] = adds[m + i - 1]
     BY <1>9, <2>2
   <2>4. QED
     BY <2>1, <2>3
<1>12. BatchFits(j, batch, rest)
   <2>1. Len(rest) \in Nat
     BY <1>9, LenProperties
   <2>2. \A i \in 1..Len(batch) : i \in 1..Len(adds) /\ batch[i] = adds[i]
     <3>1. ASSUME NEW i \in 1..Len(batch) PROVE i \in 1..Len(adds)
       BY <1>2, <1>5
     <3>2. QED
       BY <1>5, <3>1
   <2>3. QED
     BY <1>1, <1>2, <1>5, <1>9, <1>10, <1>11, <2>1, <2>2 DEF BatchFits
<1>13. QED
   BY <1>1, <1>4, <1>6, <1>7, <1>12

\* What a write does to the playlists and to what is known of them.
Wrote(j, rows) ==
  /\ contents' \in [Playlist -> SUBSET Id]
  /\ \A p \in Playlist : contents[p] \subseteq contents'[p]
  /\ \A row \in rows : row[2] \in contents'[dest[j]]
  /\ copied' \in SUBSET (Playlist \X Track \X Id)
  /\ \A e \in copied' : e \in copied \/ \E row \in rows : e = <<dest[j], row[1], row[2]>>
  /\ again' = FALSE /\ WrittenIsThere'
  /\ since' \in [Job -> 0..2] /\ since'[j] <= 1 /\ (control[j] = "run" => since'[j] = 0)
  /\ \A i \in Job \ {j} : since'[i] = since[i]

\* A write adds its ids to the playlist, and repeats nothing when its rows are new.
LEMMA PutWrites ==
  ASSUME IInv, NEW j \in Job, worker[j].at = "send", NEW rows, rows \subseteq Range(Batch(j)),
         Put(j, rows)
  PROVE  Wrote(j, rows)
<1>1. TypeOK /\ Typed(j) /\ JobInv(j)
  BY TypesOfOne DEF IInv
<1>2. PICK d \in Playlist : d = dest[j] /\ Target(j) = d
  BY <1>1 DEF JobInv, TargetKnown, Typed, Target
<1>3. \A row \in rows : /\ row \in Track \X Id /\ row[1] \in Track /\ row[2] \in Id
                        /\ <<d, row[1], row[2]>> \notin copied
  <2>1. ASSUME NEW row \in rows
        PROVE  \E i \in 1..Len(worker[j].adds) : row = worker[j].adds[i] /\ row \in Track \X Id
    <3>1. PICK b \in Seq(Track \X Id) :
            /\ b = Batch(j)
            /\ \A i \in 1..Len(b) : i \in 1..Len(worker[j].adds) /\ b[i] = worker[j].adds[i]
      BY <1>1, BatchFields DEF BatchFits
    <3>2. PICK i \in 1..Len(b) : row = b[i]
      BY <3>1 DEF Range
    <3>3. QED
      BY <3>1, <3>2
  <2>2. QED
    BY <1>1, <1>2, <2>1 DEF JobInv, RowsAreNew
<1>4. PICK ids \in SUBSET Id : ids = {row[2] : row \in rows}
  BY <1>3
<1>5. PICK new \in SUBSET (Playlist \X Track \X Id) : new = {<<d, row[1], row[2]>> : row \in rows}
  <2>1. PICK new : new = {<<d, row[1], row[2]>> : row \in rows}
    OBVIOUS
  <2>2. ASSUME NEW row \in rows PROVE <<d, row[1], row[2]>> \in Playlist \X Track \X Id
    BY <1>3
  <2>3. QED
    BY <2>1, <2>2
<1>6. /\ contents' = [contents EXCEPT ![d] = @ \cup ids]
      /\ again' = (again \/ new \cap copied # {}) /\ copied' = copied \cup new
      /\ since' = [since EXCEPT ![j] = IF control[j] # "run" /\ @ < 2 THEN @ + 1 ELSE @]
  BY <1>2, <1>4, <1>5 DEF Put
<1>7. /\ contents' \in [Playlist -> SUBSET Id]
      /\ \A p \in Playlist : contents[p] \subseteq contents'[p]
      /\ ids \subseteq contents'[d]
  BY <1>1, <1>6 DEF TypeOK
<1>8. new \cap copied = {}
  BY <1>3, <1>5
<1>9. copied' \in SUBSET (Playlist \X Track \X Id) /\ again' = FALSE
  BY <1>1, <1>6, <1>8 DEF TypeOK, IInv, CopiedOnce
<1>10. WrittenIsThere'
   <2>1. ASSUME NEW e \in copied' PROVE e[3] \in contents'[e[1]]
     <3>1. CASE e \in copied
       <4>1. e[1] \in Playlist /\ e[3] \in contents[e[1]]
         BY <1>1, <3>1 DEF TypeOK, IInv, WrittenIsThere
       <4>2. QED
         BY <1>7, <4>1
     <3>2. CASE e \in new
       <4>1. PICK row \in rows : e = <<d, row[1], row[2]>>
         BY <1>5, <3>2
       <4>2. e[1] = d /\ e[3] = row[2] /\ row[2] \in ids
         BY <1>4, <4>1
       <4>3. QED
         BY <1>7, <4>2
     <3>3. QED
       BY <1>6, <2>1, <3>1, <3>2
   <2>2. QED
     BY <2>1 DEF WrittenIsThere
<1>11. /\ since' \in [Job -> 0..2] /\ since'[j] <= 1 /\ (control[j] = "run" => since'[j] = 0)
       /\ \A i \in Job \ {j} : since'[i] = since[i]
   <2>1. since[j] = 0 /\ since \in [Job -> 0..2]
     BY <1>1 DEF JobInv, FirstWrite, TypeOK
   <2>2. PICK n \in 0..1 : n = IF control[j] # "run" THEN 1 ELSE 0
     OBVIOUS
   <2>2a. since' = [since EXCEPT ![j] = n]
     BY <1>6, <2>1, <2>2
   <2>3. QED
     BY <2>1, <2>2, <2>2a
<1>12. QED
   BY <1>2, <1>4, <1>5, <1>6, <1>7, <1>9, <1>10, <1>11 DEF Wrote

\* An exception ends the thread, in the middle of a write perhaps.
LEMMA FailKeeps ==
  ASSUME IInv, NEW j \in Job, Fail(j)
  PROVE  IInv'
<1>1. worker[j].at \in {"setup", "match", "send"}
  BY DEF Fail
<1>2. /\ TypeOK /\ Typed(j) /\ JobInv(j) /\ status[j] = "running" /\ holder = j
      /\ \A i \in Job \ {j} : worker[i].at = "none"
  BY <1>1, Runs
<1>3. UNCHANGED <<status, control, dest, applying, added, conflict, resolver, holder, queue, hist,
                  manual, confirmed, created, aborted, raced, requests, restarts>>
  BY DEF Fail, memory, lock
<1>4. faults' \in 0..MaxFaults
  BY <1>2, TransfersAssumption DEF Fail, TypeOK
<1>5. PICK w \in WorkerRecord :
        /\ worker' = [worker EXCEPT ![j] = w]
        /\ w.at = "failed" /\ w.apply = worker[j].apply /\ w.pending = worker[j].pending
        /\ w.base = worker[j].base /\ w.written = worker[j].written
  <2>1. PICK r \in WorkerRecord : r = worker[j]
    BY <1>2 DEF Typed
  <2>2. PICK w \in WorkerRecord : w = [r EXCEPT !.at = "failed"]
    BY DEF WorkerRecord
  <2>3. /\ w.at = "failed" /\ w.apply = r.apply /\ w.pending = r.pending
        /\ w.base = r.base /\ w.written = r.written
    BY <2>2 DEF WorkerRecord
  <2>4. worker' = [worker EXCEPT ![j] = w]
    BY <1>2, <2>1, <2>2 DEF Fail, TypeOK
  <2>5. QED
    BY <2>1, <2>3, <2>4
<1>6. /\ worker' \in [Job -> WorkerRecord] /\ worker'[j] = w
      /\ \A i \in Job \ {j} : worker'[i] = worker[i]
  BY <1>2, <1>5 DEF TypeOK, WorkerRecord
<1>7. /\ contents' \in [Playlist -> SUBSET Id]
      /\ \A p \in Playlist : contents[p] \subseteq contents'[p]
      /\ copied' \in SUBSET (Playlist \X Track \X Id) /\ again' = FALSE /\ WrittenIsThere'
      /\ since' \in [Job -> 0..2] /\ since'[j] <= 1 /\ (control[j] = "run" => since'[j] = 0)
      /\ \A i \in Job \ {j} : since'[i] = since[i]
  <2>1. CASE worker[j].at = "send"
    <3>1. PICK rows \in SUBSET {row \in Range(Batch(j)) : row[2] \notin Refused} : Put(j, rows)
      BY <2>1 DEF Fail
    <3>2. Wrote(j, rows)
      BY <2>1, <3>1, PutWrites
    <3>3. QED
      BY <3>2 DEF Wrote
  <2>2. CASE worker[j].at # "send"
    <3>1. UNCHANGED <<contents, copied, again, since>>
      BY <2>2 DEF Fail
    <3>2. WrittenIsThere'
      BY <3>1 DEF IInv, WrittenIsThere
    <3>3. QED
      BY <1>2, <3>1, <3>2 DEF TypeOK, IInv, CopiedOnce, JobInv, FirstWrite
  <2>3. QED
    BY <2>1, <2>2
<1>8. TypeOK'
  BY <1>2, <1>3, <1>4, <1>6, <1>7 DEF TypeOK, WorkerRecord
<1>9. ASSUME NEW i \in Job, i # j PROVE JobInv(i)'
  <2>1. Untouched(i)
    BY <1>2, <1>3, <1>6, <1>7, <1>9 DEF Untouched, InQueue
  <2>2. Grows
    BY <1>2, <1>3, <1>7 DEF Grows, TypeOK
  <2>3. QED
    BY <2>1, <2>2, OthersKeep
<1>10. InSlot(j)' /\ TargetKnown(j)'
   BY <1>1, <1>2, <1>3, <1>5, <1>6 DEF InSlot, TargetKnown, JobInv, InQueue
<1>11. RowsAreNew(j)' /\ RowsAreChoices(j)'
   BY <1>5, <1>6 DEF RowsAreNew, RowsAreChoices
<1>12. ChoicesStand(j)'
   BY <1>1, <1>2, <1>3, <1>5, <1>6 DEF ChoicesStand, JobInv
<1>13. ResolverKnown(j)' /\ RecordFollows(j)'
   BY <1>2, <1>3 DEF ResolverKnown, RecordFollows, JobInv, Terminal
<1>14. AppliedInShape(j)'
   <2>1. dest[j] # NoPlaylist => dest[j] \in Playlist
     BY <1>2 DEF Typed
   <2>2. QED
     BY <1>2, <1>3, <1>7, <2>1 DEF AppliedInShape, JobInv
<1>15. CountKnown(j)'
   <2>1. StillToCome(j)' = 0 /\ StillToCome(j) \in Nat
     BY <1>2, <1>3, <1>5, <1>6, StillTyped DEF StillToCome
   <2>2. requests' \in Int /\ requests <= requests' /\ confirmed'[j] = confirmed[j]
     BY <1>2, <1>3 DEF TypeOK
   <2>3. confirmed'[j] + StillToCome(j)' <= NumTracks * requests'
     BY <1>2, <2>1, <2>2, FitsStill DEF JobInv
   <2>4. CountKnown(j)
     BY <1>2 DEF JobInv
   <2>5. QED
     BY <1>1, <1>3, <1>5, <1>6, <2>3, <2>4 DEF CountKnown
<1>16. FirstWrite(j)'
   BY <1>2, <1>3, <1>5, <1>6, <1>7 DEF FirstWrite
<1>17. CopiedOnce' /\ QueueDistinct'
   BY <1>3, <1>7 DEF IInv, CopiedOnce, QueueDistinct
<1>18. QED
   BY <1>7, <1>8, <1>9, <1>10, <1>11, <1>12, <1>13, <1>14, <1>15, <1>16, <1>17 DEF IInv, JobInv

\* One batch is written, and counted as far as the provider confirmed it.
LEMMA SendKeeps ==
  ASSUME IInv, NEW j \in Job, Send(j)
  PROVE  IInv'
<1> DEFINE batch == Batch(j)
           rest == SubSeq(worker[j].adds, Len(batch) + 1, Len(worker[j].adds))
           taken == ConfirmedRows(Range(batch))
           refused == Range(batch) \ taken
           Sharing(rows) == {t \in Track : \E row \in rows :
                               t = row[1] \/ (t \in Only(worker[j]) /\ Chosen(j, t) = row[2])}
<1>1. worker[j].at = "send"
  BY DEF Send
<1>2. /\ TypeOK /\ Typed(j) /\ JobInv(j) /\ status[j] = "running" /\ holder = j
      /\ \A i \in Job \ {j} : worker[i].at = "none"
  BY <1>1, Runs
<1>3. UNCHANGED <<status, control, dest, applying, conflict, resolver, holder, queue,
                  manual, created, aborted, raced, requests, faults, restarts>>
  BY DEF Send, lock, bounds
<1>4. BatchFits(j, batch, rest)
  BY <1>2, BatchFields
<1>5. /\ Put(j, taken) /\ (Saved(j) \/ UNCHANGED hist)
      /\ added' = [added EXCEPT ![j] = worker[j].base + worker[j].written + Cardinality(taken)]
      /\ confirmed' = [confirmed EXCEPT ![j] = @ + Cardinality(taken)]
      /\ worker' = [worker EXCEPT
           ![j].at = IF rest = <<>> THEN "ended" ELSE "poll", ![j].adds = rest,
           ![j].written = @ + Cardinality(taken),
           ![j].missed = @ \cup Sharing(refused),
           ![j].applied = IF worker[j].apply THEN @ \cup Sharing(taken) ELSE @]
  BY DEF Send, ConfirmedRows
<1>6. taken \subseteq Range(batch)
  BY DEF ConfirmedRows
<1>7. Wrote(j, taken)
  BY <1>1, <1>5, <1>6, PutWrites
<1>8. PICK n \in Nat : n = Cardinality(taken) /\ n <= Len(batch)
  <2>1. batch \in Seq(Track \X Id) /\ Len(batch) \in Nat
    BY <1>4 DEF BatchFits
  <2>2. PICK f : f = [i \in 1..Len(batch) |-> batch[i]]
    OBVIOUS
  <2>3. Range(batch) = {batch[i] : i \in 1..Len(batch)}
    BY <2>1, RangeEquality
  <2>4. f \in Surjection(1..Len(batch), Range(batch))
    BY <2>2, <2>3 DEF Surjection
  <2>5. IsFiniteSet(1..Len(batch)) /\ Cardinality(1..Len(batch)) = Len(batch)
    BY <2>1, FS_Interval
  <2>6. IsFiniteSet(Range(batch)) /\ Cardinality(Range(batch)) <= Len(batch)
    BY <2>4, <2>5, FS_Surjection
  <2>7. IsFiniteSet(taken) /\ Cardinality(taken) <= Cardinality(Range(batch))
    BY <1>6, <2>6, FS_Subset
  <2>8. Cardinality(taken) \in Nat /\ Cardinality(Range(batch)) \in Nat
    BY <2>6, <2>7, FS_CardinalityType
  <2>9. QED
    BY <2>1, <2>6, <2>7, <2>8
<1>9. \A t \in Sharing(taken) : t \in Track /\ \E row \in taken :
        t = row[1] \/ (t \in Only(worker[j]) /\ Chosen(j, t) = row[2])
  OBVIOUS
<1>10. PICK q \in Nat :
         /\ q = NumTracks * requests /\ requests \in 0..MaxRequests
         /\ worker[j].base \in Nat /\ worker[j].written \in Nat /\ confirmed[j] \in Nat
         /\ added[j] = confirmed[j] /\ added[j] = worker[j].base + worker[j].written
         /\ confirmed[j] + Len(worker[j].adds) <= q
   <2>1. worker[j].base \in Counts /\ worker[j].written \in Counts /\ confirmed[j] \in Counts
     BY <1>2 DEF Typed, WorkerRecord
   <2>2. CountKnown(j) /\ StillToCome(j) = Len(worker[j].adds)
     BY <1>1, <1>2 DEF JobInv, StillToCome
   <2>3. requests \in 0..MaxRequests /\ NumTracks \in Nat /\ MaxRequests \in Nat
     BY <1>2, TransfersAssumption DEF TypeOK
   <2>4. NumTracks * requests \in Nat
     BY <2>3
   <2>5. QED
     BY <1>1, <1>2, <2>1, <2>2, <2>3, <2>4, CountsAreInt DEF CountKnown
<1>11. PICK base \in Nat, old \in Nat, a \in Nat, b \in Nat :
         /\ base = worker[j].base /\ old = worker[j].written
         /\ a = Len(worker[j].adds) /\ b = Len(batch)
         /\ confirmed[j] = base + old /\ (base + old) + a <= q /\ n <= b /\ b <= a
   <2>1. /\ Len(worker[j].adds) \in Nat /\ Len(batch) <= Len(worker[j].adds) /\ Len(batch) \in Nat
     BY <1>4 DEF BatchFits
   <2>2. /\ worker[j].base \in Nat /\ worker[j].written \in Nat
         /\ confirmed[j] = worker[j].base + worker[j].written
         /\ confirmed[j] + Len(worker[j].adds) <= q
     BY <1>10
   <2>3. n <= Len(batch)
     BY <1>8
   <2>4. QED
     BY <2>1, <2>2, <2>3
<1>12. (base + old) + a <= q /\ n <= b /\ b <= a
   BY <1>11
<1>13. PICK total \in Counts : total = (base + old) + n /\ total \in Nat
   <2>1. (base + old) + n \in Nat /\ (base + old) + n <= q
     BY <1>12
   <2>2. (base + old) + n \in Counts
     BY <1>10, <2>1, Countable
   <2>3. QED
     BY <2>1, <2>2
<1>14. PICK sent \in Counts : sent = old + n /\ sent \in Nat
   <2>1. old + n \in Nat /\ old + n <= q
     BY <1>12
   <2>2. old + n \in Counts
     BY <1>10, <2>1, Countable
   <2>3. QED
     BY <2>1, <2>2
<1>15. /\ confirmed[j] \in Nat /\ n \in Nat /\ total \in Nat /\ total = confirmed[j] + n
       /\ added[j] = confirmed[j] /\ worker[j].base + sent = total
       /\ worker[j].base + worker[j].written + n = total /\ sent = worker[j].written + n
   <2>1. confirmed[j] = base + old /\ worker[j].base = base /\ worker[j].written = old
     BY <1>11
   <2>2. added[j] = confirmed[j]
     BY <1>10
   <2>3. base + sent = total /\ base + old + n = total
     BY <1>13, <1>14
   <2>4. QED
     BY <1>13, <1>14, <2>1, <2>2, <2>3
<1>16. PICK w \in WorkerRecord :
         /\ worker' = [worker EXCEPT ![j] = w]
         /\ w.at \in {"ended", "poll"} /\ w.adds = rest /\ w.written = sent
         /\ w.base = worker[j].base /\ w.apply = worker[j].apply /\ w.pending = worker[j].pending
         /\ w.apply => w.applied = worker[j].applied \cup Sharing(taken)
   <2>1. PICK r \in WorkerRecord : r = worker[j]
     BY <1>2 DEF Typed
   <2>2. PICK s \in Seq(Track \X Id) : s = rest
     BY <1>4 DEF BatchFits
   <2>3. PICK m \in SUBSET Track : m = r.missed \cup Sharing(refused)
     BY DEF WorkerRecord
   <2>4. PICK marked \in SUBSET Track : marked = IF r.apply THEN r.applied \cup Sharing(taken) ELSE r.applied
     BY DEF WorkerRecord
   <2>5. PICK at \in {"ended", "poll"} : at = IF s = <<>> THEN "ended" ELSE "poll"
     OBVIOUS
   <2>6. PICK w \in WorkerRecord :
           w = [r EXCEPT !.at = at, !.adds = s, !.written = sent, !.missed = m, !.applied = marked]
     BY DEF WorkerRecord
   <2>7. /\ w.at = at /\ w.adds = s /\ w.written = sent /\ w.base = r.base
         /\ w.apply = r.apply /\ w.pending = r.pending /\ w.applied = marked
     BY <2>6 DEF WorkerRecord
   <2> HIDE DEF rest, taken, refused, Sharing
   <2>8. worker' = [worker EXCEPT ![j] = w]
     BY <1>2, <1>5, <1>8, <1>15, <2>1, <2>2, <2>3, <2>4, <2>5, <2>6 DEF TypeOK
   <2>9. QED
     BY <2>1, <2>2, <2>4, <2>5, <2>7, <2>8
<1> HIDE DEF batch, rest, taken, refused, Sharing
<1>17. /\ worker' \in [Job -> WorkerRecord] /\ worker'[j] = w
       /\ \A i \in Job \ {j} : worker'[i] = worker[i]
   BY <1>2, <1>16 DEF TypeOK, WorkerRecord
<1>18. /\ added' \in [Job -> Counts] /\ confirmed' \in [Job -> Counts]
       /\ added'[j] = total /\ confirmed'[j] = total
       /\ \A i \in Job \ {j} : added'[i] = added[i] /\ confirmed'[i] = confirmed[i]
   <2>1. added' = [added EXCEPT ![j] = total] /\ confirmed' = [confirmed EXCEPT ![j] = total]
     BY <1>2, <1>5, <1>8, <1>15 DEF TypeOK
   <2>2. QED
     BY <1>2, <2>1 DEF TypeOK
<1>19. /\ hist' \in [Job -> Record] /\ \A i \in Job \ {j} : hist'[i] = hist[i]
       /\ hist'[j].added <= total
   <2>1. CASE Saved(j)
     <3>1. Snapshot(j)' \in Record
       BY <1>2, <1>3, <1>18 DEF Snapshot, Record, Typed
     <3>2. total \in Nat
       BY CountsAreInt
     <3>3. QED
       BY <1>2, <1>18, <2>1, <3>1, <3>2, Saves
   <2>2. CASE UNCHANGED hist
     <3>1. hist[j].added <= confirmed[j] /\ hist[j].added \in Counts
       BY <1>2 DEF JobInv, CountKnown, Typed, Record
     <3>2. hist[j].added \in Nat
       BY <3>1, CountsAreInt
     <3>3. QED
       <4>1. hist[j].added <= total
         BY <1>15, <3>1, <3>2
       <4>2. QED
         BY <1>2, <2>2, <4>1 DEF TypeOK
   <2>3. QED
     BY <1>5, <2>1, <2>2
<1>20. TypeOK'
   BY <1>2, <1>3, <1>7, <1>17, <1>18, <1>19 DEF TypeOK, WorkerRecord, Wrote
<1>21. ASSUME NEW i \in Job, i # j PROVE JobInv(i)'
   <2>1. Untouched(i)
     BY <1>2, <1>3, <1>7, <1>17, <1>18, <1>19, <1>21 DEF Untouched, InQueue, Wrote
   <2>2. Grows
     BY <1>2, <1>3, <1>7 DEF Grows, TypeOK, Wrote
   <2>3. QED
     BY <2>1, <2>2, OthersKeep
<1>22. InSlot(j)' /\ TargetKnown(j)'
   BY <1>1, <1>2, <1>3, <1>16, <1>17 DEF InSlot, TargetKnown, JobInv, InQueue
<1>23. \A row \in taken : \E k \in 1..Len(worker[j].adds) : k <= Len(batch) /\ row = worker[j].adds[k]
   <2>1. ASSUME NEW row \in taken
         PROVE  \E k \in 1..Len(worker[j].adds) : k <= Len(batch) /\ row = worker[j].adds[k]
     <3>1. batch \in Seq(Track \X Id) /\ row \in Range(batch)
       BY <1>4, <1>6 DEF BatchFits
     <3>2. PICK k \in 1..Len(batch) : row = batch[k]
       BY <3>1, RangeEquality
     <3>3. QED
       BY <1>4, <3>2 DEF BatchFits
   <2>2. QED
     BY <2>1
<1>24. RowsAreNew(j)'
   <2>1. ASSUME NEW i \in 1..Len(rest)
         PROVE  /\ <<dest[j], rest[i][1], rest[i][2]>> \notin copied'
                /\ \A k \in 1..Len(rest) : rest[i][1] = rest[k][1] => i = k
     <3>1. /\ Len(batch) \in Nat /\ Len(rest) \in Nat
           /\ \A k \in 1..Len(rest) : Len(batch) + k \in 1..Len(worker[j].adds)
                                       /\ rest[k] = worker[j].adds[Len(batch) + k]
       BY <1>4 DEF BatchFits
     <3>2. \A k, m \in 1..Len(worker[j].adds) : worker[j].adds[k][1] = worker[j].adds[m][1] => k = m
       BY <1>1, <1>2 DEF JobInv, RowsAreNew
     <3>3. <<dest[j], rest[i][1], rest[i][2]>> \notin copied
       BY <1>1, <1>2, <3>1 DEF JobInv, RowsAreNew
     <3>4. ASSUME NEW row \in taken PROVE <<dest[j], rest[i][1], rest[i][2]>> # <<dest[j], row[1], row[2]>>
       <4>1. PICK k \in 1..Len(worker[j].adds) : k <= Len(batch) /\ row = worker[j].adds[k]
         BY <1>23
       <4>2. k # Len(batch) + i
         BY <3>1, <4>1
       <4>3. row[1] # rest[i][1]
         BY <3>1, <3>2, <4>1, <4>2
       <4>4. QED
         BY <4>3
     <3>5. ASSUME NEW k \in 1..Len(rest), rest[i][1] = rest[k][1] PROVE i = k
       <4>1. PICK l \in 1..Len(worker[j].adds) : l = Len(batch) + i /\ rest[i] = worker[j].adds[l]
         BY <3>1
       <4>2. PICK m \in 1..Len(worker[j].adds) : m = Len(batch) + k /\ rest[k] = worker[j].adds[m]
         BY <3>1, <3>5
       <4>3. l = m
         BY <3>2, <3>5, <4>1, <4>2
       <4>4. QED
         BY <3>1, <3>5, <4>1, <4>2, <4>3
     <3>6. QED
       BY <1>7, <3>3, <3>4, <3>5 DEF Wrote
   <2>2. QED
     BY <1>3, <1>16, <1>17, <2>1 DEF RowsAreNew
<1>25. RowsAreChoices(j)'
   <2>1. ASSUME w.apply, NEW i \in 1..Len(rest)
         PROVE  w.pending[rest[i][1]] # NoId /\ w.pending[rest[i][1]] = rest[i][2]
     <3>1. Len(batch) + i \in 1..Len(worker[j].adds) /\ rest[i] = worker[j].adds[Len(batch) + i]
       BY <1>4 DEF BatchFits
     <3>2. QED
       BY <1>1, <1>2, <1>16, <2>1, <3>1 DEF JobInv, RowsAreChoices
   <2>2. ASSUME w.apply, NEW t \in w.applied, w.pending[t] # NoId
         PROVE  w.pending[t] \in contents'[dest[j]]
     <3>1. CASE t \in worker[j].applied
       <4>1. worker[j].pending[t] \in contents[dest[j]] /\ dest[j] \in Playlist
         BY <1>1, <1>2, <1>16, <2>2, <3>1 DEF JobInv, RowsAreChoices, TargetKnown, Typed
       <4>2. QED
         BY <1>7, <1>16, <4>1 DEF Wrote
     <3>2. CASE t \in Sharing(taken)
       <4>1. PICK row \in taken : t = row[1] \/ (t \in Only(worker[j]) /\ Chosen(j, t) = row[2])
         BY <1>9, <3>2
       <4>2. row[2] = worker[j].pending[t]
         <5>1. CASE t = row[1]
           <6>1. PICK k \in 1..Len(worker[j].adds) : row = worker[j].adds[k]
             BY <1>23
           <6>2. QED
             BY <1>1, <1>2, <1>16, <2>2, <5>1, <6>1 DEF JobInv, RowsAreChoices
         <5>2. CASE t \in Only(worker[j]) /\ Chosen(j, t) = row[2]
           BY <5>2 DEF Only, Chosen
         <5>3. QED
           BY <4>1, <5>1, <5>2
       <4>3. QED
         BY <1>7, <1>16, <4>2 DEF Wrote
     <3>3. QED
       BY <1>16, <2>2, <3>1, <3>2
   <2>3. QED
     BY <1>3, <1>16, <1>17, <2>1, <2>2 DEF RowsAreChoices
<1>26. ChoicesStand(j)'
   BY <1>1, <1>2, <1>3, <1>16, <1>17 DEF ChoicesStand, JobInv
<1>27. ResolverKnown(j)' /\ RecordFollows(j)'
   <2>1. confirmed[j] <= confirmed'[j] /\ confirmed[j] \in Int /\ confirmed'[j] \in Int
     BY <1>15, <1>18
   <2>2. resolver[j].snapshot \in Record => resolver[j].snapshot.added \in Int
     BY CountsAreInt DEF Record
   <2>3. ResolverKnown(j)'
     BY <1>2, <1>3, <2>1, <2>2 DEF ResolverKnown, JobInv
   <2>4. RecordFollows(j)'
     BY <1>2, <1>3 DEF RecordFollows, Terminal
   <2>5. QED
     BY <2>3, <2>4
<1>28. AppliedInShape(j)'
   <2>1. dest[j] # NoPlaylist => dest[j] \in Playlist
     BY <1>2 DEF Typed
   <2>2. QED
     BY <1>2, <1>3, <1>7, <2>1 DEF AppliedInShape, JobInv, Wrote
<1>29. CountKnown(j)'
   <2>1. added'[j] = w.base + w.written
     BY <1>15, <1>16, <1>18
   <2>2. confirmed'[j] + StillToCome(j)' <= NumTracks * requests'
     <3>1. Len(rest) \in Nat /\ Len(rest) = Len(worker[j].adds) - Len(batch) /\ Len(batch) \in Nat
           /\ Len(worker[j].adds) \in Nat
       BY <1>4 DEF BatchFits
     <3>2. StillToCome(j)' = 0 \/ StillToCome(j)' = Len(rest)
       BY <1>2, <1>3, <1>16, <1>17 DEF StillToCome
     <3>3. total + StillToCome(j)' <= q
       <4>1. total + 0 <= q /\ total + (a - b) <= q
         BY <1>12, <1>13
       <4>2. Len(rest) = a - b
         BY <1>11, <3>1
       <4>3. QED
         BY <3>2, <4>1, <4>2
     <3>4. NumTracks * requests' = q
       BY <1>3, <1>10
     <3>5. confirmed'[j] = total
       BY <1>18
     <3>6. QED
       BY <3>3, <3>4, <3>5
   <2>3. QED
     BY <1>2, <1>3, <1>16, <1>17, <1>18, <1>19, <2>1, <2>2 DEF CountKnown
<1>30. FirstWrite(j)'
   BY <1>2, <1>3, <1>7, <1>16, <1>17 DEF FirstWrite, Wrote
<1>31. CopiedOnce' /\ QueueDistinct' /\ WrittenIsThere'
   BY <1>3, <1>7 DEF IInv, CopiedOnce, QueueDistinct, Wrote
<1>32. QED
   BY <1>20, <1>21, <1>22, <1>24, <1>25, <1>26, <1>27, <1>28, <1>29, <1>30, <1>31 DEF IInv, JobInv

-----------------------------------------------------------------------------
(* Matching. *)

\* What the thread makes of its source: rows that are new on the destination, each of a
\* track of its own, and people's choices where it applies these.
Examined(w, j) ==
  /\ w.at \in {"ended", "poll", "send"}
  /\ w.apply = worker[j].apply /\ w.pending = worker[j].pending
  /\ w.base = worker[j].base /\ w.written = worker[j].written
  /\ Len(w.adds) \in Nat /\ Len(w.adds) <= NumTracks
  /\ \A i \in 1..Len(w.adds) :
       /\ w.adds[i][2] \notin contents[dest[j]]
       /\ w.apply => w.pending[w.adds[i][1]] # NoId /\ w.pending[w.adds[i][1]] = w.adds[i][2]
       /\ \A k \in 1..Len(w.adds) : w.adds[i][1] = w.adds[k][1] => i = k
  /\ \A t \in w.applied : w.pending[t] # NoId => w.pending[t] \in contents[dest[j]]

\* The rows to write are of different tracks, and none is on the destination.
LEMMA ExamineRows ==
  ASSUME IInv, NEW j \in Job, Examine(j)
  PROVE  \E w \in WorkerRecord : worker' = [worker EXCEPT ![j] = w] /\ Examined(w, j)
<1>1. PICK n \in 0..NumTracks, seen \in SUBSET Track, whole \in BOOLEAN :
        worker' = [worker EXCEPT ![j] = Matched(j, n, seen, whole)]
  BY DEF Examine
<1> DEFINE on == contents[Target(j)]
           apply == worker[j].apply
           examined == {t \in 1..n : apply => t \in Only(worker[j])} \ seen
           found == {t \in examined : Chosen(j, t) # NoId}
           there == {t \in found : Present(Chosen(j, t), on)}
           missing == found \ there
           written == {t \in missing :
                         apply => \A s \in missing : s < t => Chosen(j, s) # Chosen(j, t)}
           Row(t) == <<t, Chosen(j, t)>>
           order == Kept([t \in Track |-> t], written)
           adds == [i \in DOMAIN order |-> Row(order[i])]
<1>2. worker[j].at = "match" /\ TypeOK /\ Typed(j) /\ JobInv(j)
  BY TypesOfOne DEF IInv, Examine
<1>3. Target(j) = dest[j]
  BY <1>2 DEF JobInv, TargetKnown, Target
<1>4. \A t \in Track : Chosen(j, t) \in Id \cup {NoId}
  <2>1. worker[j].pending \in [Track -> Id \cup {NoId}]
    BY <1>2 DEF Typed, WorkerRecord
  <2>2. manual \in [Track -> Id \cup {NoId}] /\ Match \in [Track -> Id \cup {NoId}]
    BY <1>2, TransfersAssumption DEF TypeOK
  <2>3. QED
    BY <2>1, <2>2 DEF Chosen
<1>5. NumTracks \in Nat /\ Track = 1..NumTracks
  BY TransfersAssumption DEF Track
<1>6. examined \in SUBSET Track
  BY <1>5
<1>7. \A t \in written : /\ t \in Track /\ Chosen(j, t) \in Id /\ Chosen(j, t) \notin on
                         /\ apply => worker[j].pending[t] # NoId /\ worker[j].pending[t] = Chosen(j, t)
  <2>1. ASSUME NEW t \in written
        PROVE  /\ t \in Track /\ Chosen(j, t) \in Id /\ Chosen(j, t) \notin on
               /\ apply => worker[j].pending[t] # NoId /\ worker[j].pending[t] = Chosen(j, t)
    <3>1. t \in Track /\ Chosen(j, t) # NoId /\ Chosen(j, t) \notin on
      BY <1>6 DEF Present
    <3>2. apply => t \in Only(worker[j])
      OBVIOUS
    <3>3. apply => worker[j].pending[t] # NoId /\ worker[j].pending[t] = Chosen(j, t)
      BY <3>2 DEF Only, Chosen
    <3>4. QED
      BY <1>4, <3>1, <3>3
  <2>2. QED
    BY <2>1
<1>8. there \in SUBSET Track /\ \A t \in there : Chosen(j, t) \in on
  BY <1>6 DEF Present
<1>9. \A t \in there : worker[j].pending[t] # NoId => worker[j].pending[t] \in contents[dest[j]]
  BY <1>3, <1>8 DEF Chosen
<1>10. examined \ found \in SUBSET Track
   BY <1>6
<1>11. PICK src \in Seq(Track) : src = [t \in Track |-> t] /\ Len(src) = NumTracks
   <2>1. [t \in Track |-> t] \in Seq(Track) /\ Len([t \in Track |-> t]) = NumTracks
     BY <1>5
   <2>2. QED
     BY <1>5, <2>1
<1>12. order = Kept(src, written)
   BY <1>11
<1> HIDE DEF examined, found, there, missing, written, order
<1>13. PICK o \in Seq(Track) :
         /\ o = order /\ Len(o) \in Nat /\ Len(o) <= NumTracks
         /\ \A i \in 1..Len(o) : o[i] \in written
         /\ \A i, k \in 1..Len(o) : o[i] = o[k] => i = k
   <2>1. order \in Seq(Track) /\ Len(order) \in Nat /\ Len(order) <= NumTracks
     BY <1>11, <1>12, KeptElements, KeptNoLonger
   <2>2. \A i \in 1..Len(order) : order[i] \in written
     BY <1>12, KeptElements
   <2>3. \A i, k \in 1..Len(src) : src[i] = src[k] => i = k
     BY <1>5, <1>11
   <2>4. \A i, k \in 1..Len(order) : order[i] = order[k] => i = k
     BY <1>12, <2>3, KeptDistinct
   <2>5. QED
     BY <2>1, <2>2, <2>4
<1>14. PICK rows \in Seq(Track \X Id) :
         /\ rows = adds /\ Len(rows) = Len(o)
         /\ \A i \in 1..Len(o) : rows[i] = <<o[i], Chosen(j, o[i])>>
   <2>1. DOMAIN o = 1..Len(o)
     BY <1>13
   <2>2. \A i \in 1..Len(o) : Row(o[i]) \in Track \X Id
     BY <1>7, <1>13
   <2>3. adds = [i \in 1..Len(o) |-> Row(o[i])]
     BY <1>13, <2>1
   <2>4. adds \in Seq(Track \X Id) /\ Len(adds) = Len(o)
     BY <1>13, <2>2, <2>3
   <2>5. \A i \in 1..Len(o) : adds[i] = Row(o[i])
     BY <2>3
   <2>6. QED
     BY <2>4, <2>5
<1>15. Matched(j, n, seen, whole) = [worker[j] EXCEPT
         !.at = IF adds = <<>> THEN "ended"
                ELSE IF BatchSize = 0 \/ whole THEN "send" ELSE "poll",
         !.adds = adds, !.whole = whole \/ BatchSize = 0,
         !.missed = examined \ found, !.applied = there,
         !.completed = (n = NumTracks)]
   BY DEF Matched, examined, found, there, missing, written, order
<1> HIDE DEF adds
<1>16. PICK w \in WorkerRecord :
         /\ worker' = [worker EXCEPT ![j] = w]
         /\ w.at \in {"ended", "poll", "send"}
         /\ w.apply = worker[j].apply /\ w.pending = worker[j].pending
         /\ w.base = worker[j].base /\ w.written = worker[j].written
         /\ w.adds = rows /\ w.applied = there
   <2>1. PICK r \in WorkerRecord : r = worker[j]
     BY <1>2 DEF Typed
   <2>2. PICK at \in {"ended", "poll", "send"} :
           at = IF adds = <<>> THEN "ended" ELSE IF BatchSize = 0 \/ whole THEN "send" ELSE "poll"
     OBVIOUS
   <2>3. PICK all \in BOOLEAN : all = (whole \/ BatchSize = 0)
     OBVIOUS
   <2>4. PICK through \in BOOLEAN : through = (n = NumTracks)
     OBVIOUS
   <2>5. PICK m \in SUBSET Track : m = examined \ found
     BY <1>10
   <2>6. PICK a \in SUBSET Track : a = there
     BY <1>8
   <2>7. PICK w \in WorkerRecord :
           w = [r EXCEPT !.at = at, !.adds = rows, !.whole = all, !.missed = m, !.applied = a,
                         !.completed = through]
     BY DEF WorkerRecord
   <2>8. /\ w.at = at /\ w.adds = rows /\ w.applied = a /\ w.apply = r.apply
         /\ w.pending = r.pending /\ w.base = r.base /\ w.written = r.written
     BY <2>7 DEF WorkerRecord
   <2>9. worker' = [worker EXCEPT ![j] = w]
     BY <1>1, <1>2, <1>14, <1>15, <2>1, <2>2, <2>3, <2>4, <2>5, <2>6, <2>7 DEF TypeOK
   <2>10. QED
      BY <2>1, <2>2, <2>6, <2>8, <2>9
<1>17. Examined(w, j)
   <2>1. ASSUME NEW i \in 1..Len(w.adds)
         PROVE  /\ w.adds[i][2] \notin contents[dest[j]]
                /\ w.apply => w.pending[w.adds[i][1]] # NoId /\ w.pending[w.adds[i][1]] = w.adds[i][2]
                /\ \A k \in 1..Len(w.adds) : w.adds[i][1] = w.adds[k][1] => i = k
     BY <1>3, <1>7, <1>13, <1>14, <1>16, <2>1
   <2>2. QED
     BY <1>9, <1>13, <1>14, <1>16, <2>1 DEF Examined
<1>18. QED
   BY <1>16, <1>17

\* The thread reads the destination and settles what to write.
LEMMA ExamineKeeps ==
  ASSUME IInv, NEW j \in Job, Examine(j)
  PROVE  IInv'
<1>1. worker[j].at = "match"
  BY DEF Examine
<1>2. /\ TypeOK /\ Typed(j) /\ JobInv(j) /\ status[j] = "running" /\ holder = j
      /\ \A i \in Job \ {j} : worker[i].at = "none"
  BY <1>1, Runs
<1>3. /\ UNCHANGED <<status, control, dest, applying, added, conflict, resolver, holder, queue,
                     manual, contents, copied, again, confirmed, created, since, aborted, raced,
                     requests, faults, restarts>>
      /\ Saved(j)
  BY DEF Examine, memory, lock, history, bounds
<1>4. PICK w \in WorkerRecord : worker' = [worker EXCEPT ![j] = w] /\ Examined(w, j)
  BY ExamineRows
<1>5. /\ worker' \in [Job -> WorkerRecord] /\ worker'[j] = w
      /\ \A i \in Job \ {j} : worker'[i] = worker[i]
  BY <1>2, <1>4 DEF TypeOK, WorkerRecord
<1>6. /\ hist' \in [Job -> Record] /\ hist'[j].added = added'[j]
      /\ \A i \in Job \ {j} : hist'[i] = hist[i]
  <2>1. Snapshot(j)' \in Record
    BY <1>2, <1>3 DEF Snapshot, Record, Typed
  <2>2. QED
    BY <1>2, <1>3, <2>1, Saves
<1>7. TypeOK'
  BY <1>2, <1>3, <1>5, <1>6 DEF TypeOK, WorkerRecord
<1>8. ASSUME NEW i \in Job, i # j PROVE JobInv(i)'
  <2>1. Untouched(i)
    BY <1>3, <1>5, <1>6, <1>8 DEF Untouched, InQueue
  <2>2. Grows
    BY <1>2, <1>3 DEF Grows, TypeOK
  <2>3. QED
    BY <2>1, <2>2, OthersKeep
<1>9. InSlot(j)' /\ TargetKnown(j)'
  BY <1>1, <1>2, <1>3, <1>4, <1>5 DEF InSlot, TargetKnown, JobInv, InQueue, Examined
<1>10. RowsAreNew(j)'
   <2>1. dest[j] \in Playlist /\ Len(w.adds) \in Nat
     BY <1>1, <1>2, <1>4 DEF JobInv, TargetKnown, Typed, Examined
   <2>2. ASSUME NEW i \in 1..Len(w.adds)
         PROVE  <<dest[j], w.adds[i][1], w.adds[i][2]>> \notin copied
     <3>1. PICK e : e = <<dest[j], w.adds[i][1], w.adds[i][2]>>
       OBVIOUS
     <3>2. e[1] = dest[j] /\ e[3] = w.adds[i][2]
       BY <3>1
     <3>3. e[3] \notin contents[e[1]]
       BY <1>4, <3>2 DEF Examined
     <3>4. QED
       BY <3>1, <3>3 DEF IInv, WrittenIsThere
   <2>3. QED
     BY <1>3, <1>4, <1>5, <2>2 DEF RowsAreNew, Examined
<1>11. RowsAreChoices(j)'
   BY <1>3, <1>4, <1>5 DEF RowsAreChoices, Examined
<1>12. ChoicesStand(j)'
   BY <1>1, <1>2, <1>3, <1>4, <1>5 DEF ChoicesStand, JobInv, Examined
<1>13. ResolverKnown(j)' /\ RecordFollows(j)' /\ AppliedInShape(j)'
   BY <1>2, <1>3 DEF ResolverKnown, RecordFollows, AppliedInShape, JobInv, Terminal
<1>14. CountKnown(j)'
   <2>1. NumTracks \in Nat /\ Len(w.adds) \in Nat /\ Len(w.adds) <= NumTracks
     BY <1>4, TransfersAssumption DEF Examined
   <2>2. StillToCome(j)' = 0 \/ StillToCome(j)' = Len(w.adds)
     BY <1>2, <1>3, <1>4, <1>5 DEF StillToCome, Examined
   <2>3. StillToCome(j)' \in Int /\ StillToCome(j)' <= StillToCome(j)
     BY <1>1, <2>1, <2>2 DEF StillToCome
   <2>4. requests' \in Int /\ requests <= requests' /\ confirmed'[j] = confirmed[j]
     BY <1>2, <1>3 DEF TypeOK
   <2>5. confirmed'[j] + StillToCome(j)' <= NumTracks * requests'
     BY <1>2, <2>3, <2>4, FitsStill DEF JobInv
   <2>6. CountKnown(j) /\ confirmed[j] \in Int
     BY <1>2, CountsAreInt DEF JobInv, Typed
   <2>7. QED
     BY <1>1, <1>2, <1>3, <1>4, <1>5, <1>6, <2>5, <2>6 DEF CountKnown, Examined
<1>15. FirstWrite(j)'
   BY <1>1, <1>2, <1>3, <1>4, <1>5 DEF FirstWrite, JobInv, Examined
<1>16. WrittenIsThere' /\ CopiedOnce' /\ QueueDistinct'
   BY <1>3 DEF IInv, WrittenIsThere, CopiedOnce, QueueDistinct
<1>17. QED
   BY <1>7, <1>8, <1>9, <1>10, <1>11, <1>12, <1>13, <1>14, <1>15, <1>16 DEF IInv, JobInv

-----------------------------------------------------------------------------
(* The invariant. *)

\* Nothing is submitted.
LEMMA InitHolds ==
  ASSUME Init
  PROVE  IInv
<1>1. /\ NoConflict \in Conflict /\ NoConflict.state = "no" /\ NoRecord \in Record
      /\ NoRecord.added = 0 /\ NoResolver \in ResolverRecord /\ NoResolver.at = "none"
  BY ZeroCounts DEF NoConflict, Conflict, NoRecord, Record, NoResolver, ResolverRecord
<1>2. TypeOK
  <2>1. /\ conflict \in [Job -> [Track -> Conflict]] /\ worker \in [Job -> WorkerRecord]
        /\ resolver \in [Job -> ResolverRecord] /\ hist \in [Job -> Record]
    BY <1>1, RestingFields DEF Init
  <2>2. /\ manual \in [Track -> Id \cup {NoId}] /\ contents \in [Playlist -> SUBSET Id]
        /\ copied \in SUBSET (Playlist \X Track \X Id) /\ queue \in Seq(Job \cup {Sync})
    BY DEF Init
  <2>3. requests \in 0..MaxRequests /\ faults \in 0..MaxFaults /\ restarts \in 0..MaxRestarts
    BY TransfersAssumption DEF Init
  <2>4. /\ status \in [Job -> {"new", "queued", "running", "paused", "gone"} \cup Terminal]
        /\ control \in [Job -> {"run", "pause", "stop"}]
        /\ dest \in [Job -> Playlist \cup {NoPlaylist}] /\ holder \in Job \cup {Sync, NoOne}
    BY DEF Init
  <2>5. /\ added \in [Job -> Counts] /\ confirmed \in [Job -> Counts]
        /\ created \in [Job -> 0..2] /\ since \in [Job -> 0..2] /\ raced \in SUBSET Job
    BY ZeroCounts DEF Init
  <2>6. /\ applying \in [Job -> BOOLEAN] /\ aborted \in [Job -> BOOLEAN]
        /\ again \in BOOLEAN
    BY DEF Init
  <2>7. QED
    BY <2>1, <2>2, <2>3, <2>4, <2>5, <2>6 DEF TypeOK, Conflict, WorkerRecord, ResolverRecord
<1>3. ASSUME NEW j \in Job PROVE JobInv(j)
  <2>1. /\ status[j] = "new" /\ control[j] = "run" /\ dest[j] = NoPlaylist /\ added[j] = 0
        /\ \A t \in Track : conflict[j][t].state = "no"
        /\ worker[j].at = "none" /\ ~worker[j].apply /\ resolver[j].at = "none"
        /\ hist[j].added = 0 /\ confirmed[j] = 0 /\ created[j] = 0 /\ since[j] = 0
    BY <1>1, RestingFields DEF Init
  <2>2. j # NoOne /\ ~InQueue(j) /\ holder = NoOne
    BY DEF Init, Job, NoOne, InQueue
  <2>3. InSlot(j)
    BY <2>1, <2>2 DEF InSlot
  <2>4. /\ TargetKnown(j) /\ RowsAreNew(j) /\ RowsAreChoices(j) /\ ChoicesStand(j)
        /\ ResolverKnown(j) /\ AppliedInShape(j) /\ FirstWrite(j)
    BY <2>1 DEF TargetKnown, RowsAreNew, RowsAreChoices, ChoicesStand, ResolverKnown,
                AppliedInShape, FirstWrite
  <2>5. RecordFollows(j)
    BY <2>1 DEF RecordFollows, Terminal
  <2>6. CountKnown(j)
    <3>1. StillToCome(j) = 0 /\ requests = 0 /\ NumTracks * 0 = 0
      BY <2>1, TransfersAssumption DEF StillToCome, Init
    <3>2. QED
      BY <2>1, <3>1 DEF CountKnown
  <2>7. QED
    BY <2>3, <2>4, <2>5, <2>6 DEF JobInv
<1>4. QueueDistinct /\ WrittenIsThere /\ CopiedOnce
  BY DEF Init, QueueDistinct, WrittenIsThere, CopiedOnce
<1>5. QED
  BY <1>2, <1>3, <1>4 DEF IInv

\* Every step.
LEMMA StepKeeps ==
  ASSUME IInv, [Next]_vars
  PROVE  IInv'
<1>1. CASE People
  BY <1>1, SubmitKeeps, PauseKeeps, ResumeKeeps, ApplyResolvedKeeps, StopKeeps, CheckResolveKeeps
     DEF People
<1>2. CASE Grant \/ SyncAsks \/ SyncEnds \/ Restart
  BY <1>2, GrantKeeps, SyncAsksKeeps, SyncEndsKeeps, RestartKeeps
<1>3. CASE \E j \in Job : Thread(j)
  BY <1>3, SetupKeeps, ExamineKeeps, PollKeeps, SendKeeps, ConcludeKeeps DEF Thread
<1>4. CASE \E j \in Job : Resolver(j) \/ Fail(j)
  BY <1>4, StoreChoiceKeeps, SaveChoiceKeeps, FailKeeps DEF Resolver
<1>5. CASE UNCHANGED vars
  <2>1. /\ UNCHANGED <<status, control, dest, applying, added, conflict, worker, resolver>>
        /\ UNCHANGED <<holder, queue, hist, manual, contents, copied, again, confirmed, created>>
        /\ UNCHANGED <<since, aborted, raced, requests, faults, restarts>>
    BY <1>5 DEF vars, memory, lock, history, bounds
  <2>2. TypeOK'
    BY <2>1 DEF IInv, TypeOK
  <2>3. ASSUME NEW j \in Job PROVE JobInv(j)'
    <3>1. Untouched(j)
      BY <2>1 DEF Untouched, InQueue
    <3>2. Grows
      BY <2>1 DEF Grows, IInv, TypeOK
    <3>3. QED
      BY <3>1, <3>2, OthersKeep
  <2>4. QueueDistinct' /\ WrittenIsThere' /\ CopiedOnce'
    BY <2>1 DEF IInv, QueueDistinct, WrittenIsThere, CopiedOnce
  <2>5. QED
    BY <2>2, <2>3, <2>4 DEF IInv
<1>6. QED
  BY <1>1, <1>2, <1>3, <1>4, <1>5 DEF Next

\* The invariant holds throughout.
LEMMA Invariant == Spec => []IInv
<1>1. Init => IInv
  BY InitHolds
<1>2. IInv /\ [Next]_vars => IInv'
  BY StepKeeps
<1>3. QED
  BY <1>1, <1>2, PTL DEF Spec

-----------------------------------------------------------------------------
(* The theorems. *)

\* Pausing, resuming, failing, restarting and applying matches start no second worker,
\* playlist or copy: services/transfers.py _schedule(), _execute() and pause(), resume(),
\* stop(), apply_resolved() in whatever order.
THEOREM NothingTwiceHolds == Spec => []NothingTwice
<1>1. IInv => NothingTwice
  BY DEF IInv, JobInv, InSlot, TargetKnown, NothingTwice, RunningHoldsSlot, OneDestination
<1>2. QED
  BY <1>1, Invariant, PTL

\* What people are told of a transfer is true: the count, the matches shown as applied, and
\* the durable record of a job that nothing works on.
THEOREM ReportsAreTrue == Spec => []ReportsHold
<1>1. ASSUME IInv PROVE ReportsHold
  <2>1. TypeOK /\ \A j \in Job : JobInv(j)
    BY <1>1 DEF IInv
  <2>2. AddedIsConfirmed
    BY <2>1 DEF AddedIsConfirmed, JobInv, CountKnown
  <2>3. AppliedIsThere
    BY <2>1 DEF AppliedIsThere, JobInv, AppliedInShape
  <2>4. HistoryFollows
    BY <2>1 DEF HistoryFollows, JobInv, RecordFollows
  <2>5. QED
    BY <2>1, <2>2, <2>3, <2>4 DEF ReportsHold
<1>2. QED
  BY <1>1, Invariant, PTL

\* Once a pause or a stop was accepted, at most the write that was under way is sent.
THEOREM HaltsInTime == Spec => []HaltsSoon
<1>1. IInv => HaltsSoon
  BY DEF IInv, JobInv, FirstWrite, HaltsSoon
<1>2. QED
  BY <1>1, Invariant, PTL
=============================================================================
