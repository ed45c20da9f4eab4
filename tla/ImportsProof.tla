---------------------------- MODULE ImportsProof ----------------------------
(***************************************************************************)
(* What holds of Imports for any list, catalog, matching and batch size,   *)
(* any number of workers, and any bounds.                                  *)
(***************************************************************************)
EXTENDS Imports, FiniteSetTheorems, TLAPS

-----------------------------------------------------------------------------
(* The inductive invariant.                                                *)

Active(w) == worker[w].at \notin {"free", "queued"}

\* One thread at a time: it has the lock, or it outlived the event loop and nobody else starts.
OneThread ==
  /\ \A w \in Worker : Active(w) => worker[w].orphan \/ holder = w
  /\ \A w \in Worker : worker[w].orphan => closing
  /\ closing => /\ holder = NoOne /\ queue = <<>>
                /\ \A w \in Worker : worker[w].at # "queued" /\ (Active(w) => worker[w].orphan)
  /\ \A v, w \in Worker : Active(v) /\ Active(w) => v = w

\* A playlist that was created is the job's, or about to be, or lost.
CreatedKnown ==
  /\ status = "none" => /\ dest = NoPlaylist /\ queue \in Seq({Sync})
                        /\ \A w \in Worker : worker[w].at = "free"
  /\ created <= 1 + forgotten
  /\ status # "deleted" /\ dest \in {Existing, NoPlaylist}
       /\ (\A w \in Worker : worker[w].at # "store") => created <= forgotten

\* A worker that has not read the playlist yet has nothing to write.
Begins(w) ==
  worker[w].at \in {"free", "queued", "open", "store", "read"} =>
    worker[w].i = 1 /\ worker[w].existing = {} /\ worker[w].pending = {} /\ worker[w].landed = {}

\* Which steps are taken by which kind of worker.
KindKnown(w) ==
  /\ worker[w].at \in {"store", "read", "add", "written"} => worker[w].kind = "create"
  /\ worker[w].at = "save" => worker[w].kind = "match" /\ worker[w].i \in Track
  /\ worker[w].kind = "match" => worker[w].pending = {}

\* The playlist a writing worker has, and that it was not chosen by people if it was created.
TargetKnown(w) ==
  /\ worker[w].at = "store" => worker[w].playlist # Existing /\ dest \in {Existing, NoPlaylist}
  /\ worker[w].at \in {"store", "read", "add", "written"} => worker[w].playlist \in Playlist
  /\ worker[w].at = "walk" /\ worker[w].kind = "create" => worker[w].playlist \in Playlist

\* What a writing worker believes is on the playlist is there, and all of it unless it is blind.
ExistingKnown(w) ==
  worker[w].at \in {"walk", "add", "written"} /\ worker[w].kind = "create" =>
    /\ worker[w].existing \cup worker[w].landed \subseteq contents[worker[w].playlist]
    /\ worker[w].blind \/ contents[worker[w].playlist] \subseteq worker[w].existing \cup worker[w].landed
    /\ worker[w].at # "written" => worker[w].landed = {}
    /\ \A t \in worker[w].pending : worker[w].read[t].id \in Id \ worker[w].existing

\* A writing worker has settled what it has passed, or gathered it for the next call.
SettlesRows(w) == worker[w].kind = "create" /\ status # "deleted" =>
  /\ worker[w].at \in {"store", "read", "walk", "add", "written"} => \A t \in Track :
       /\ t < worker[w].i => row[t].write # "pending" \/ t \in worker[w].pending
       /\ worker[w].read[t].write # "pending" => row[t].write # "pending"
  /\ worker[w].at \in {"check", "finish"} => \A t \in Track : row[t].write # "pending"

\* A choice a matching worker did not read was made while it was there.
ChoicesKnown(w) == worker[w].kind = "match" =>
  /\ worker[w].at \in {"walk", "save"} => \A t \in Track :
       row[t].decision \in Decided => worker[w].read[t].decision \in Decided \/ t \in contested
  /\ worker[w].at = "save" => worker[w].read[worker[w].i].decision \notin Decided
  /\ worker[w].found.decision \notin Decided

WorkerInv(w) ==
  /\ Begins(w) /\ KindKnown(w) /\ TargetKnown(w) /\ ExistingKnown(w)
  /\ SettlesRows(w) /\ ChoicesKnown(w)

IInv ==
  /\ TypeOK /\ OneThread /\ CreatedKnown /\ AddedOnce /\ AddedIsThere /\ DoneIsComplete
  /\ ChoicesKept /\ \A w \in Worker : WorkerInv(w)

-----------------------------------------------------------------------------
(* What steps have in common.                                              *)

\* Only w's thread moves, and it goes on.
OnlyMoves(w) ==
  /\ worker' \in [Worker -> WorkerRecord] /\ \A v \in Worker \ {w} : worker'[v] = worker[v]
  /\ worker'[w].kind = worker[w].kind /\ worker'[w].orphan = worker[w].orphan
  /\ Active(w) /\ Active(w)'
  /\ holder' = holder /\ queue' = queue /\ closing' = closing

\* What a worker may see of other people's steps.
Aside(w) ==
  /\ contents' = contents /\ row' \in [Track -> Row]
  /\ \A t \in Track : row'[t].write = row[t].write
  /\ \A t \in Track : row'[t].decision \in Decided => row[t].decision \in Decided \/ t \in contested'
  /\ contested \subseteq contested'
  /\ dest' = dest \/ dest' \in {Existing, NoPlaylist}
  /\ status' # "deleted" => status # "deleted"

\* A worker in the same place with the same knowledge, perhaps an orphan now.
SamePlace(w) ==
  /\ worker'[w].at = worker[w].at /\ worker'[w].kind = worker[w].kind
  /\ worker'[w].read = worker[w].read /\ worker'[w].i = worker[w].i
  /\ worker'[w].found = worker[w].found /\ worker'[w].playlist = worker[w].playlist
  /\ worker'[w].existing = worker[w].existing /\ worker'[w].blind = worker[w].blind
  /\ worker'[w].pending = worker[w].pending /\ worker'[w].landed = worker[w].landed

\* A worker that nobody has started is in its types, and has nothing to write.
LEMMA FreeIsTyped ==
  /\ Fresh \in Row /\ Free \in WorkerRecord
  /\ Free.at = "free" /\ Free.kind = "match" /\ Free.orphan = FALSE /\ Free.i = 1
  /\ Free.found = Fresh /\ Free.playlist = NoPlaylist /\ Free.existing = {}
  /\ Free.pending = {} /\ Free.landed = {}
<1>1. Fresh \in Row
  BY ImportsAssumption DEF Fresh, Row
<1>2. 1 \in 1..(NumTracks + 1) /\ NoPlaylist \in Playlist \cup {NoPlaylist}
  BY ImportsAssumption DEF NoPlaylist
<1>3. [t \in Track |-> Fresh] \in [Track -> Row]
  BY <1>1
<1> QED
  BY <1>1, <1>2, <1>3 DEF Free, WorkerRecord

\* A thread near its end keeps only its kind and whether it is an orphan.
LEMMA OverIsTyped ==
  ASSUME NEW me \in WorkerRecord,
         NEW at \in {"halt", "finish", "ended", "raised"}
  PROVE  /\ Over(me, at) \in WorkerRecord
         /\ Over(me, at).at = at /\ Over(me, at).kind = me.kind /\ Over(me, at).orphan = me.orphan
         /\ Over(me, at).pending = {} /\ Over(me, at).found = Fresh
<1>1. PICK f \in WorkerRecord : f = Free /\ f.pending = {} /\ f.found = Fresh
  BY FreeIsTyped
<1>2. PICK n \in WorkerRecord :
        n = [f EXCEPT !.at = at, !.kind = me.kind, !.orphan = me.orphan]
  BY DEF WorkerRecord
<1>3. n.at = at /\ n.kind = me.kind /\ n.orphan = me.orphan /\ n.pending = {} /\ n.found = Fresh
  BY <1>1, <1>2 DEF WorkerRecord
<1>4. Over(me, at) = n
  BY <1>1, <1>2 DEF Over
<1> QED
  BY <1>3, <1>4

\* Other people's steps leave a worker's invariant alone.
LEMMA AsideKeeps ==
  ASSUME TypeOK, NEW w \in Worker, WorkerInv(w), SamePlace(w), Aside(w)
  PROVE  WorkerInv(w)'
<1>1. Begins(w)'
  BY DEF WorkerInv, Begins, SamePlace
<1>2. KindKnown(w)'
  BY DEF WorkerInv, KindKnown, SamePlace, Track
<1>3. TargetKnown(w)'
  BY DEF WorkerInv, TargetKnown, SamePlace, Aside, Playlist
<1>4. ExistingKnown(w)'
  BY DEF WorkerInv, ExistingKnown, SamePlace, Aside
<1>5. SettlesRows(w)'
  BY DEF WorkerInv, SettlesRows, SamePlace, Aside
<1>6. ChoicesKnown(w)'
  BY DEF WorkerInv, ChoicesKnown, SamePlace, Aside
<1> QED
  BY <1>1, <1>2, <1>3, <1>4, <1>5, <1>6 DEF WorkerInv

\* A worker that is not in its thread knows nothing that a step could make wrong.
LEMMA OutsideKeeps ==
  ASSUME NEW w \in Worker, WorkerInv(w), ~Active(w), worker'[w] = worker[w]
  PROVE  WorkerInv(w)'
<1>1. Begins(w)'
  BY DEF WorkerInv, Begins
<1>2. KindKnown(w)'
  BY DEF WorkerInv, KindKnown, Active
<1>3. TargetKnown(w)' /\ ExistingKnown(w)' /\ SettlesRows(w)'
  BY DEF TargetKnown, ExistingKnown, SettlesRows, Active
<1>4. ChoicesKnown(w)'
  BY DEF WorkerInv, ChoicesKnown, Active
<1> QED
  BY <1>1, <1>2, <1>3, <1>4 DEF WorkerInv

\* Nor does a worker nobody has started.
LEMMA FreeWorker == ASSUME NEW w \in Worker, worker'[w] = Free PROVE WorkerInv(w)'
<1>1. /\ worker'[w].at = "free" /\ worker'[w].kind = "match" /\ worker'[w].i = 1
      /\ worker'[w].existing = {} /\ worker'[w].pending = {} /\ worker'[w].landed = {}
      /\ worker'[w].found.decision \notin Decided
  BY FreeIsTyped DEF Fresh, Decided
<1>2. Begins(w)' /\ KindKnown(w)' /\ TargetKnown(w)' /\ ExistingKnown(w)' /\ SettlesRows(w)'
  BY <1>1 DEF Begins, KindKnown, TargetKnown, ExistingKnown, SettlesRows
<1>3. ChoicesKnown(w)'
  BY <1>1 DEF ChoicesKnown
<1> QED
  BY <1>2, <1>3 DEF WorkerInv

\* A step of one thread changes nothing for the others.
LEMMA OnlyMovesKeeps ==
  ASSUME IInv, NEW w \in Worker, OnlyMoves(w)
  PROVE  /\ OneThread' /\ status # "none"
         /\ \A v \in Worker \ {w} : ~Active(v) /\ WorkerInv(v)' /\ worker'[v] = worker[v]
<1>1. \A v \in Worker \ {w} : ~Active(v) /\ worker'[v] = worker[v]
  BY DEF IInv, OneThread, OnlyMoves
<1>2. \A v \in Worker \ {w} : WorkerInv(v)'
  BY <1>1, OutsideKeeps DEF IInv
<1>3. status # "none"
  BY DEF IInv, CreatedKnown, OnlyMoves, Active
<1>4. OneThread'
  <2>1. \A v \in Worker : v # w => ~Active(v)'
    BY <1>1 DEF Active
  <2>2. \A v \in Worker : worker'[v].orphan = worker[v].orphan
    BY <1>1 DEF OnlyMoves
  <2>3. closing' => \A v \in Worker : worker'[v].at # "queued" /\ (Active(v)' => worker'[v].orphan)
    <3> SUFFICES ASSUME closing', NEW v \in Worker
                 PROVE  worker'[v].at # "queued" /\ (Active(v)' => worker'[v].orphan)
      OBVIOUS
    <3>1. CASE v = w
      BY <3>1, <2>2 DEF IInv, OneThread, OnlyMoves, Active
    <3>2. CASE v # w
      BY <3>2, <1>1, <2>1 DEF IInv, OneThread, OnlyMoves
    <3> QED
      BY <3>1, <3>2
  <2>4. \A v \in Worker : Active(v)' => worker'[v].orphan \/ holder' = v
    BY <2>1, <2>2 DEF IInv, OneThread, OnlyMoves
  <2>5. \A v \in Worker : worker'[v].orphan => closing'
    BY <2>2 DEF IInv, OneThread, OnlyMoves
  <2>6. closing' => holder' = NoOne /\ queue' = <<>>
    BY DEF IInv, OneThread, OnlyMoves
  <2>7. \A u, v \in Worker : Active(u)' /\ Active(v)' => u = v
    BY <2>1
  <2> QED
    BY <2>3, <2>4, <2>5, <2>6, <2>7 DEF OneThread
<1> QED
  BY <1>1, <1>2, <1>3, <1>4

-----------------------------------------------------------------------------
(* What people ask for.                                                    *)

\* While no worker moves, their invariants and the lock's stay.
LEMMA NobodyMoves ==
  ASSUME IInv, worker' = worker, UNCHANGED <<lock, closing>>, \A w \in Worker : Aside(w)
  PROVE  OneThread' /\ \A w \in Worker : WorkerInv(w)'
<1>1. OneThread'
  BY DEF IInv, OneThread, Active, lock
<1>2. \A w \in Worker : SamePlace(w)
  BY DEF SamePlace
<1> QED
  BY <1>1, <1>2, AsideKeeps DEF IInv

\* A new task waits for the lock or has it; the worker it gets was free.
LEMMA SpawnKeeps ==
  ASSUME IInv, ~closing, UNCHANGED closing, NEW kind \in {"match", "create"}, Spawn(kind),
         \A w \in Worker : Aside(w)
  PROVE  /\ worker' \in [Worker -> WorkerRecord] /\ current' \in Worker
         /\ holder' \in Worker \cup {Sync, NoOne} /\ queue' \in Seq(Worker \cup {Sync})
         /\ OneThread' /\ \A w \in Worker : WorkerInv(w)'
         /\ \A w \in Worker : worker'[w].at = "store" <=> worker[w].at = "store"
         /\ \A w \in Worker : worker'[w].at = "free" => worker[w].at = "free"
<1>1. PICK w \in Worker :
        /\ worker[w].at = "free" /\ Slot!Ask(w) /\ current' = w
        /\ worker' = [worker EXCEPT ![w] =
             [Free EXCEPT !.kind = kind, !.at = IF holder' = w THEN "open" ELSE "queued"]]
  BY DEF Spawn
<1>2. PICK f \in WorkerRecord :
        f = Free /\ f.orphan = FALSE /\ f.i = 1 /\ f.existing = {} /\ f.pending = {} /\ f.landed = {}
        /\ f.found = Fresh
  BY FreeIsTyped
<1>3. PICK at \in {"open", "queued"} : at = IF holder' = w THEN "open" ELSE "queued"
  BY SMT
<1>4. PICK n \in WorkerRecord : n = [f EXCEPT !.kind = kind, !.at = at]
  BY DEF WorkerRecord
<1>5. /\ n.at = at /\ n.kind = kind /\ n.orphan = FALSE /\ n.i = 1 /\ n.existing = {}
      /\ n.pending = {} /\ n.landed = {} /\ n.found = Fresh
  BY <1>2, <1>4 DEF WorkerRecord
<1>6. worker' = [worker EXCEPT ![w] = n]
  BY <1>1, <1>2, <1>3, <1>4
<1>7. worker \in [Worker -> WorkerRecord]
  BY DEF IInv, TypeOK
<1>8. worker' \in [Worker -> WorkerRecord] /\ worker'[w] = n
      /\ \A v \in Worker : v # w => worker'[v] = worker[v]
  BY <1>6, <1>7
<1>9. /\ holder' \in Worker \cup {Sync, NoOne} /\ queue' \in Seq(Worker \cup {Sync})
      /\ holder' = w \/ holder' = holder
      /\ holder' = w => holder = NoOne \/ holder = w
  <2>1. queue \in Seq(Worker \cup {Sync}) /\ holder \in Worker \cup {Sync, NoOne}
    BY DEF IInv, TypeOK
  <2>2. CASE holder = NoOne /\ queue = <<>>
    BY <1>1, <2>1, <2>2 DEF Slot!Ask
  <2>3. CASE ~(holder = NoOne /\ queue = <<>>)
    BY <1>1, <2>1, <2>3 DEF Slot!Ask
  <2> QED
    BY <2>2, <2>3
<1>10. \A v \in Worker : Active(v) => holder = v
  BY DEF IInv, OneThread
<1>11. NoOne \notin Worker
  BY DEF NoOne, Worker
<1>12. \A v \in Worker : v # w => (Active(v)' <=> Active(v))
  BY <1>8 DEF Active
<1>13. Active(w)' <=> holder' = w
  BY <1>3, <1>5, <1>8 DEF Active
<1>14. holder' = w => \A v \in Worker : v # w => ~Active(v)
  BY <1>9, <1>10, <1>11, <1>1 DEF Slot!Ask
<1>15. OneThread'
  <2>1. \A v \in Worker : Active(v)' => holder' = v
    BY <1>8, <1>9, <1>10, <1>12, <1>13, <1>14
  <2>2. \A v \in Worker : ~worker'[v].orphan
    BY <1>5, <1>8 DEF IInv, OneThread
  <2> QED
    BY <2>1, <2>2 DEF OneThread
<1>16. \A v \in Worker : WorkerInv(v)'
  <2> SUFFICES ASSUME NEW v \in Worker PROVE WorkerInv(v)'
    OBVIOUS
  <2>1. CASE v # w
    BY <2>1, <1>8, AsideKeeps DEF IInv, SamePlace
  <2>2. CASE v = w
    <3>1. Begins(w)' /\ KindKnown(w)' /\ TargetKnown(w)' /\ ExistingKnown(w)' /\ SettlesRows(w)'
      BY <1>3, <1>5, <1>8 DEF Begins, KindKnown, TargetKnown, ExistingKnown, SettlesRows
    <3>2. ChoicesKnown(w)'
      BY <1>3, <1>5, <1>8 DEF ChoicesKnown, Fresh, Decided
    <3> QED
      BY <2>2, <3>1, <3>2 DEF WorkerInv
  <2> QED
    BY <2>1, <2>2
<1> QED
  BY <1>1, <1>3, <1>5, <1>8, <1>9, <1>15, <1>16

\* Nothing on the provider changes, and what the rows say of it.
LEMMA QuietKeeps ==
  ASSUME IInv, UNCHANGED <<contents, created, forgotten, again, put>>,
         \A t \in Track : row'[t].write = row[t].write,
         status' # "deleted" => status # "deleted",
         dest' = dest \/ (status = "none" /\ dest' \in {Existing, NoPlaylist}),
         \A w \in Worker : worker'[w].at = "store" <=> worker[w].at = "store",
         status' = "none" => /\ status = "none" /\ dest' = dest /\ queue' \in Seq({Sync})
                             /\ \A w \in Worker : worker[w].at = "free" => worker'[w].at = "free"
  PROVE  CreatedKnown' /\ AddedOnce' /\ AddedIsThere'
<1>1. CreatedKnown'
  BY DEF IInv, CreatedKnown
<1>2. AddedOnce' /\ AddedIsThere'
  BY DEF IInv, AddedOnce, AddedIsThere
<1> QED
  BY <1>1, <1>2

\* A step of somebody else leaves the rows as they are, for a worker to see.
LEMMA SameRowsAside ==
  ASSUME IInv, UNCHANGED <<row, contents>>, contested \subseteq contested',
         dest' = dest \/ dest' \in {Existing, NoPlaylist},
         status' # "deleted" => status # "deleted"
  PROVE  \A w \in Worker : Aside(w)
BY DEF Aside, IInv, TypeOK

\* There is a playlist people may choose.
LEMMA ExistingIsThere == Existing \in Playlist
BY ImportsAssumption DEF Existing, Playlist

\* Requests are counted up to their bound.
LEMMA AskedIsTyped ==
  ASSUME TypeOK, Asked
  PROVE  requests' \in 0..MaxRequests /\ faults' \in 0..MaxFaults /\ ~closing
BY ImportsAssumption DEF TypeOK, Asked

\* The start of a matching run.
LEMMA StartKeeps ==
  ASSUME IInv, Asked, StartMatching, status \in {"none", "ready", "paused", "failed"},
         UNCHANGED <<row, deleting, closing, provider, history>>,
         dest' = dest \/ (status = "none" /\ dest' \in {Existing, NoPlaylist}),
         append' \in BOOLEAN
  PROVE  IInv'
<1>1. \A w \in Worker : Aside(w)
  BY SameRowsAside DEF StartMatching, history, provider
<1>2. /\ worker' \in [Worker -> WorkerRecord] /\ current' \in Worker
      /\ holder' \in Worker \cup {Sync, NoOne} /\ queue' \in Seq(Worker \cup {Sync})
      /\ OneThread' /\ \A w \in Worker : WorkerInv(w)'
      /\ \A w \in Worker : worker'[w].at = "store" <=> worker[w].at = "store"
  BY <1>1, SpawnKeeps DEF StartMatching, Asked
<1>3. CreatedKnown' /\ AddedOnce' /\ AddedIsThere'
  BY <1>2, QuietKeeps DEF StartMatching, provider, history
<1>4. TypeOK'
  BY <1>2, AskedIsTyped, ExistingIsThere DEF IInv, TypeOK, StartMatching, history, provider, Busy
<1>5. DoneIsComplete' /\ ChoicesKept'
  BY DEF IInv, DoneIsComplete, ChoicesKept, StartMatching, history
<1> QED
  BY <1>2, <1>3, <1>4, <1>5 DEF IInv

\* A writing run starts, or there is nothing left to write.
LEMMA CreateKeeps ==
  ASSUME IInv, Asked, CreatePlaylist,
         UNCHANGED <<append, dest, row, deleting, closing, provider,
                     forgotten, again, put, contested, overruled, late>>
  PROVE  IInv'
<1>1. CASE \E t \in Track : Writable(row[t])
  <2>1. status' = "creating" /\ phase' = "create" /\ control' = "run" /\ Spawn("create")
        /\ UNCHANGED touched /\ status \in {"ready", "paused", "failed"}
    BY <1>1 DEF CreatePlaylist
  <2>2. \A w \in Worker : Aside(w)
    BY <2>1, SameRowsAside DEF provider
  <2>3. /\ worker' \in [Worker -> WorkerRecord] /\ current' \in Worker
        /\ holder' \in Worker \cup {Sync, NoOne} /\ queue' \in Seq(Worker \cup {Sync})
        /\ OneThread' /\ \A w \in Worker : WorkerInv(w)'
        /\ \A w \in Worker : worker'[w].at = "store" <=> worker[w].at = "store"
    BY <2>1, <2>2, SpawnKeeps DEF Asked
  <2>4. CreatedKnown' /\ AddedOnce' /\ AddedIsThere'
    BY <2>1, <2>3, QuietKeeps DEF provider
  <2>5. TypeOK'
    BY <2>1, <2>3, AskedIsTyped DEF IInv, TypeOK, provider, Busy
  <2>6. DoneIsComplete' /\ ChoicesKept'
    BY <2>1 DEF IInv, DoneIsComplete, ChoicesKept
  <2> QED
    BY <2>3, <2>4, <2>5, <2>6 DEF IInv
<1>2. CASE ~\E t \in Track : Writable(row[t])
  <2>1. /\ status' = "done" /\ touched' = {} /\ UNCHANGED <<phase, control, current, worker, lock>>
        /\ status \in {"ready", "paused", "failed"}
    BY <1>2 DEF CreatePlaylist
  <2>2. \A w \in Worker : Aside(w)
    BY <2>1, SameRowsAside DEF provider
  <2>3. OneThread' /\ \A w \in Worker : WorkerInv(w)'
    BY <2>1, <2>2, NobodyMoves
  <2>4. CreatedKnown' /\ AddedOnce' /\ AddedIsThere'
    BY <2>1, QuietKeeps DEF provider
  <2>5. TypeOK'
    BY <2>1, AskedIsTyped DEF IInv, TypeOK, provider, lock
  <2>6. DoneIsComplete' /\ ChoicesKept'
    BY <1>2, <2>1 DEF IInv, DoneIsComplete, ChoicesKept
  <2> QED
    BY <2>3, <2>4, <2>5, <2>6 DEF IInv
<1> QED
  BY <1>1, <1>2

\* People submit an import.
LEMMA SubmitKeeps == ASSUME IInv, Submit PROVE IInv'
<1>1. /\ Asked /\ status = "none" /\ append' \in BOOLEAN /\ dest' \in {Existing, NoPlaylist}
      /\ UNCHANGED <<row, deleting, closing, provider, history>>
  BY DEF Submit
<1>2. CASE StartMatching
  BY <1>1, <1>2, StartKeeps
<1>3. CASE status' = "ready" /\ UNCHANGED <<phase, control, current, worker, lock>>
  <2>1. \A w \in Worker : Aside(w)
    BY <1>1, <1>3, SameRowsAside DEF provider, history
  <2>2. OneThread' /\ \A w \in Worker : WorkerInv(w)'
    BY <1>1, <1>3, <2>1, NobodyMoves
  <2>3. CreatedKnown' /\ AddedOnce' /\ AddedIsThere'
    BY <1>1, <1>3, QuietKeeps DEF provider, history
  <2>4. TypeOK'
    BY <1>1, <1>3, AskedIsTyped, ExistingIsThere DEF IInv, TypeOK, provider, lock, history
  <2>5. DoneIsComplete' /\ ChoicesKept'
    BY <1>1, <1>3 DEF IInv, DoneIsComplete, ChoicesKept, history
  <2> QED
    BY <2>2, <2>3, <2>4, <2>5 DEF IInv
<1> QED
  BY <1>2, <1>3 DEF Submit

\* Matching again, resuming, creating.
LEMMA AgainKeeps == ASSUME IInv, MatchAgain \/ Create \/ Resume PROVE IInv'
<1>1. CASE MatchAgain
  BY <1>1, StartKeeps DEF MatchAgain, IInv, TypeOK
<1>2. CASE Create
  BY <1>2, CreateKeeps DEF Create
<1>3. CASE Resume
  <2>1. CASE CreatePlaylist
    BY <1>3, <2>1, CreateKeeps DEF Resume
  <2>2. CASE StartMatching /\ UNCHANGED touched
    BY <1>3, <2>2, StartKeeps DEF Resume, history, IInv, TypeOK
  <2> QED
    BY <1>3, <2>1, <2>2 DEF Resume
<1> QED
  BY <1>1, <1>2, <1>3

\* A button that only sets the control entry and the status.
LEMMA ButtonKeeps == ASSUME IInv, Pause \/ Cancel \/ Delete \/ DeleteRows PROVE IInv'
<1>1. /\ UNCHANGED <<append, dest, row, closing, worker, lock, provider, history, current>>
      /\ status' # "none" /\ (status' # "done" \/ status' = status)
      /\ status' # "deleted" => status # "deleted"
  <2>1. CASE Pause
    BY <2>1 DEF Pause, Busy
  <2>2. CASE Cancel
    BY <2>2 DEF Cancel
  <2>3. CASE Delete
    BY <2>3 DEF Delete
  <2>4. CASE DeleteRows
    BY <2>4 DEF DeleteRows
  <2> QED
    BY <2>1, <2>2, <2>3, <2>4
<1>2. \A w \in Worker : Aside(w)
  BY <1>1, SameRowsAside DEF provider, history
<1>3. OneThread' /\ \A w \in Worker : WorkerInv(w)'
  BY <1>1, <1>2, NobodyMoves
<1>4. CreatedKnown' /\ AddedOnce' /\ AddedIsThere'
  BY <1>1, QuietKeeps DEF provider, history
<1>5. TypeOK'
  <2>1. /\ status' \in {"none", "ready", "paused", "done", "failed", "cancelled", "deleted"} \cup Busy
        /\ control' \in {"absent", "run", "pause", "cancel"} /\ deleting' \in BOOLEAN
        /\ phase' \in {"none", "match", "create"}
        /\ requests' \in 0..MaxRequests /\ faults' \in 0..MaxFaults
    <3>1. CASE Pause
      BY <3>1, AskedIsTyped DEF Pause, IInv, TypeOK, PhaseOf
    <3>2. CASE Cancel
      BY <3>2, AskedIsTyped DEF Cancel, IInv, TypeOK
    <3>3. CASE Delete
      BY <3>3, AskedIsTyped DEF Delete, IInv, TypeOK
    <3>4. CASE DeleteRows
      BY <3>4 DEF DeleteRows, IInv, TypeOK, bounds
    <3> QED
      BY <3>1, <3>2, <3>3, <3>4
  <2> QED
    BY <1>1, <2>1 DEF IInv, TypeOK, provider, lock, history
<1>6. DoneIsComplete' /\ ChoicesKept'
  BY <1>1 DEF IInv, DoneIsComplete, ChoicesKept, history
<1> QED
  BY <1>3, <1>4, <1>5, <1>6 DEF IInv

\* People decide on a track; a worker that is matching has not read it.
LEMMA DecideKeeps == ASSUME IInv, NEW t \in Track, Decide(t) PROVE IInv'
<1>1. PICK r \in [decision : {"selected"}, id : Id]
              \cup [decision : {"skipped", "unmatched"}, id : {NoId}]
              \cup [decision : {"auto"}, id : Id \cup {NoId}] :
         row' = [row EXCEPT ![t].decision = r.decision, ![t].id = r.id]
  BY DEF Decide
<1>2. PICK decision \in {"auto", "unmatched"} \cup Decided, id \in Id \cup {NoId} :
        decision = r.decision /\ id = r.id
  BY DEF Decided
<1>3. PICK old \in Row : old = row[t]
  BY DEF IInv, TypeOK
<1>4. PICK n \in Row : n = [old EXCEPT !.decision = decision, !.id = id]
  BY DEF Row
<1>5. n.write = old.write
  BY <1>4 DEF Row
<1>6. row' = [row EXCEPT ![t] = n]
  BY <1>1, <1>2, <1>3, <1>4 DEF IInv, TypeOK
<1>7. /\ row' \in [Track -> Row] /\ row'[t] = n /\ \A s \in Track : s # t => row'[s] = row[s]
  BY <1>6 DEF IInv, TypeOK
<1>8. \A s \in Track : row'[s].write = row[s].write
  BY <1>3, <1>5, <1>7
<1>9. /\ touched' = touched \cup {t} /\ contested \subseteq contested' /\ contested' \subseteq Track
      /\ UNCHANGED <<status, phase, append, dest, service, worker, lock, provider,
                     forgotten, again, put, overruled, late>>
      /\ Asked /\ status \notin {"none", "deleted"}
  BY DEF Decide, IInv, TypeOK
<1>10. \A w \in Worker : worker[w].at \in {"walk", "save"} /\ worker[w].kind = "match" => t \in contested'
  BY DEF Decide, Live
<1>11. OneThread'
  BY <1>9 DEF IInv, OneThread, Active, lock, service
<1>12. \A w \in Worker : WorkerInv(w)'
  <2> SUFFICES ASSUME NEW w \in Worker PROVE WorkerInv(w)'
    OBVIOUS
  <2>1. CASE worker[w].at \in {"walk", "save"} /\ worker[w].kind = "match"
    <3>1. Aside(w)
      BY <1>7, <1>8, <1>9, <1>10, <2>1 DEF Aside, provider
    <3> QED
      BY <3>1, <1>9, AsideKeeps DEF SamePlace, IInv
  <2>2. CASE ~(worker[w].at \in {"walk", "save"} /\ worker[w].kind = "match")
    <3>1. Begins(w)' /\ KindKnown(w)' /\ TargetKnown(w)' /\ ExistingKnown(w)'
      BY <1>9 DEF IInv, WorkerInv, Begins, KindKnown, TargetKnown, ExistingKnown, provider
    <3>2. SettlesRows(w)'
      BY <1>8, <1>9 DEF IInv, WorkerInv, SettlesRows
    <3>3. ChoicesKnown(w)'
      BY <1>9, <2>2 DEF IInv, WorkerInv, ChoicesKnown
    <3> QED
      BY <3>1, <3>2, <3>3 DEF WorkerInv
  <2> QED
    BY <2>1, <2>2
<1>13. CreatedKnown' /\ AddedOnce' /\ AddedIsThere'
  BY <1>8, <1>9, QuietKeeps DEF provider
<1>14. TypeOK'
  BY <1>7, <1>9, AskedIsTyped DEF IInv, TypeOK, service, provider, lock
<1>15. DoneIsComplete' /\ ChoicesKept'
  BY <1>7, <1>9 DEF IInv, DoneIsComplete, ChoicesKept
<1> QED
  BY <1>11, <1>12, <1>13, <1>14, <1>15 DEF IInv

\* People choose another destination: a playlist that was created for the import is lost.
LEMMA RetargetKeeps == ASSUME IInv, Retarget PROVE IInv'
<1>1. /\ dest' \in {Existing, NoPlaylist} /\ Asked /\ status \notin {"none", "deleted"}
      /\ forgotten' = IF dest \in {Existing, NoPlaylist} THEN forgotten ELSE forgotten + 1
      /\ UNCHANGED <<status, phase, append, row, service, worker, lock, provider,
                     again, put, touched, contested, overruled, late>>
  BY DEF Retarget
<1>2. \A w \in Worker : Aside(w)
  BY <1>1, SameRowsAside DEF provider
<1>3. OneThread' /\ \A w \in Worker : WorkerInv(w)'
  BY <1>1, <1>2, NobodyMoves DEF service
<1>4. forgotten \in Nat /\ created \in Nat
  BY ImportsAssumption DEF IInv, TypeOK
<1>5. CreatedKnown'
  <2>1. CASE dest \in {Existing, NoPlaylist}
    BY <1>1, <2>1 DEF IInv, CreatedKnown, provider
  <2>2. CASE dest \notin {Existing, NoPlaylist}
    BY <1>1, <1>4, <2>2 DEF IInv, CreatedKnown, provider
  <2> QED
    BY <2>1, <2>2
<1>6. AddedOnce' /\ AddedIsThere' /\ DoneIsComplete' /\ ChoicesKept'
  BY <1>1 DEF IInv, AddedOnce, AddedIsThere, DoneIsComplete, ChoicesKept, provider
<1>7. TypeOK'
  BY <1>1, <1>4, AskedIsTyped, ExistingIsThere DEF IInv, TypeOK, service, provider, lock
<1> QED
  BY <1>3, <1>5, <1>6, <1>7 DEF IInv

-----------------------------------------------------------------------------
(* The lock, the event loop and the process.                               *)

\* The lock is given to a worker that waits for it, or to the other client.
LEMMA GrantKeeps == ASSUME IInv, Grant PROVE IInv'
<1>1. /\ ~closing /\ holder = NoOne /\ queue # <<>>
      /\ holder' = Head(queue) /\ queue' = Tail(queue)
      /\ worker' = IF holder' = Sync THEN worker ELSE [worker EXCEPT ![holder'].at = "open"]
      /\ UNCHANGED <<rows, service, provider, history, bounds>>
  BY DEF Grant, Slot!Grant
<1>2. holder' \in Worker \cup {Sync} /\ queue' \in Seq(Worker \cup {Sync})
  BY <1>1 DEF IInv, TypeOK
<1>3. \A w \in Worker : Aside(w)
  BY <1>1, SameRowsAside DEF rows, provider, history
<1>4. \A w \in Worker : ~Active(w) /\ ~worker[w].orphan
  BY <1>1 DEF IInv, OneThread, NoOne, Worker
<1>5. \A w \in Worker : /\ worker' \in [Worker -> WorkerRecord]
                        /\ holder' # w => worker'[w] = worker[w]
                        /\ holder' = w => /\ worker'[w].at = "open" /\ worker'[w].orphan = worker[w].orphan
                                          /\ WorkerInv(w)'
  <2> SUFFICES ASSUME NEW w \in Worker
               PROVE  /\ worker' \in [Worker -> WorkerRecord]
                      /\ holder' # w => worker'[w] = worker[w]
                      /\ holder' = w => /\ worker'[w].at = "open" /\ worker'[w].orphan = worker[w].orphan
                                        /\ WorkerInv(w)'
    OBVIOUS
  <2>1. CASE holder' = Sync
    BY <1>1, <2>1 DEF IInv, TypeOK, Sync, Worker
  <2>2. CASE holder' # Sync
    <3>1. PICK h \in Worker : h = holder'
      BY <1>2, <2>2
    <3>2. PICK me \in WorkerRecord : me = worker[h]
      BY DEF IInv, TypeOK
    <3>3. PICK n \in WorkerRecord : n = [me EXCEPT !.at = "open"]
      BY DEF WorkerRecord
    <3>4. /\ n.at = "open" /\ n.kind = me.kind /\ n.orphan = me.orphan /\ n.i = me.i
          /\ n.existing = me.existing /\ n.pending = me.pending /\ n.landed = me.landed
          /\ n.found = me.found
      BY <3>3 DEF WorkerRecord
    <3>5. worker' = [worker EXCEPT ![h] = n]
      BY <1>1, <2>2, <3>1, <3>2, <3>3 DEF IInv, TypeOK
    <3>6. /\ worker' \in [Worker -> WorkerRecord] /\ worker'[h] = n
          /\ \A v \in Worker : v # h => worker'[v] = worker[v]
      BY <3>5 DEF IInv, TypeOK
    <3>7. WorkerInv(h)'
      <4>1. Begins(h)' /\ KindKnown(h)'
        BY <1>4, <3>2, <3>4, <3>6 DEF IInv, WorkerInv, Begins, KindKnown, Active
      <4>2. TargetKnown(h)' /\ ExistingKnown(h)' /\ SettlesRows(h)'
        BY <3>4, <3>6 DEF TargetKnown, ExistingKnown, SettlesRows
      <4>3. ChoicesKnown(h)'
        BY <3>2, <3>4, <3>6 DEF IInv, WorkerInv, ChoicesKnown
      <4> QED
        BY <4>1, <4>2, <4>3 DEF WorkerInv
    <3> QED
      BY <3>1, <3>2, <3>4, <3>6, <3>7
  <2> QED
    BY <2>1, <2>2
<1>6. \A w \in Worker : WorkerInv(w)'
  BY <1>4, <1>5, OutsideKeeps DEF IInv
<1>7. OneThread'
  <2>1. ~closing'
    BY <1>1 DEF service
  <2>2. \A w \in Worker : Active(w)' => holder' = w
    BY <1>4, <1>5 DEF Active
  <2>3. \A w \in Worker : ~worker'[w].orphan
    BY <1>4, <1>5
  <2> QED
    BY <2>1, <2>2, <2>3 DEF OneThread
<1>8. worker' \in [Worker -> WorkerRecord]
  BY <1>1, <1>5 DEF IInv, TypeOK
<1>9. CreatedKnown' /\ AddedOnce' /\ AddedIsThere'
  <2>1. \A w \in Worker : worker'[w].at = "store" <=> worker[w].at = "store"
    BY <1>4, <1>5 DEF Active
  <2>2. status = "none" => queue' \in Seq({Sync}) /\ \A w \in Worker : worker'[w].at = "free"
    <3>1. SUFFICES ASSUME status = "none"
                   PROVE  queue' \in Seq({Sync}) /\ \A w \in Worker : worker'[w].at = "free"
      OBVIOUS
    <3>2. queue \in Seq({Sync}) /\ \A w \in Worker : worker[w].at = "free"
      BY <3>1 DEF IInv, CreatedKnown
    <3>3. holder' = Sync /\ queue' \in Seq({Sync})
      BY <1>1, <3>2
    <3> QED
      BY <1>5, <3>2, <3>3 DEF Sync, Worker
  <2> QED
    BY <1>1, <2>1, <2>2, QuietKeeps DEF provider, history, rows
<1>10. TypeOK'
  BY <1>1, <1>2, <1>8 DEF IInv, TypeOK, rows, service, provider, history, bounds
<1>11. DoneIsComplete' /\ ChoicesKept'
  BY <1>1 DEF IInv, DoneIsComplete, ChoicesKept, rows, history
<1> QED
  BY <1>6, <1>7, <1>9, <1>10, <1>11 DEF IInv

\* A sync pass asks for the lock, or ends: then no worker has begun.
LEMMA SyncKeeps == ASSUME IInv, SyncAsks \/ SyncEnds PROVE IInv'
<1>1. CASE SyncAsks
  <2>1. /\ Asked /\ Slot!Ask(Sync) /\ UNCHANGED <<rows, service, worker, provider, history>>
    BY <1>1 DEF SyncAsks
  <2>2. queue' \in Seq(Worker \cup {Sync}) /\ holder' \in Worker \cup {Sync, NoOne}
        /\ (holder' # holder => holder = NoOne)
    <3>1. queue \in Seq(Worker \cup {Sync}) /\ holder \in Worker \cup {Sync, NoOne}
      BY DEF IInv, TypeOK
    <3>2. CASE holder = NoOne /\ queue = <<>>
      BY <2>1, <3>1, <3>2 DEF Slot!Ask
    <3>3. CASE ~(holder = NoOne /\ queue = <<>>)
      BY <2>1, <3>1, <3>3 DEF Slot!Ask
    <3> QED
      BY <3>2, <3>3
  <2>3. OneThread'
    <3>1. ~closing /\ ~closing'
      BY <2>1 DEF Asked, service
    <3>2. \A w \in Worker : Active(w)' => holder' = w
      BY <2>1, <2>2, <3>1 DEF IInv, OneThread, Active, NoOne, Worker
    <3> QED
      BY <2>1, <3>1, <3>2 DEF IInv, OneThread, Active
  <2>4. \A w \in Worker : WorkerInv(w)'
    <3>1. \A w \in Worker : Aside(w)
      BY <2>1, SameRowsAside DEF rows, provider, history
    <3> QED
      BY <2>1, <3>1, AsideKeeps DEF SamePlace, IInv
  <2>5. CreatedKnown' /\ AddedOnce' /\ AddedIsThere'
    <3>1. queue \in Seq({Sync}) => queue' \in Seq({Sync})
      BY <2>1 DEF Slot!Ask
    <3> QED
      BY <2>1, <3>1, QuietKeeps DEF rows, provider, history, IInv, CreatedKnown
  <2>6. TypeOK'
    BY <2>1, <2>2, AskedIsTyped DEF IInv, TypeOK, rows, service, provider, history
  <2>7. DoneIsComplete' /\ ChoicesKept'
    BY <2>1 DEF IInv, DoneIsComplete, ChoicesKept, rows, history
  <2> QED
    BY <2>3, <2>4, <2>5, <2>6, <2>7 DEF IInv
<1>2. CASE SyncEnds
  <2>1. /\ holder = Sync /\ holder' = NoOne /\ queue' = queue
        /\ UNCHANGED <<rows, service, worker, created, history, bounds>>
    BY <1>2 DEF SyncEnds, Slot!Release
  <2>2. PICK ids \in SUBSET (Id \ Refused) : contents' = [contents EXCEPT ![Existing] = @ \cup ids]
    BY <1>2 DEF SyncEnds
  <2>3. contents' \in [Playlist -> SUBSET Id] /\ \A p \in Playlist : contents[p] \subseteq contents'[p]
    BY <2>2, ExistingIsThere DEF IInv, TypeOK
  <2>4. \A w \in Worker : ~Active(w) /\ ~closing
    BY <2>1 DEF IInv, OneThread, Sync, NoOne, Worker
  <2>5. OneThread'
    <3>1. ~closing
      BY <2>1 DEF IInv, OneThread, Sync, NoOne
    <3> QED
      BY <2>1, <2>4, <3>1 DEF IInv, OneThread, Active, service
  <2>6. \A w \in Worker : WorkerInv(w)'
    BY <2>1, <2>4, OutsideKeeps DEF IInv
  <2>7. CreatedKnown' /\ AddedOnce'
    BY <2>1 DEF IInv, CreatedKnown, AddedOnce, rows, history
  <2>8. AddedIsThere'
    <3>1. put \in [Track -> (Playlist \X Id) \cup {<<>>}]
      BY DEF IInv, TypeOK
    <3>2. \A t \in Track : put[t] # <<>> => put[t][1] \in Playlist
      BY <3>1
    <3> QED
      BY <2>1, <2>3, <3>2 DEF IInv, AddedIsThere, rows, history
  <2>9. TypeOK'
    BY <2>1, <2>3 DEF IInv, TypeOK, rows, service, history, bounds
  <2>10. DoneIsComplete' /\ ChoicesKept'
    BY <2>1 DEF IInv, DoneIsComplete, ChoicesKept, rows, history
  <2> QED
    BY <2>5, <2>6, <2>7, <2>8, <2>9, <2>10 DEF IInv
<1> QED
  BY <1>1, <1>2

\* The event loop ends: its threads go on as orphans, and nobody else starts.
LEMMA LoopEndsKeeps == ASSUME IInv, LoopEnds PROVE IInv'
<1>1. /\ ~closing /\ closing' = TRUE /\ faults' = faults
      /\ status' = IF Live # {} /\ status # "deleted" THEN "cancelled" ELSE status
      /\ control' = IF Live # {} THEN "absent" ELSE control
      /\ current' = NoOne /\ deleting' = FALSE /\ holder' = NoOne /\ queue' = <<>>
      /\ UNCHANGED <<phase, append, dest, row, provider, history, bounds>>
  BY DEF LoopEnds, Slot!Reset, bounds
<1>2. \A w \in Worker :
        /\ ~Active(w) => worker'[w] = Free
        /\ Active(w) => /\ worker'[w] \in WorkerRecord /\ worker'[w].orphan = TRUE
                        /\ SamePlace(w)
  <2> SUFFICES ASSUME NEW w \in Worker
               PROVE  /\ ~Active(w) => worker'[w] = Free
                      /\ Active(w) => /\ worker'[w] \in WorkerRecord /\ worker'[w].orphan = TRUE
                                      /\ SamePlace(w)
    OBVIOUS
  <2>1. worker'[w] = IF worker[w].at \in {"free", "queued"} THEN Free
                     ELSE [worker[w] EXCEPT !.orphan = TRUE]
    BY DEF LoopEnds
  <2>2. PICK me \in WorkerRecord : me = worker[w]
    BY DEF IInv, TypeOK
  <2>3. PICK n \in WorkerRecord : n = [me EXCEPT !.orphan = TRUE]
    BY DEF WorkerRecord
  <2>4. /\ n.orphan = TRUE /\ n.at = me.at /\ n.kind = me.kind /\ n.read = me.read /\ n.i = me.i
        /\ n.found = me.found /\ n.playlist = me.playlist /\ n.existing = me.existing
        /\ n.blind = me.blind /\ n.pending = me.pending /\ n.landed = me.landed
    BY <2>3 DEF WorkerRecord
  <2> QED
    BY <2>1, <2>2, <2>3, <2>4 DEF Active, SamePlace
<1>3. worker' \in [Worker -> WorkerRecord]
  <2>1. \A w \in Worker : worker'[w] \in WorkerRecord
    BY <1>2, FreeIsTyped
  <2>2. worker' = [w \in Worker |-> worker'[w]]
    BY DEF LoopEnds
  <2> QED
    BY <2>1, <2>2
<1>4. \A w \in Worker : Active(w)' <=> Active(w)
  BY <1>2, FreeIsTyped DEF Active, SamePlace
<1>5. \A w \in Worker : worker'[w].at # "queued" /\ (worker'[w].at = "store" <=> worker[w].at = "store")
  BY <1>2, FreeIsTyped DEF Active, SamePlace
<1>6. OneThread'
  BY <1>1, <1>2, <1>4, <1>5 DEF IInv, OneThread
<1>7. \A w \in Worker : WorkerInv(w)'
  <2> SUFFICES ASSUME NEW w \in Worker PROVE WorkerInv(w)'
    OBVIOUS
  <2>1. CASE Active(w)
    <3>1. Aside(w)
      BY <1>1, SameRowsAside DEF provider, history
    <3> QED
      BY <2>1, <1>2, <3>1, AsideKeeps DEF IInv
  <2>2. CASE ~Active(w)
    BY <2>2, <1>2, FreeWorker
  <2> QED
    BY <2>1, <2>2
<1>8. CreatedKnown' /\ AddedOnce' /\ AddedIsThere'
  <2>1. \A w \in Worker : worker[w].at = "free" => worker'[w].at = "free"
    BY <1>2, FreeIsTyped DEF Active
  <2>2. status' # "deleted" => status # "deleted"
    BY <1>1
  <2>3. status' = "none" => status = "none"
    BY <1>1
  <2>4. queue' \in Seq({Sync})
    BY <1>1
  <2> QED
    BY <1>1, <1>5, <2>1, <2>2, <2>3, <2>4, QuietKeeps DEF provider, history
<1>9. TypeOK'
  <2>1. status' \in {"none", "ready", "paused", "done", "failed", "cancelled", "deleted"} \cup Busy
        /\ control' \in {"absent", "run", "pause", "cancel"}
    BY <1>1 DEF IInv, TypeOK
  <2>2. queue' \in Seq(Worker \cup {Sync})
    BY <1>1
  <2> QED
    BY <1>1, <1>3, <2>1, <2>2 DEF IInv, TypeOK, provider, history, bounds
<1>10. DoneIsComplete' /\ ChoicesKept'
  BY <1>1 DEF IInv, DoneIsComplete, ChoicesKept, history
<1> QED
  BY <1>6, <1>7, <1>8, <1>9, <1>10 DEF IInv

\* The process is gone: a playlist whose id was not stored is lost.
LEMMA RestartKeeps == ASSUME IInv, Restart PROVE IInv'
<1>1. /\ faults < MaxFaults /\ faults' = faults + 1
      /\ \/ status' = IF status \in Busy THEN "failed" ELSE status
         \/ status \in {"done", "cancelled", "failed"} /\ status' = "deleted"
      /\ control' = "absent" /\ current' = NoOne /\ deleting' = FALSE /\ closing' = FALSE
      /\ worker' = [w \in Worker |-> Free] /\ holder' = NoOne /\ queue' = <<>>
      /\ UNCHANGED <<phase, append, dest, row, provider, again, put, touched, contested, overruled,
                     late, requests>>
  BY DEF Restart, Slot!Reset
<1> DEFINE lost == {w \in Worker : worker[w].at = "store"}
<1>3. /\ forgotten' = forgotten + Cardinality(lost) /\ Cardinality(lost) \in Nat
      /\ lost # {} => Cardinality(lost) # 0
  <2>1. IsFiniteSet(Worker)
    BY ImportsAssumption, FS_Interval DEF Worker
  <2>2. IsFiniteSet(lost)
    BY <2>1, FS_Subset
  <2> QED
    BY <2>2, FS_CardinalityType, FS_EmptySet DEF Restart
<1>4. forgotten \in Nat /\ created \in Nat
  BY ImportsAssumption DEF IInv, TypeOK
<1>5. \A w \in Worker : worker'[w] = Free
  BY <1>1
<1>6. CreatedKnown'
  <2>1. created' = created /\ dest' = dest /\ \A w \in Worker : worker'[w].at = "free"
    BY <1>1, <1>5, FreeIsTyped DEF provider
  <2>2. status' # "deleted" => status # "deleted"
    BY <1>1 DEF Busy
  <2>3. (status' = "none" => status = "none") /\ queue' \in Seq({Sync})
    BY <1>1
  <2>4. CASE lost = {}
    <3>1. forgotten <= forgotten' /\ \A w \in Worker : worker[w].at # "store"
      BY <1>3, <1>4, <2>4
    <3> HIDE DEF lost
    <3>2. created <= 1 + forgotten'
      BY <1>3, <1>4, <3>1 DEF IInv, CreatedKnown
    <3>3. status # "deleted" /\ dest \in {Existing, NoPlaylist} => created <= forgotten'
      BY <1>3, <1>4, <3>1 DEF IInv, CreatedKnown
    <3> QED
      BY <2>1, <2>2, <2>3, <3>2, <3>3 DEF IInv, CreatedKnown
  <2>5. CASE lost # {}
    <3> HIDE DEF lost
    <3>1. created <= forgotten'
      BY <1>3, <1>4, <2>5 DEF IInv, CreatedKnown
    <3>2. created <= 1 + forgotten'
      BY <1>3, <1>4, <3>1
    <3> QED
      BY <2>1, <2>3, <3>1, <3>2 DEF IInv, CreatedKnown
  <2> QED
    BY <2>4, <2>5
<1>7. OneThread'
  BY <1>1, <1>5, FreeIsTyped DEF OneThread, Active
<1>8. \A w \in Worker : WorkerInv(w)'
  BY <1>5, FreeWorker
<1>9. TypeOK'
  <2>1. worker' \in [Worker -> WorkerRecord]
    BY <1>1, FreeIsTyped
  <2>2. forgotten' \in Nat
    BY <1>3, <1>4
  <2>3. faults' \in 0..MaxFaults
    BY <1>1, ImportsAssumption DEF IInv, TypeOK
  <2>4. status' \in {"none", "ready", "paused", "done", "failed", "cancelled", "deleted"} \cup Busy
    BY <1>1 DEF IInv, TypeOK
  <2>5. queue' \in Seq(Worker \cup {Sync})
    BY <1>1
  <2> QED
    BY <1>1, <2>1, <2>2, <2>3, <2>4, <2>5 DEF IInv, TypeOK, provider
<1>10. AddedOnce' /\ AddedIsThere' /\ DoneIsComplete' /\ ChoicesKept'
  BY <1>1 DEF IInv, AddedOnce, AddedIsThere, DoneIsComplete, ChoicesKept, provider
<1> QED
  BY <1>6, <1>7, <1>8, <1>9, <1>10 DEF IInv

-----------------------------------------------------------------------------
(* The worker's thread.                                                    *)

\* A step of a thread that changes no row and nothing on the provider.
LEMMA UnseenKeeps ==
  ASSUME IInv, NEW w \in Worker, OnlyMoves(w), WorkerInv(w)', DoneIsComplete',
         UNCHANGED <<append, dest, row, service, lock, provider,
                     forgotten, again, put, contested, overruled, late>>,
         status' \in {"none", "ready", "paused", "done", "failed", "cancelled", "deleted"} \cup Busy,
         status' # "deleted" => status # "deleted", status' # "none",
         phase' \in {"none", "match", "create"}, touched' \subseteq Track,
         requests' \in 0..MaxRequests, faults' \in 0..MaxFaults,
         worker'[w].at # "store", worker[w].at # "store"
  PROVE  IInv'
<1>1. /\ OneThread' /\ status # "none"
      /\ \A v \in Worker \ {w} : WorkerInv(v)' /\ worker'[v] = worker[v]
  BY OnlyMovesKeeps
<1>2. \A v \in Worker : WorkerInv(v)'
  BY <1>1
<1>3. \A v \in Worker : worker'[v].at = "store" <=> worker[v].at = "store"
  BY <1>1
<1>4. CreatedKnown' /\ AddedOnce' /\ AddedIsThere'
  BY <1>3, QuietKeeps DEF provider
<1>5. TypeOK'
  BY DEF OnlyMoves, IInv, TypeOK, service, lock, provider
<1>6. ChoicesKept'
  BY DEF IInv, ChoicesKept
<1> QED
  BY <1>1, <1>2, <1>4, <1>5, <1>6 DEF IInv

\* The same, when the status stays, too.
LEMMA LocalKeeps ==
  ASSUME IInv, NEW w \in Worker, OnlyMoves(w), WorkerInv(w)',
         UNCHANGED <<rows, service, lock, provider, history, requests>>,
         faults' \in 0..MaxFaults,
         worker'[w].at # "store", worker[w].at # "store"
  PROVE  IInv'
<1>1. status # "none"
  BY OnlyMovesKeeps
<1>2. DoneIsComplete'
  BY DEF IInv, DoneIsComplete, rows, history
<1> QED
  BY <1>1, <1>2, UnseenKeeps DEF IInv, TypeOK, rows, history

\* The moves of w in terms of its new record.
LEMMA MovesTo ==
  ASSUME IInv, NEW w \in Worker, Active(w), NEW n \in WorkerRecord,
         worker' = [worker EXCEPT ![w] = n],
         n.kind = worker[w].kind, n.orphan = worker[w].orphan, n.at \notin {"free", "queued"},
         UNCHANGED <<lock, closing>>
  PROVE  OnlyMoves(w) /\ worker'[w] = n
<1>1. worker \in [Worker -> WorkerRecord]
  BY DEF IInv, TypeOK
<1> QED
  BY <1>1 DEF OnlyMoves, Active, lock

\* A thread that is near its end and writes no more.
LEMMA EndingIsFine ==
  ASSUME NEW w \in Worker, NEW me \in WorkerRecord, NEW at \in {"halt", "ended", "raised"},
         worker'[w].at = at, worker'[w].pending = {}, worker'[w].found = Fresh
  PROVE  WorkerInv(w)'
BY DEF WorkerInv, Begins, KindKnown, TargetKnown, ExistingKnown, SettlesRows, ChoicesKnown, Fresh, Decided

\* The job is opened, and perhaps a playlist created.
LEMMA OpenKeeps == ASSUME IInv, NEW w \in Worker, Open(w) PROVE IInv'
<1>1. worker[w].at = "open" /\ Active(w)
  BY DEF Open, Active
<1>2. PICK me \in WorkerRecord : me = worker[w]
  BY DEF IInv, TypeOK
<1>3. row \in [Track -> Row] /\ dest \in Playlist \cup {NoPlaylist}
  BY DEF IInv, TypeOK
<1>4. UNCHANGED <<rows, service, lock, history, bounds>>
  BY DEF Open
<1>5. CASE status = "deleted"
  <2>1. /\ Over(me, "ended") \in WorkerRecord
        /\ Over(me, "ended").at = "ended" /\ Over(me, "ended").kind = me.kind
        /\ Over(me, "ended").orphan = me.orphan /\ Over(me, "ended").pending = {}
        /\ Over(me, "ended").found = Fresh
    BY OverIsTyped
  <2>2. worker' = [worker EXCEPT ![w] = Over(me, "ended")] /\ UNCHANGED provider
    BY <1>2, <1>5 DEF Open
  <2>3. OnlyMoves(w) /\ worker'[w] = Over(me, "ended")
    BY <1>1, <1>2, <1>4, <2>1, <2>2, MovesTo DEF service
  <2>4. WorkerInv(w)'
    BY <2>1, <2>3, EndingIsFine
  <2> QED
    BY <1>1, <1>4, <2>1, <2>2, <2>3, <2>4, LocalKeeps DEF bounds, IInv, TypeOK
<1>6. CASE status # "deleted" /\ me.kind = "match"
  <2>1. PICK n \in WorkerRecord : n = [[me EXCEPT !.read = row] EXCEPT !.at = "walk"]
    BY <1>3 DEF WorkerRecord
  <2>2. /\ n.at = "walk" /\ n.kind = me.kind /\ n.orphan = me.orphan /\ n.read = row
        /\ n.pending = me.pending /\ n.found = me.found
    BY <2>1 DEF WorkerRecord
  <2>3. worker' = [worker EXCEPT ![w] = n] /\ UNCHANGED provider
    BY <1>2, <1>6, <2>1 DEF Open
  <2>4. OnlyMoves(w) /\ worker'[w] = n
    BY <1>1, <1>2, <1>4, <2>2, <2>3, MovesTo DEF service
  <2>5. WorkerInv(w)
    BY DEF IInv
  <2>6. WorkerInv(w)'
    <3>1. Begins(w)' /\ KindKnown(w)' /\ TargetKnown(w)' /\ ExistingKnown(w)' /\ SettlesRows(w)'
      BY <1>2, <1>6, <2>2, <2>4, <2>5
      DEF WorkerInv, Begins, KindKnown, TargetKnown, ExistingKnown, SettlesRows
    <3>2. ChoicesKnown(w)'
      BY <1>2, <1>4, <1>6, <2>2, <2>4, <2>5 DEF WorkerInv, ChoicesKnown, rows
    <3> QED
      BY <3>1, <3>2 DEF WorkerInv
  <2> QED
    BY <1>1, <1>4, <2>2, <2>3, <2>4, <2>6, LocalKeeps DEF bounds, IInv, TypeOK
<1>7. CASE status # "deleted" /\ me.kind # "match" /\ dest # NoPlaylist
  <2>1. PICK n \in WorkerRecord :
          n = [[me EXCEPT !.read = row] EXCEPT !.at = "read", !.playlist = dest]
    BY <1>3 DEF WorkerRecord
  <2>2. /\ n.at = "read" /\ n.kind = me.kind /\ n.orphan = me.orphan /\ n.playlist = dest
        /\ n.pending = me.pending /\ n.i = me.i /\ n.existing = me.existing /\ n.landed = me.landed
        /\ n.read = row
    BY <2>1 DEF WorkerRecord
  <2>3. worker' = [worker EXCEPT ![w] = n] /\ UNCHANGED provider
    BY <1>2, <1>7, <2>1 DEF Open
  <2>4. OnlyMoves(w) /\ worker'[w] = n
    BY <1>1, <1>2, <1>4, <2>2, <2>3, MovesTo DEF service
  <2>5. me.kind = "create"
    BY <1>7 DEF WorkerRecord
  <2>6. WorkerInv(w)'
    <3>1. Begins(w)' /\ KindKnown(w)'
      BY <1>1, <1>2, <2>2, <2>4, <2>5 DEF IInv, WorkerInv, Begins, KindKnown
    <3>2. TargetKnown(w)' /\ ExistingKnown(w)' /\ ChoicesKnown(w)'
      BY <1>3, <1>7, <2>2, <2>4, <2>5 DEF TargetKnown, ExistingKnown, ChoicesKnown
    <3>3. n.i = 1
      BY <1>1, <1>2, <2>2 DEF IInv, WorkerInv, Begins
    <3>4. SettlesRows(w)'
      BY <1>4, <2>2, <2>4, <3>3 DEF SettlesRows, rows, Track
    <3> QED
      BY <3>1, <3>2, <3>4 DEF WorkerInv
  <2> QED
    BY <1>1, <1>4, <2>2, <2>3, <2>4, <2>6, LocalKeeps DEF bounds, IInv, TypeOK
<1>8. CASE status # "deleted" /\ me.kind # "match" /\ dest = NoPlaylist
  <2>1. /\ created < MaxPlaylists /\ created' = created + 1 /\ UNCHANGED contents
        /\ worker' = [worker EXCEPT ![w] =
             [[me EXCEPT !.read = row] EXCEPT !.at = "store", !.playlist = created']]
    BY <1>2, <1>8 DEF Open
  <2>2. created \in Nat /\ forgotten \in Nat /\ created' \in 1..MaxPlaylists
    BY <2>1, ImportsAssumption DEF IInv, TypeOK
  <2>3. PICK p \in 1..MaxPlaylists : p = created'
    BY <2>2
  <2>4. p \in Playlist /\ p # Existing
    BY ImportsAssumption DEF Playlist, Existing
  <2>5. PICK n \in WorkerRecord :
          n = [[me EXCEPT !.read = row] EXCEPT !.at = "store", !.playlist = p]
    BY <1>3, <2>4 DEF WorkerRecord
  <2>6. /\ n.at = "store" /\ n.kind = me.kind /\ n.orphan = me.orphan /\ n.playlist = p
        /\ n.pending = me.pending /\ n.i = me.i /\ n.existing = me.existing /\ n.landed = me.landed
        /\ n.read = row
    BY <2>5 DEF WorkerRecord
  <2>7. OnlyMoves(w) /\ worker'[w] = n
    <3>1. worker' = [worker EXCEPT ![w] = n]
      BY <2>1, <2>3, <2>5
    <3> QED
      BY <1>1, <1>2, <1>4, <2>6, <3>1, MovesTo DEF service
  <2>8. me.kind = "create"
    BY <1>8 DEF WorkerRecord
  <2>9. /\ OneThread' /\ status # "none"
        /\ \A v \in Worker \ {w} : ~Active(v) /\ WorkerInv(v)' /\ worker'[v] = worker[v]
    BY <2>7, OnlyMovesKeeps
  <2>10. WorkerInv(w)'
    <3>1. Begins(w)' /\ KindKnown(w)'
      BY <1>1, <1>2, <2>6, <2>7, <2>8 DEF IInv, WorkerInv, Begins, KindKnown
    <3>2. TargetKnown(w)' /\ ExistingKnown(w)' /\ ChoicesKnown(w)'
      BY <1>4, <1>8, <2>4, <2>6, <2>7, <2>8 DEF TargetKnown, ExistingKnown, ChoicesKnown, rows
    <3>3. n.i = 1
      BY <1>1, <1>2, <2>6 DEF IInv, WorkerInv, Begins
    <3>4. SettlesRows(w)'
      BY <1>4, <2>6, <2>7, <3>3 DEF SettlesRows, rows, Track
    <3> QED
      BY <3>1, <3>2, <3>4 DEF WorkerInv
  <2>11. CreatedKnown'
    <3>1. \A v \in Worker : worker[v].at # "store"
      BY <1>1, <2>9 DEF Active
    <3>2. created <= forgotten
      BY <1>8, <3>1 DEF IInv, CreatedKnown
    <3>3. created' <= 1 + forgotten'
      BY <1>4, <2>1, <2>2, <3>2 DEF history
    <3>4. worker'[w].at = "store" /\ status' # "none"
      BY <1>4, <2>6, <2>7, <2>9 DEF rows
    <3> QED
      BY <3>3, <3>4 DEF CreatedKnown
  <2>12. TypeOK'
    <3>1. created' \in 0..MaxPlaylists
      BY <2>2
    <3> QED
      BY <1>4, <2>1, <2>7, <3>1 DEF IInv, TypeOK, OnlyMoves, rows, service, lock, history, bounds
  <2>13. AddedOnce' /\ AddedIsThere' /\ DoneIsComplete' /\ ChoicesKept'
    BY <1>4, <2>1 DEF IInv, AddedOnce, AddedIsThere, DoneIsComplete, ChoicesKept, rows, history
  <2> QED
    BY <2>9, <2>10, <2>11, <2>12, <2>13 DEF IInv
<1> QED
  BY <1>5, <1>6, <1>7, <1>8

\* The id of the playlist that was created is stored.
LEMMA StoreKeeps == ASSUME IInv, NEW w \in Worker, Store(w) PROVE IInv'
<1>1. /\ worker[w].at = "store" /\ Active(w)
      /\ dest' = IF status = "deleted" THEN dest ELSE worker[w].playlist
      /\ worker' = [worker EXCEPT ![w].at = "read"]
      /\ UNCHANGED <<status, phase, append, row, service, lock, provider, history, bounds>>
  BY DEF Store, StoreDest, Active
<1>2. PICK me \in WorkerRecord : me = worker[w]
  BY DEF IInv, TypeOK
<1>3. PICK n \in WorkerRecord : n = [me EXCEPT !.at = "read"]
  BY DEF WorkerRecord
<1>4. /\ n.at = "read" /\ n.kind = me.kind /\ n.orphan = me.orphan /\ n.playlist = me.playlist
      /\ n.pending = me.pending /\ n.i = me.i /\ n.existing = me.existing /\ n.landed = me.landed
      /\ n.read = me.read
  BY <1>3 DEF WorkerRecord
<1>5. worker' = [worker EXCEPT ![w] = n]
  BY <1>1, <1>2, <1>3 DEF IInv, TypeOK
<1>6. OnlyMoves(w) /\ worker'[w] = n
  BY <1>1, <1>2, <1>4, <1>5, MovesTo DEF service
<1>7. /\ OneThread' /\ status # "none"
      /\ \A v \in Worker \ {w} : ~Active(v) /\ WorkerInv(v)' /\ worker'[v] = worker[v]
  BY <1>6, OnlyMovesKeeps
<1>8. /\ me.kind = "create" /\ me.playlist \in Playlist /\ me.playlist # Existing
      /\ me.pending = {} /\ me.i = 1 /\ me.existing = {} /\ me.landed = {}
  BY <1>1, <1>2 DEF IInv, WorkerInv, Begins, KindKnown, TargetKnown
<1>9. WorkerInv(w)'
  <2>1. Begins(w)' /\ KindKnown(w)' /\ TargetKnown(w)' /\ ExistingKnown(w)' /\ ChoicesKnown(w)'
    BY <1>4, <1>6, <1>8 DEF Begins, KindKnown, TargetKnown, ExistingKnown, ChoicesKnown
  <2>2. SettlesRows(w)'
    BY <1>1, <1>2, <1>4, <1>6 DEF IInv, WorkerInv, SettlesRows
  <2> QED
    BY <2>1, <2>2 DEF WorkerInv
<1>10. CreatedKnown'
  <2>1. status # "deleted" => dest' \notin {Existing, NoPlaylist}
    BY <1>1, <1>2, <1>8 DEF Playlist, NoPlaylist
  <2> QED
    BY <1>1, <1>7, <2>1 DEF IInv, CreatedKnown, provider, history
<1>11. TypeOK'
  BY <1>1, <1>2, <1>6, <1>8 DEF IInv, TypeOK, OnlyMoves, service, lock, provider, history, bounds
<1>12. AddedOnce' /\ AddedIsThere' /\ DoneIsComplete' /\ ChoicesKept'
  BY <1>1 DEF IInv, AddedOnce, AddedIsThere, DoneIsComplete, ChoicesKept, provider, history
<1> QED
  BY <1>7, <1>9, <1>10, <1>11, <1>12 DEF IInv

\* The playlist is read, or the worker goes on without.
LEMMA ReadExistingKeeps == ASSUME IInv, NEW w \in Worker, ReadExisting(w) PROVE IInv'
<1>1. /\ worker[w].at = "read" /\ Active(w)
      /\ UNCHANGED <<rows, service, lock, provider, history, requests>>
  BY DEF ReadExisting, Active
<1>2. PICK me \in WorkerRecord : me = worker[w]
  BY DEF IInv, TypeOK
<1>3. /\ me.kind = "create" /\ me.playlist \in Playlist
      /\ me.pending = {} /\ me.i = 1 /\ me.existing = {} /\ me.landed = {}
  BY <1>1, <1>2 DEF IInv, WorkerInv, Begins, KindKnown, TargetKnown
<1>4. contents \in [Playlist -> SUBSET Id] /\ contents' = contents
  BY <1>1 DEF IInv, TypeOK, provider
<1>5. PICK existing \in SUBSET Id, blind \in BOOLEAN :
        /\ worker' = [worker EXCEPT ![w] = [me EXCEPT !.at = "walk", !.existing = existing, !.blind = blind]]
        /\ existing \subseteq contents[me.playlist]
        /\ blind \/ existing = contents[me.playlist]
        /\ faults' \in 0..MaxFaults
  <2>1. CASE /\ worker' = [worker EXCEPT ![w].at = "walk", ![w].existing = ReadPlaylist(w)]
             /\ UNCHANGED faults
    <3>1. ReadPlaylist(w) = contents[me.playlist]
      BY <1>2 DEF ReadPlaylist
    <3>2. [me EXCEPT !.at = "walk", !.existing = contents[me.playlist]]
            = [me EXCEPT !.at = "walk", !.existing = contents[me.playlist], !.blind = me.blind]
      BY DEF WorkerRecord
    <3>3. worker' = [worker EXCEPT ![w] = [me EXCEPT !.at = "walk", !.existing = contents[me.playlist]]]
      BY <2>1, <3>1, <1>2 DEF IInv, TypeOK
    <3>4. contents[me.playlist] \in SUBSET Id /\ me.blind \in BOOLEAN
      BY <1>3, <1>4 DEF WorkerRecord
    <3> USE <3>4
    <3> WITNESS contents[me.playlist] \in SUBSET Id, me.blind \in BOOLEAN
    <3> QED
      BY <2>1, <3>2, <3>3, <1>3, <1>4 DEF IInv, TypeOK, WorkerRecord
  <2>2. CASE /\ faults < MaxFaults /\ faults' = faults + 1
             /\ worker' = [worker EXCEPT ![w].at = "walk", ![w].blind = TRUE]
    <3>1. [me EXCEPT !.at = "walk", !.blind = TRUE]
            = [me EXCEPT !.at = "walk", !.existing = {}, !.blind = TRUE]
      BY <1>3 DEF WorkerRecord
    <3>2. worker' = [worker EXCEPT ![w] = [me EXCEPT !.at = "walk", !.blind = TRUE]]
      BY <2>2, <1>2 DEF IInv, TypeOK
    <3>3. faults' \in 0..MaxFaults
      BY <2>2, ImportsAssumption DEF IInv, TypeOK
    <3> WITNESS {} \in SUBSET Id, TRUE \in BOOLEAN
    <3> QED
      BY <3>1, <3>2, <3>3
  <2> QED
    BY <2>1, <2>2 DEF ReadExisting
<1>6. PICK n \in WorkerRecord : n = [me EXCEPT !.at = "walk", !.existing = existing, !.blind = blind]
  BY DEF WorkerRecord
<1>7. /\ n.at = "walk" /\ n.kind = me.kind /\ n.orphan = me.orphan /\ n.playlist = me.playlist
      /\ n.pending = {} /\ n.i = 1 /\ n.existing = existing /\ n.landed = {} /\ n.read = me.read
  BY <1>3, <1>6 DEF WorkerRecord
<1>8. n.blind <=> blind
  BY <1>6 DEF WorkerRecord
<1>9. OnlyMoves(w) /\ worker'[w] = n
  <2>1. worker' = [worker EXCEPT ![w] = n]
    BY <1>5, <1>6
  <2> QED
    BY <1>1, <1>2, <1>7, <2>1, MovesTo DEF service
<1>10. WorkerInv(w)'
  <2>1. Begins(w)' /\ KindKnown(w)' /\ TargetKnown(w)' /\ ChoicesKnown(w)'
    BY <1>3, <1>7, <1>9 DEF Begins, KindKnown, TargetKnown, ChoicesKnown
  <2>2. ExistingKnown(w)'
    BY <1>3, <1>4, <1>5, <1>7, <1>8, <1>9 DEF ExistingKnown
  <2>3. SettlesRows(w)'
    BY <1>1, <1>2, <1>3, <1>7, <1>9 DEF IInv, WorkerInv, SettlesRows, rows
  <2> QED
    BY <2>1, <2>2, <2>3 DEF WorkerInv
<1> QED
  BY <1>1, <1>5, <1>7, <1>9, <1>10, LocalKeeps

\* A walk that goes on to the next call, to its end, or to a halt.
LEMMA WalkEnds ==
  ASSUME IInv, NEW w \in Worker, worker[w].at = "walk",
         NEW at \in {"add", "check", "halt"}, NEW halt \in {"no", "pause", "cancel"},
         worker' = [worker EXCEPT ![w] = [worker[w] EXCEPT !.at = at, !.halt = halt]],
         at = "add" => worker[w].pending # {},
         at = "check" => worker[w].pending = {} /\ worker[w].i > NumTracks,
         UNCHANGED <<rows, service, lock, provider, history, bounds>>
  PROVE  IInv'
<1>1. PICK me \in WorkerRecord : me = worker[w]
  BY DEF IInv, TypeOK
<1>2. PICK n \in WorkerRecord : n = [me EXCEPT !.at = at, !.halt = halt]
  BY DEF WorkerRecord
<1>3. /\ n.at = at /\ n.kind = me.kind /\ n.orphan = me.orphan /\ n.playlist = me.playlist
      /\ n.read = me.read /\ n.i = me.i /\ n.found = me.found /\ n.existing = me.existing
      /\ n.blind = me.blind /\ n.pending = me.pending /\ n.landed = me.landed
  BY <1>2 DEF WorkerRecord
<1>4. OnlyMoves(w) /\ worker'[w] = n
  <2>1. worker' = [worker EXCEPT ![w] = n]
    BY <1>1, <1>2
  <2> QED
    BY <1>1, <1>3, <2>1, MovesTo DEF service, Active
<1>5. WorkerInv(w)
  BY DEF IInv
<1>6. me.kind = "match" \/ me.kind = "create"
  BY DEF WorkerRecord
<1>7. WorkerInv(w)'
  <2>1. Begins(w)' /\ KindKnown(w)'
    BY <1>1, <1>3, <1>4, <1>5, <1>6 DEF WorkerInv, Begins, KindKnown
  <2>2. TargetKnown(w)'
    BY <1>1, <1>3, <1>4, <1>5, <1>6 DEF WorkerInv, TargetKnown, KindKnown
  <2>3. ExistingKnown(w)'
    BY <1>1, <1>3, <1>4, <1>5 DEF WorkerInv, ExistingKnown, provider
  <2>4. SettlesRows(w)'
    <3>1. at = "check" => \A t \in Track : t < me.i
      BY <1>1, ImportsAssumption DEF Track, WorkerRecord
    <3> QED
      BY <1>1, <1>3, <1>4, <1>5, <3>1 DEF WorkerInv, SettlesRows, rows
  <2>5. ChoicesKnown(w)'
    BY <1>1, <1>3, <1>4, <1>5 DEF WorkerInv, ChoicesKnown
  <2> QED
    BY <2>1, <2>2, <2>3, <2>4, <2>5 DEF WorkerInv
<1> QED
  BY <1>3, <1>4, <1>7, LocalKeeps DEF bounds, IInv, TypeOK

\* A matching worker passes over a track people decided on, or finds a match to save.
LEMMA MatchMoves ==
  ASSUME NEW me \in WorkerRecord, me.i \in Track, NEW next \in MatchTrack(me)
  PROVE  \/ next = [me EXCEPT !.i = me.i + 1]
         \/ /\ me.read[me.i].decision \notin Decided
            /\ \E found \in Row : found.decision \notin Decided /\ next = [me EXCEPT !.at = "save", !.found = found]
<1>1. Fresh \in Row /\ Fresh.decision = "auto" /\ Fresh.id = NoId /\ Fresh.write = "pending"
  BY ImportsAssumption DEF Fresh, Row
<1>2. PICK unmatched \in Row : unmatched = [Fresh EXCEPT !.decision = "unmatched"]
  BY <1>1 DEF Row
<1>3. unmatched.decision = "unmatched"
  BY <1>1, <1>2 DEF Row
<1>4. ASSUME NEW id \in Id \cup {NoId}
      PROVE  [Fresh EXCEPT !.id = id] \in Row /\ [Fresh EXCEPT !.id = id].decision = "auto"
  BY <1>1 DEF Row
<1>5. CASE me.read[me.i].decision \in Decided
  BY <1>5 DEF MatchTrack, KeepsChoice
<1>6. CASE me.read[me.i].decision \notin Decided /\ me.i \in Invalid
  BY <1>2, <1>3, <1>6 DEF MatchTrack, KeepsChoice, Decided
<1>7. CASE me.read[me.i].decision \notin Decided /\ me.i \notin Invalid
  <2>1. PICK found \in Match[me.i] :
          next = [me EXCEPT !.at = "save",
                            !.found = IF found = None THEN [Fresh EXCEPT !.decision = "unmatched"]
                                      ELSE [Fresh EXCEPT !.id = found]]
    BY <1>7 DEF MatchTrack, KeepsChoice
  <2>2. CASE found = None
    BY <1>2, <1>3, <1>7, <2>1, <2>2 DEF Decided
  <2>3. CASE found # None
    <3>1. found \in Id \cup {NoId}
      BY <2>3, ImportsAssumption
    <3>2. PICK f \in Row : f = [Fresh EXCEPT !.id = found] /\ f.decision = "auto"
      BY <1>4, <3>1
    <3> QED
      BY <1>7, <2>1, <2>3, <3>2 DEF Decided
  <2> QED
    BY <2>2, <2>3
<1> QED
  BY <1>5, <1>6, <1>7

\* A writing worker settles a track, or gathers it for the next call.
LEMMA WriteMoves ==
  ASSUME NEW me \in WorkerRecord, me.i \in Track
  PROVE  \E n \in WorkerRecord, write \in {"pending", "failed"} \cup WriteDone :
           /\ WriteTrack(me) = <<n, write>>
           /\ n.at \in {"walk", "add"} \cup {me.at} /\ n.kind = me.kind /\ n.orphan = me.orphan
           /\ n.playlist = me.playlist /\ n.read = me.read /\ n.i = me.i + 1
           /\ n.existing = me.existing /\ n.blind = me.blind /\ n.landed = me.landed
           /\ \/ /\ n.pending = me.pending
                 /\ \/ write = me.read[me.i].write /\ write # "pending"
                    \/ write = "skipped"
                    \/ write = "already_present" /\ me.read[me.i].id \in me.existing
              \/ /\ n.pending = me.pending \cup {me.i} /\ write = me.read[me.i].write
                 /\ me.read[me.i].id \in Id \ me.existing
<1>1. me.read[me.i] \in Row /\ me.i + 1 \in 1..(NumTracks + 1)
  BY ImportsAssumption DEF WorkerRecord, Track
<1>2. PICK r \in Row : r = me.read[me.i]
  BY <1>1
<1>3. PICK write \in {"pending", "failed"} \cup WriteDone : write = r.write
  BY DEF Row
<1>4. PICK on \in WorkerRecord : on = [me EXCEPT !.i = me.i + 1]
  BY <1>1 DEF WorkerRecord
<1>5. /\ on.at = me.at /\ on.kind = me.kind /\ on.orphan = me.orphan
      /\ on.playlist = me.playlist /\ on.read = me.read /\ on.i = me.i + 1
      /\ on.existing = me.existing /\ on.blind = me.blind /\ on.landed = me.landed
      /\ on.pending = me.pending
  BY <1>4 DEF WorkerRecord
<1>6. CASE r.write \in WriteDone
  <2>1. PICK good \in BOOLEAN : good = (on.good \/ r.write # "skipped")
    BY DEF WorkerRecord
  <2>2. PICK n \in WorkerRecord : n = [on EXCEPT !.good = good]
    BY DEF WorkerRecord
  <2>3. /\ n.at = on.at /\ n.kind = on.kind /\ n.orphan = on.orphan
        /\ n.playlist = on.playlist /\ n.read = on.read /\ n.i = on.i
        /\ n.existing = on.existing /\ n.blind = on.blind /\ n.landed = on.landed
        /\ n.pending = on.pending
    BY <2>2 DEF WorkerRecord
  <2>4. WriteTrack(me) = <<n, write>>
    BY <1>2, <1>3, <1>4, <1>6, <2>1, <2>2 DEF WriteTrack
  <2> QED
    BY <1>2, <1>3, <1>5, <1>6, <2>3, <2>4 DEF WriteDone
<1>7. CASE r.write \notin WriteDone /\ Skips(me)
  <2>1. WriteTrack(me) = <<on, "skipped">>
    BY <1>2, <1>4, <1>7 DEF WriteTrack
  <2> QED
    BY <1>5, <2>1 DEF WriteDone
<1>8. CASE r.write \notin WriteDone /\ ~Skips(me) /\ r.id \in me.existing
  <2>1. PICK n \in WorkerRecord : n = [on EXCEPT !.good = TRUE]
    BY DEF WorkerRecord
  <2>2. /\ n.at = on.at /\ n.kind = on.kind /\ n.orphan = on.orphan
        /\ n.playlist = on.playlist /\ n.read = on.read /\ n.i = on.i
        /\ n.existing = on.existing /\ n.blind = on.blind /\ n.landed = on.landed
        /\ n.pending = on.pending
    BY <2>1 DEF WorkerRecord
  <2>3. WriteTrack(me) = <<n, "already_present">>
    BY <1>2, <1>4, <1>8, <2>1 DEF WriteTrack
  <2> QED
    BY <1>2, <1>5, <1>8, <2>2, <2>3 DEF WriteDone
<1>9. CASE r.write \notin WriteDone /\ ~Skips(me) /\ r.id \notin me.existing
  <2>1. PICK at \in {"add", on.at} :
          at = IF Cardinality(Ids(me, me.pending \cup {me.i})) >= BatchSize THEN "add" ELSE on.at
    OBVIOUS
  <2>2. PICK n \in WorkerRecord : n = [on EXCEPT !.pending = on.pending \cup {me.i}, !.at = at]
    BY DEF WorkerRecord
  <2>3. /\ n.at = at /\ n.kind = on.kind /\ n.orphan = on.orphan
        /\ n.playlist = on.playlist /\ n.read = on.read /\ n.i = on.i
        /\ n.existing = on.existing /\ n.blind = on.blind /\ n.landed = on.landed
        /\ n.pending = on.pending \cup {me.i}
    BY <2>2 DEF WorkerRecord
  <2>4. WriteTrack(me) = <<n, write>>
    BY <1>2, <1>3, <1>4, <1>9, <2>1, <2>2 DEF WriteTrack
  <2>5. r.id \in Id
    BY <1>2, <1>9 DEF Skips, Row
  <2> QED
    BY <1>2, <1>3, <1>5, <1>9, <2>1, <2>3, <2>4, <2>5
<1> QED
  BY <1>6, <1>7, <1>8, <1>9

\* A walk of a writing worker past one track.
LEMMA WalkWrites ==
  ASSUME IInv, NEW w \in Worker, Walk(w), worker[w].i \in Track,
         control \notin {"pause", "cancel"}, worker[w].kind # "match"
  PROVE  IInv'
<1>1. PICK me \in WorkerRecord : me = worker[w]
  BY DEF IInv, TypeOK
<1>2. /\ me.at = "walk" /\ me.i \in Track /\ ~(me.i > NumTracks) /\ me.kind = "create"
      /\ UNCHANGED <<status, phase, append, dest, service, lock, provider,
                     forgotten, again, touched, contested, overruled, late, bounds>>
  <2>1. me.i \in Track /\ ~(me.i > NumTracks)
    BY <1>1, ImportsAssumption DEF Track
  <2>2. me.kind = "create"
    BY <1>1 DEF WorkerRecord
  <2> QED
    BY <1>1, <2>1, <2>2 DEF Walk
<1>3. PICK t \in Track : t = me.i
  BY <1>2
<1>4. PICK n \in WorkerRecord, write \in {"pending", "failed"} \cup WriteDone :
           /\ WriteTrack(me) = <<n, write>>
           /\ n.at \in {"walk", "add"} /\ n.kind = me.kind /\ n.orphan = me.orphan
           /\ n.playlist = me.playlist /\ n.read = me.read /\ n.i = t + 1
           /\ n.existing = me.existing /\ n.blind = me.blind /\ n.landed = me.landed
           /\ \/ /\ n.pending = me.pending
                 /\ \/ write = me.read[t].write /\ write # "pending"
                    \/ write = "skipped"
                    \/ write = "already_present" /\ me.read[t].id \in me.existing
              \/ /\ n.pending = me.pending \cup {t} /\ write = me.read[t].write
                 /\ me.read[t].id \in Id \ me.existing
  BY <1>2, <1>3, WriteMoves
<1>5. /\ worker' = [worker EXCEPT ![w] = n]
      /\ IF write = me.read[t].write THEN UNCHANGED row
         ELSE SetRow([s \in {t} |-> [row[t] EXCEPT !.write = write]])
  BY <1>1, <1>2, <1>3, <1>4 DEF Walk
<1>6. OnlyMoves(w) /\ worker'[w] = n
  BY <1>1, <1>2, <1>4, <1>5, MovesTo DEF service, Active
<1>7. /\ OneThread' /\ status # "none"
      /\ \A v \in Worker \ {w} : ~Active(v) /\ WorkerInv(v)' /\ worker'[v] = worker[v]
  BY <1>6, OnlyMovesKeeps
<1>8. WorkerInv(w)
  BY DEF IInv
<1>9. PICK old \in Row : old = row[t]
  BY DEF IInv, TypeOK
<1>10. PICK new \in Row : new = [old EXCEPT !.write = write]
  BY DEF Row
<1>11. new.write = write /\ new.decision = old.decision /\ new.id = old.id
  BY <1>10 DEF Row
<1>12. /\ row' \in [Track -> Row] /\ \A s \in Track : s # t => row'[s] = row[s]
       /\ row'[t] = row[t] \/ (row'[t] = new /\ write # me.read[t].write)
       /\ status # "deleted" /\ write # me.read[t].write => row'[t] = new
  <2>1. CASE write = me.read[t].write \/ status = "deleted"
    BY <1>5, <2>1 DEF SetRow, IInv, TypeOK
  <2>2. CASE write # me.read[t].write /\ status # "deleted"
    <3>1. row' = [s \in Track |-> IF s \in {t} THEN new ELSE row[s]]
      BY <1>5, <1>9, <1>10, <2>2 DEF SetRow
    <3> QED
      BY <2>2, <3>1 DEF IInv, TypeOK
  <2> QED
    BY <2>1, <2>2
<1>13. put' = [s \in Track |-> IF row'[s].write = "already_present" /\ row[s].write # "already_present"
                              THEN <<me.playlist, me.read[s].id>> ELSE put[s]]
  BY <1>1 DEF Walk
<1>14. row'[t].write = "already_present" /\ row[t].write # "already_present" =>
         write = "already_present" /\ me.read[t].id \in me.existing
  BY <1>4, <1>11, <1>12
<1>15. me.playlist \in Playlist /\ me.existing \subseteq contents[me.playlist] /\ me.existing \subseteq Id
  BY <1>1, <1>2, <1>8 DEF WorkerInv, TargetKnown, ExistingKnown, WorkerRecord
<1>16. \A s \in Track :
         \/ put'[s] = put[s] /\ row'[s] = row[s]
         \/ put'[s] = put[s] /\ s = t /\ row'[t] = new /\ (write = "already_present" => row[t].write = write)
         \/ s = t /\ put'[s] = <<me.playlist, me.read[t].id>> /\ me.read[t].id \in me.existing
  BY <1>11, <1>12, <1>13, <1>14
<1>17. put' \in [Track -> (Playlist \X Id) \cup {<<>>}]
  <2>1. put' = [s \in Track |-> put'[s]]
    BY <1>13
  <2>2. \A s \in Track : put[s] \in (Playlist \X Id) \cup {<<>>}
    BY DEF IInv, TypeOK
  <2>3. me.read[t].id \in me.existing => <<me.playlist, me.read[t].id>> \in Playlist \X Id
    BY <1>15
  <2>4. \A s \in Track : put'[s] \in (Playlist \X Id) \cup {<<>>}
    BY <1>16, <2>2, <2>3
  <2> QED
    BY <2>1, <2>4
<1>18. AddedIsThere'
  <2> SUFFICES ASSUME NEW s \in Track, row'[s].write \in {"added", "already_present"}
               PROVE  put'[s] # <<>> /\ put'[s][2] \in contents[put'[s][1]]
    BY <1>2 DEF AddedIsThere, provider
  <2>1. CASE put'[s] = put[s] /\ row[s].write \in {"added", "already_present"}
    BY <2>1 DEF IInv, AddedIsThere
  <2>2. CASE s = t /\ put'[s] = <<me.playlist, me.read[t].id>> /\ me.read[t].id \in me.existing
    BY <1>15, <2>2
  <2>3. CASE put'[s] = put[s] /\ s = t /\ row'[t] = new /\ (write = "already_present" => row[t].write = write)
    <3>1. write # "added" \/ row'[t] = row[t]
      BY <1>4, <1>12, <2>3
    <3> QED
      BY <1>11, <2>1, <2>3, <3>1
  <2> QED
    BY <1>16, <2>1, <2>2, <2>3
<1>19. \A s \in Track : row'[s].write = "pending" => row'[s] = row[s]
  BY <1>4, <1>11, <1>12
<1>20. \A s \in Track : row[s].write # "pending" => row'[s].write # "pending"
  BY <1>19
<1>21. \A s \in Track : row'[s].decision = row[s].decision
  BY <1>9, <1>11, <1>12
<1>22. WorkerInv(w)'
  <2>1. Begins(w)' /\ KindKnown(w)' /\ TargetKnown(w)' /\ ChoicesKnown(w)'
    BY <1>2, <1>4, <1>6, <1>15 DEF Begins, KindKnown, TargetKnown, ChoicesKnown
  <2>2. ExistingKnown(w)'
    BY <1>1, <1>2, <1>4, <1>6, <1>8 DEF WorkerInv, ExistingKnown, provider
  <2>3. SettlesRows(w)'
    <3> SUFFICES ASSUME status # "deleted", NEW s \in Track
                 PROVE  /\ s < t + 1 => row'[s].write # "pending" \/ s \in n.pending
                        /\ me.read[s].write # "pending" => row'[s].write # "pending"
      BY <1>2, <1>4, <1>6 DEF SettlesRows
    <3>1. /\ s < t => row[s].write # "pending" \/ s \in me.pending
          /\ me.read[s].write # "pending" => row[s].write # "pending"
      BY <1>1, <1>2, <1>3, <1>8 DEF WorkerInv, SettlesRows
    <3>2. CASE s = t
      <4>1. CASE t \in n.pending
        BY <1>20, <3>1, <3>2, <4>1
      <4>2. CASE write = me.read[t].write /\ write # "pending"
        BY <1>20, <3>1, <3>2, <4>2
      <4>3. CASE write \in {"skipped", "already_present"} /\ write # me.read[t].write
        BY <1>11, <1>12, <3>2, <4>3
      <4>4. t \in n.pending \/ write # "pending"
        BY <1>4
      <4>5. t \in n.pending \/ write = me.read[t].write \/ write \in {"skipped", "already_present"}
        BY <1>4
      <4> QED
        BY <4>1, <4>2, <4>3, <4>4, <4>5
    <3>3. CASE s # t
      <4>1. s < t + 1 => s < t
        BY <3>3 DEF Track
      <4>2. me.pending \subseteq n.pending
        BY <1>4
      <4> QED
        BY <1>20, <3>1, <4>1, <4>2
    <3> QED
      BY <3>2, <3>3
  <2> QED
    BY <2>1, <2>2, <2>3 DEF WorkerInv
<1>23. CreatedKnown' /\ AddedOnce'
  <2>1. \A v \in Worker : worker'[v].at = "store" <=> worker[v].at = "store"
    BY <1>1, <1>2, <1>4, <1>6, <1>7
  <2> QED
    BY <1>2, <1>7, <2>1 DEF IInv, CreatedKnown, AddedOnce, provider
<1>24. DoneIsComplete' /\ ChoicesKept'
  BY <1>2, <1>19 DEF IInv, DoneIsComplete, ChoicesKept
<1>25. TypeOK'
  BY <1>2, <1>6, <1>12, <1>17 DEF IInv, TypeOK, OnlyMoves, service, lock, provider, bounds
<1>26. \A v \in Worker : WorkerInv(v)'
  BY <1>7, <1>22
<1> QED
  BY <1>7, <1>18, <1>23, <1>24, <1>25, <1>26 DEF IInv

\* A walk past one track, or to what comes after the last one.
LEMMA WalkKeeps == ASSUME IInv, NEW w \in Worker, Walk(w) PROVE IInv'
<1>1. PICK me \in WorkerRecord : me = worker[w]
  BY DEF IInv, TypeOK
<1>2. /\ me.at = "walk"
      /\ UNCHANGED <<status, phase, append, dest, service, lock, provider,
                     forgotten, again, touched, contested, overruled, late, bounds>>
  BY <1>1 DEF Walk
<1>3. me.i \in 1..(NumTracks + 1) /\ me.i \in Int /\ NumTracks \in Nat /\ me.pending \subseteq Track
  BY ImportsAssumption DEF WorkerRecord
<1>4. ASSUME UNCHANGED row
      PROVE  UNCHANGED <<rows, service, lock, provider, history, bounds>>
  <2>1. put' = [s \in Track |-> put[s]]
    BY <1>4 DEF Walk
  <2>2. put' = put
    BY <2>1 DEF IInv, TypeOK
  <2> QED
    BY <1>2, <1>4, <2>2 DEF rows, history
<1>5. CASE me.i > NumTracks
  <2>1. worker' = [worker EXCEPT ![w].at = Completes(me)] /\ UNCHANGED row
    BY <1>1, <1>5 DEF Walk
  <2>2. PICK at \in {"add", "check"} : at = IF me.pending # {} THEN "add" ELSE "check"
    OBVIOUS
  <2>3. worker' = [worker EXCEPT ![w] = [worker[w] EXCEPT !.at = at, !.halt = me.halt]]
    <3>1. worker' = [worker EXCEPT ![w] = [me EXCEPT !.at = at]]
      BY <1>1, <2>1, <2>2 DEF Completes, IInv, TypeOK
    <3>2. [me EXCEPT !.at = at] = [me EXCEPT !.at = at, !.halt = me.halt]
      BY DEF WorkerRecord
    <3> QED
      BY <1>1, <3>1, <3>2
  <2>4. me.halt \in {"no", "pause", "cancel"}
    BY DEF WorkerRecord
  <2> QED
    BY <1>1, <1>2, <1>4, <1>5, <2>1, <2>2, <2>3, <2>4, WalkEnds
<1>6. CASE ~(me.i > NumTracks) /\ control \in {"pause", "cancel"}
  <2>1. PICK at \in {"add", "halt"} :
          at = IF control = "pause" /\ me.pending # {} THEN "add" ELSE "halt"
    OBVIOUS
  <2>2. worker' = [worker EXCEPT ![w].halt = control, ![w].at = at] /\ UNCHANGED row
    BY <1>1, <1>6, <2>1 DEF Walk
  <2>3. worker' = [worker EXCEPT ![w] = [worker[w] EXCEPT !.at = at, !.halt = control]]
    <3>1. worker' = [worker EXCEPT ![w] = [me EXCEPT !.halt = control, !.at = at]]
      BY <1>1, <2>2 DEF IInv, TypeOK
    <3>2. [me EXCEPT !.halt = control, !.at = at] = [me EXCEPT !.at = at, !.halt = control]
      BY DEF WorkerRecord
    <3> QED
      BY <1>1, <3>1, <3>2
  <2> QED
    BY <1>1, <1>2, <1>4, <1>6, <2>1, <2>2, <2>3, WalkEnds
<1>7. CASE ~(me.i > NumTracks) /\ control \notin {"pause", "cancel"} /\ me.kind = "match"
  <2>1. PICK next \in MatchTrack(me) : worker' = [worker EXCEPT ![w] = next] /\ UNCHANGED row
    BY <1>1, <1>7 DEF Walk
  <2>2. me.i \in Track
    BY <1>3, <1>7 DEF Track
  <2>3. WorkerInv(w)
    BY DEF IInv
  <2>4. CASE next = [me EXCEPT !.i = me.i + 1]
    <3>1. PICK n \in WorkerRecord : n = [me EXCEPT !.i = me.i + 1]
      <4>1. me.i + 1 \in 1..(NumTracks + 1)
        BY <1>3, <1>7
      <4> QED
        BY <4>1 DEF WorkerRecord
    <3>2. /\ n.at = me.at /\ n.kind = me.kind /\ n.orphan = me.orphan /\ n.read = me.read
          /\ n.found = me.found /\ n.pending = me.pending
      BY <3>1 DEF WorkerRecord
    <3>3. OnlyMoves(w) /\ worker'[w] = n
      <4>1. worker' = [worker EXCEPT ![w] = n]
        BY <2>1, <2>4, <3>1
      <4> QED
        BY <1>1, <1>2, <3>2, <4>1, MovesTo DEF service, Active
    <3>4. WorkerInv(w)'
      <4>1. Begins(w)' /\ TargetKnown(w)' /\ ExistingKnown(w)' /\ SettlesRows(w)'
        BY <1>2, <1>7, <3>2, <3>3 DEF Begins, TargetKnown, ExistingKnown, SettlesRows
      <4>2. KindKnown(w)' /\ ChoicesKnown(w)'
        BY <1>1, <1>2, <2>1, <2>3, <3>2, <3>3 DEF WorkerInv, KindKnown, ChoicesKnown
      <4> QED
        BY <4>1, <4>2 DEF WorkerInv
    <3> QED
      BY <1>1, <1>2, <1>4, <2>1, <3>2, <3>3, <3>4, LocalKeeps DEF bounds, IInv, TypeOK
  <2>5. CASE /\ me.read[me.i].decision \notin Decided
             /\ \E found \in Row : found.decision \notin Decided /\ next = [me EXCEPT !.at = "save", !.found = found]
    <3>1. PICK found \in Row : found.decision \notin Decided /\ next = [me EXCEPT !.at = "save", !.found = found]
      BY <2>5
    <3>2. PICK n \in WorkerRecord : n = [me EXCEPT !.at = "save", !.found = found]
      BY DEF WorkerRecord
    <3>3. /\ n.at = "save" /\ n.kind = me.kind /\ n.orphan = me.orphan /\ n.read = me.read
          /\ n.found = found /\ n.pending = me.pending /\ n.i = me.i
      BY <3>2 DEF WorkerRecord
    <3>4. OnlyMoves(w) /\ worker'[w] = n
      <4>1. worker' = [worker EXCEPT ![w] = n]
        BY <2>1, <3>1, <3>2
      <4> QED
        BY <1>1, <1>2, <3>3, <4>1, MovesTo DEF service, Active
    <3>5. WorkerInv(w)'
      <4>1. Begins(w)' /\ TargetKnown(w)' /\ ExistingKnown(w)' /\ SettlesRows(w)'
        BY <1>7, <3>3, <3>4 DEF Begins, TargetKnown, ExistingKnown, SettlesRows
      <4>2. KindKnown(w)' /\ ChoicesKnown(w)'
        BY <1>1, <1>2, <1>7, <2>1, <2>2, <2>3, <2>5, <3>1, <3>3, <3>4 DEF WorkerInv, KindKnown, ChoicesKnown, Track
      <4> QED
        BY <4>1, <4>2 DEF WorkerInv
    <3> QED
      BY <1>1, <1>2, <1>4, <2>1, <3>3, <3>4, <3>5, LocalKeeps DEF bounds, IInv, TypeOK
  <2> QED
    BY <2>1, <2>2, <2>4, <2>5, MatchMoves
<1>8. CASE ~(me.i > NumTracks) /\ control \notin {"pause", "cancel"} /\ me.kind # "match"
  <2>1. me.i \in Track
    BY <1>3, <1>8 DEF Track
  <2> QED
    BY <1>1, <1>8, <2>1, WalkWrites
<1> QED
  BY <1>5, <1>6, <1>7, <1>8

\* A match is saved, whatever the row says by now.
LEMMA SaveKeeps == ASSUME IInv, NEW w \in Worker, Save(w) PROVE IInv'
<1>1. PICK me \in WorkerRecord : me = worker[w]
  BY DEF IInv, TypeOK
<1>2. /\ me.at = "save" /\ touched' = touched \cup {me.i}
      /\ SetRow([s \in {me.i} |-> [me.found EXCEPT !.write = row[me.i].write]])
      /\ overruled' = IF status # "deleted" /\ row[me.i].decision \in Decided THEN overruled \cup {me.i}
                      ELSE overruled
      /\ worker' = [worker EXCEPT ![w].at = "walk", ![w].i = me.i + 1, ![w].found = Fresh]
      /\ UNCHANGED <<status, phase, append, dest, service, lock, provider,
                     forgotten, again, put, contested, late, bounds>>
  BY <1>1 DEF Save
<1>3. WorkerInv(w)
  BY DEF IInv
<1>4. /\ me.kind = "match" /\ me.i \in Track /\ me.pending = {}
      /\ me.read[me.i].decision \notin Decided /\ me.found.decision \notin Decided
  BY <1>1, <1>2, <1>3 DEF WorkerInv, KindKnown, ChoicesKnown
<1>5. PICK t \in Track : t = me.i
  BY <1>4
<1>6. PICK found \in Row : found = me.found
  BY DEF WorkerRecord
<1>7. PICK write \in {"pending", "failed"} \cup WriteDone : write = row[t].write
  BY DEF IInv, TypeOK, Row
<1>8. PICK new \in Row : new = [found EXCEPT !.write = write]
  BY DEF Row
<1>9. new.write = write /\ new.decision = found.decision
  BY <1>8 DEF Row
<1>10. /\ row' \in [Track -> Row] /\ \A s \in Track : s # t => row'[s] = row[s]
       /\ row'[t] = row[t] \/ row'[t] = new
       /\ status # "deleted" => row'[t] = new
  <2>1. CASE status = "deleted"
    BY <1>2, <2>1 DEF SetRow, IInv, TypeOK
  <2>2. CASE status # "deleted"
    <3>1. row' = [s \in Track |-> IF s \in {t} THEN new ELSE row[s]]
      BY <1>2, <1>5, <1>6, <1>7, <1>8, <2>2 DEF SetRow
    <3> QED
      BY <3>1 DEF IInv, TypeOK
  <2> QED
    BY <2>1, <2>2
<1>11. Fresh \in Row /\ Fresh.decision \notin Decided
  BY FreeIsTyped DEF Fresh, Decided
<1>12. PICK n \in WorkerRecord : n = [me EXCEPT !.at = "walk", !.i = t + 1, !.found = Fresh]
  <2>1. t + 1 \in 1..(NumTracks + 1)
    BY ImportsAssumption DEF Track
  <2> QED
    BY <1>11, <2>1 DEF WorkerRecord
<1>13. /\ n.at = "walk" /\ n.kind = me.kind /\ n.orphan = me.orphan /\ n.read = me.read
       /\ n.pending = me.pending /\ n.found = Fresh
  BY <1>12 DEF WorkerRecord
<1>14. OnlyMoves(w) /\ worker'[w] = n
  <2>1. worker' = [worker EXCEPT ![w] = n]
    BY <1>1, <1>2, <1>5, <1>12 DEF IInv, TypeOK
  <2> QED
    BY <1>1, <1>2, <1>13, <2>1, MovesTo DEF service, Active
<1>15. /\ OneThread' /\ status # "none"
       /\ \A v \in Worker \ {w} : ~Active(v) /\ WorkerInv(v)' /\ worker'[v] = worker[v]
  BY <1>14, OnlyMovesKeeps
<1>16. \A s \in Track : row'[s].write = row[s].write
  BY <1>7, <1>9, <1>10
<1>17. WorkerInv(w)'
  <2>1. Begins(w)' /\ KindKnown(w)' /\ TargetKnown(w)' /\ ExistingKnown(w)' /\ SettlesRows(w)'
    BY <1>4, <1>13, <1>14 DEF Begins, KindKnown, TargetKnown, ExistingKnown, SettlesRows
  <2>2. \A s \in Track : row'[s].decision \in Decided => me.read[s].decision \in Decided \/ s \in contested
    <3>1. \A s \in Track : row[s].decision \in Decided => me.read[s].decision \in Decided \/ s \in contested
      BY <1>1, <1>2, <1>3, <1>4 DEF WorkerInv, ChoicesKnown
    <3> QED
      BY <1>4, <1>5, <1>6, <1>9, <1>10, <3>1
  <2>3. ChoicesKnown(w)'
    BY <1>2, <1>11, <1>13, <1>14, <2>2 DEF ChoicesKnown
  <2> QED
    BY <2>1, <2>3 DEF WorkerInv
<1>18. CreatedKnown' /\ AddedOnce' /\ AddedIsThere'
  <2>1. \A v \in Worker : worker'[v].at = "store" <=> worker[v].at = "store"
    BY <1>1, <1>2, <1>13, <1>14, <1>15
  <2> QED
    BY <1>2, <1>15, <1>16, <2>1, QuietKeeps DEF provider
<1>19. DoneIsComplete'
  BY <1>2, <1>5, <1>10 DEF IInv, DoneIsComplete
<1>20. ChoicesKept'
  <2>1. row[t].decision \in Decided => t \in contested
    BY <1>1, <1>2, <1>3, <1>4, <1>5 DEF WorkerInv, ChoicesKnown
  <2> QED
    BY <1>2, <1>5, <2>1 DEF IInv, ChoicesKept
<1>21. TypeOK'
  <2>1. touched' \subseteq Track /\ overruled' \subseteq Track
    BY <1>2, <1>4 DEF IInv, TypeOK
  <2> QED
    BY <1>2, <1>10, <1>14, <2>1 DEF IInv, TypeOK, OnlyMoves, service, lock, provider, bounds
<1>22. \A v \in Worker : WorkerInv(v)'
  BY <1>15, <1>17
<1> QED
  BY <1>15, <1>18, <1>19, <1>20, <1>21, <1>22 DEF IInv

\* The provider adds what was gathered, or some of it: the worker has seen all that is there.
LEMMA AddKeeps == ASSUME IInv, NEW w \in Worker, Add(w) PROVE IInv'
<1>1. PICK me \in WorkerRecord : me = worker[w]
  BY DEF IInv, TypeOK
<1> DEFINE ids == Ids(me, me.pending)
<1>2. /\ me.at = "add"
      /\ UNCHANGED <<rows, service, lock, created, forgotten, put, touched, contested, overruled, requests>>
  BY <1>1 DEF Add
<1>3. WorkerInv(w)
  BY DEF IInv
<1>4. /\ me.kind = "create" /\ me.playlist \in Playlist
      /\ me.existing \cup me.landed \subseteq contents[me.playlist]
      /\ me.blind \/ contents[me.playlist] \subseteq me.existing \cup me.landed
      /\ me.landed = {} /\ \A t \in me.pending : me.read[t].id \in Id \ me.existing
  BY <1>1, <1>2, <1>3 DEF WorkerInv, KindKnown, TargetKnown, ExistingKnown
<1>5. ids \subseteq Id \ me.existing
  BY <1>4 DEF Ids
<1>6. PICK some \in SUBSET ids, landed \in SUBSET Id, blind \in BOOLEAN :
        /\ Added(w, some) /\ faults' \in 0..MaxFaults
        /\ worker' = [worker EXCEPT ![w] = [me EXCEPT !.at = "written", !.landed = landed, !.blind = blind]]
        /\ landed \subseteq some /\ (blind \/ landed = some) /\ (me.blind => blind)
  <2>1. CASE /\ Added(w, ids \ Refused) /\ UNCHANGED faults
             /\ worker' = [worker EXCEPT ![w].at = "written", ![w].landed = ids \ Refused]
    <3>1. [me EXCEPT !.at = "written", !.landed = ids \ Refused]
            = [me EXCEPT !.at = "written", !.landed = ids \ Refused, !.blind = me.blind]
      BY DEF WorkerRecord
    <3>2. worker' = [worker EXCEPT ![w] = [me EXCEPT !.at = "written", !.landed = ids \ Refused]]
      BY <2>1, <1>1 DEF IInv, TypeOK
    <3>3. ids \ Refused \in SUBSET ids /\ ids \ Refused \in SUBSET Id /\ me.blind \in BOOLEAN
      BY <1>5 DEF WorkerRecord
    <3> HIDE DEF ids
    <3> USE <3>3
    <3> WITNESS ids \ Refused \in SUBSET ids, ids \ Refused \in SUBSET Id, me.blind \in BOOLEAN
    <3> QED
      BY <2>1, <3>1, <3>2 DEF IInv, TypeOK
  <2>2. CASE /\ faults < MaxFaults /\ faults' = faults + 1
             /\ \E some \in SUBSET (ids \ Refused) : Added(w, some)
             /\ worker' = [worker EXCEPT ![w].at = "written", ![w].landed = {}, ![w].blind = TRUE]
    <3>1. PICK some \in SUBSET (ids \ Refused) : Added(w, some)
      BY <2>2
    <3>2. worker' = [worker EXCEPT ![w] = [me EXCEPT !.at = "written", !.landed = {}, !.blind = TRUE]]
      BY <2>2, <1>1 DEF IInv, TypeOK
    <3>3. faults' \in 0..MaxFaults
      BY <2>2, ImportsAssumption DEF IInv, TypeOK
    <3> HIDE DEF ids
    <3> WITNESS some \in SUBSET ids, {} \in SUBSET Id, TRUE \in BOOLEAN
    <3> QED
      BY <3>1, <3>2, <3>3
  <2> QED
    BY <1>1, <2>1, <2>2 DEF Add
<1> HIDE DEF ids
<1>7. PICK n \in WorkerRecord : n = [me EXCEPT !.at = "written", !.landed = landed, !.blind = blind]
  BY DEF WorkerRecord
<1>8. /\ n.at = "written" /\ n.kind = me.kind /\ n.orphan = me.orphan /\ n.playlist = me.playlist
      /\ n.pending = me.pending /\ n.i = me.i /\ n.existing = me.existing /\ n.landed = landed
      /\ n.read = me.read /\ n.found = me.found
  BY <1>7 DEF WorkerRecord
<1>9. n.blind <=> blind
  BY <1>7 DEF WorkerRecord
<1>10. OnlyMoves(w) /\ worker'[w] = n
  <2>1. worker' = [worker EXCEPT ![w] = n]
    BY <1>6, <1>7
  <2> QED
    BY <1>1, <1>2, <1>8, <2>1, MovesTo DEF service, Active
<1>11. /\ OneThread' /\ status # "none"
       /\ \A v \in Worker \ {w} : ~Active(v) /\ WorkerInv(v)' /\ worker'[v] = worker[v]
  BY <1>10, OnlyMovesKeeps
<1>12. contents \in [Playlist -> SUBSET Id]
  BY DEF IInv, TypeOK
<1>13. contents' = [contents EXCEPT ![me.playlist] = contents[me.playlist] \cup some]
  BY <1>1, <1>6 DEF Added
<1>14. /\ contents' \in [Playlist -> SUBSET Id] /\ contents'[me.playlist] = contents[me.playlist] \cup some
       /\ \A p \in Playlist : contents[p] \subseteq contents'[p]
  BY <1>4, <1>5, <1>6, <1>12, <1>13
<1>15. AddedOnce'
  <2>1. me.blind \/ some \cap contents[me.playlist] = {}
    BY <1>4, <1>5
  <2>2. again' = (again \/ (~me.blind /\ some \cap contents[me.playlist] # {}))
    BY <1>1, <1>6 DEF Added
  <2> QED
    BY <2>1, <2>2 DEF IInv, AddedOnce
<1>16. WorkerInv(w)'
  <2>1. Begins(w)' /\ KindKnown(w)' /\ TargetKnown(w)' /\ ChoicesKnown(w)'
    BY <1>4, <1>8, <1>10 DEF Begins, KindKnown, TargetKnown, ChoicesKnown
  <2>2. ExistingKnown(w)'
    BY <1>4, <1>6, <1>8, <1>9, <1>10, <1>14 DEF ExistingKnown
  <2>3. SettlesRows(w)'
    BY <1>1, <1>2, <1>3, <1>8, <1>10 DEF WorkerInv, SettlesRows, rows
  <2> QED
    BY <2>1, <2>2, <2>3 DEF WorkerInv
<1>17. AddedIsThere'
  <2>1. \A t \in Track : put[t] # <<>> => put[t][1] \in Playlist
    BY DEF IInv, TypeOK
  <2> QED
    BY <1>2, <1>14, <2>1 DEF IInv, AddedIsThere, rows
<1>18. CreatedKnown'
  <2>1. \A v \in Worker : worker'[v].at = "store" <=> worker[v].at = "store"
    BY <1>1, <1>2, <1>8, <1>10, <1>11
  <2> QED
    BY <1>2, <1>11, <2>1 DEF IInv, CreatedKnown, rows
<1>19. TypeOK'
  <2>1. again' \in BOOLEAN /\ late' \in 0..2
    <3>1. late \in 0..2 /\ again \in BOOLEAN
      BY DEF IInv, TypeOK
    <3>2. late' = IF status = "cancelled" /\ late < 2 THEN late + 1 ELSE late
      BY <1>6 DEF Added
    <3>3. again' \in BOOLEAN
      BY <1>6 DEF Added
    <3>4. late' \in 0..2
      BY <3>1, <3>2
    <3> QED
      BY <3>3, <3>4
  <2> QED
    BY <1>2, <1>6, <1>10, <1>14, <2>1 DEF IInv, TypeOK, OnlyMoves, rows, service, lock
<1>20. DoneIsComplete' /\ ChoicesKept'
  BY <1>2 DEF IInv, DoneIsComplete, ChoicesKept, rows
<1>21. \A v \in Worker : WorkerInv(v)'
  BY <1>11, <1>16
<1> QED
  BY <1>11, <1>15, <1>17, <1>18, <1>19, <1>20, <1>21 DEF IInv

\* What the call added, and what it did not, goes into the rows.
LEMMA WrittenKeeps == ASSUME IInv, NEW w \in Worker, Written(w) PROVE IInv'
<1>1. PICK me \in WorkerRecord : me = worker[w]
  BY DEF IInv, TypeOK
<1> DEFINE wrote == Wrote(me)
<1>2. /\ me.at = "written"
      /\ UNCHANGED <<status, phase, append, dest, service, lock, provider,
                     forgotten, again, touched, contested, overruled, late, bounds>>
  BY <1>1 DEF Written
<1>3. SetRow([t \in me.pending |-> [row[t] EXCEPT !.write = wrote[t]]])
  BY <1>1 DEF Written
<1>4. worker' = [worker EXCEPT
           ![w].at = IF me.halt # "no" THEN "halt" ELSE "walk",
           ![w].existing = @ \cup me.landed, ![w].pending = {}, ![w].landed = {},
           ![w].good = @ \/ \E t \in me.pending : wrote[t] # "failed",
           ![w].bad = @ \/ \E t \in me.pending : wrote[t] = "failed"]
  BY <1>1 DEF Written
<1>5. put' = [t \in Track |-> IF t \in me.pending /\ wrote[t] # "failed"
                                THEN <<me.playlist, me.read[t].id>> ELSE put[t]]
  BY <1>1 DEF Written
<1>6. WorkerInv(w)
  BY DEF IInv
<1>7. /\ me.kind = "create" /\ me.playlist \in Playlist
      /\ me.existing \cup me.landed \subseteq contents[me.playlist]
      /\ me.blind \/ contents[me.playlist] \subseteq me.existing \cup me.landed
      /\ \A t \in me.pending : me.read[t].id \in Id
      /\ me.pending \subseteq Track
  BY <1>1, <1>2, <1>6 DEF WorkerInv, KindKnown, TargetKnown, ExistingKnown, WorkerRecord
<1>8. \A t \in me.pending :
        /\ wrote[t] \in {"failed", "added", "already_present"}
        /\ wrote[t] # "failed" => me.read[t].id \in me.landed
  BY DEF Wrote
<1>9. PICK at \in {"halt", "walk"} : at = IF me.halt # "no" THEN "halt" ELSE "walk"
  OBVIOUS
<1>10. PICK good \in BOOLEAN, bad \in BOOLEAN :
        /\ good = (me.good \/ \E t \in me.pending : wrote[t] # "failed")
        /\ bad = (me.bad \/ \E t \in me.pending : wrote[t] = "failed")
  BY DEF WorkerRecord
<1> HIDE DEF wrote
<1>11. PICK n \in WorkerRecord :
        n = [me EXCEPT !.at = at, !.existing = me.existing \cup me.landed, !.pending = {}, !.landed = {},
                       !.good = good, !.bad = bad]
  BY DEF WorkerRecord
<1>12. /\ n.at = at /\ n.kind = me.kind /\ n.orphan = me.orphan /\ n.playlist = me.playlist
      /\ n.pending = {} /\ n.i = me.i /\ n.existing = me.existing \cup me.landed /\ n.landed = {}
      /\ n.read = me.read /\ n.found = me.found /\ n.blind = me.blind
  BY <1>11 DEF WorkerRecord
<1>13. OnlyMoves(w) /\ worker'[w] = n
  <2>1. worker' = [worker EXCEPT ![w] = n]
    <3>1. worker \in [Worker -> WorkerRecord]
      BY DEF IInv, TypeOK
    <3>2. worker' = [worker EXCEPT
           ![w].at = at, ![w].existing = @ \cup me.landed, ![w].pending = {}, ![w].landed = {},
           ![w].good = good, ![w].bad = bad]
      BY <1>1, <1>9, <1>10, <1>4, <3>1
    <3> QED
      BY <1>1, <1>11, <3>1, <3>2
  <2> QED
    BY <1>1, <1>2, <1>9, <1>12, <2>1, MovesTo DEF service, Active
<1>14. /\ OneThread' /\ status # "none"
       /\ \A v \in Worker \ {w} : ~Active(v) /\ WorkerInv(v)' /\ worker'[v] = worker[v]
  BY <1>13, OnlyMovesKeeps
<1>15. row \in [Track -> Row]
  BY DEF IInv, TypeOK
<1>16. ASSUME NEW t \in me.pending
       PROVE  /\ [row[t] EXCEPT !.write = wrote[t]] \in Row
              /\ [row[t] EXCEPT !.write = wrote[t]].write = wrote[t]
              /\ [row[t] EXCEPT !.write = wrote[t]].decision = row[t].decision
  <2>1. PICK old \in Row : old = row[t]
    BY <1>7, <1>15
  <2>2. PICK write \in {"failed", "added", "already_present"} : write = wrote[t]
    BY <1>8
  <2>3. PICK new \in Row : new = [old EXCEPT !.write = write]
    BY DEF Row, WriteDone
  <2>4. new.write = write /\ new.decision = old.decision
    BY <2>3 DEF Row
  <2> QED
    BY <2>1, <2>2, <2>3, <2>4
<1>17. /\ row' \in [Track -> Row]
       /\ \A t \in Track : row'[t] = row[t] \/ (t \in me.pending /\ row'[t].write = wrote[t])
       /\ \A t \in Track : row'[t].decision = row[t].decision
       /\ status # "deleted" => \A t \in me.pending : row'[t].write = wrote[t]
  <2>1. CASE status = "deleted"
    BY <1>3, <1>15, <2>1 DEF SetRow
  <2>2. CASE status # "deleted"
    <3>1. row' = [t \in Track |-> IF t \in me.pending THEN [row[t] EXCEPT !.write = wrote[t]] ELSE row[t]]
      BY <1>3, <2>2 DEF SetRow
    <3>2. \A t \in Track : row'[t] = IF t \in me.pending THEN [row[t] EXCEPT !.write = wrote[t]] ELSE row[t]
      BY <3>1
    <3>3. \A t \in Track : row'[t] \in Row
      BY <1>15, <1>16, <3>2
    <3>4. row' \in [Track -> Row]
      BY <3>1, <3>3
    <3> QED
      BY <1>7, <1>16, <3>2, <3>4
  <2> QED
    BY <2>1, <2>2
<1>18. \A t \in Track : row'[t].write = "pending" => row'[t] = row[t]
  BY <1>8, <1>17
<1>19. \A t \in Track : put'[t] = IF t \in me.pending /\ wrote[t] # "failed"
                                 THEN <<me.playlist, me.read[t].id>> ELSE put[t]
  BY <1>5
<1>20. put' \in [Track -> (Playlist \X Id) \cup {<<>>}]
  <2>1. put \in [Track -> (Playlist \X Id) \cup {<<>>}]
    BY DEF IInv, TypeOK
  <2>2. ASSUME NEW t \in Track PROVE put'[t] \in (Playlist \X Id) \cup {<<>>}
    <3>1. CASE t \in me.pending /\ wrote[t] # "failed"
      <4>1. PICK p \in Playlist, id \in Id : p = me.playlist /\ id = me.read[t].id
        BY <1>7, <3>1
      <4>2. put'[t] = <<p, id>>
        BY <1>19, <3>1, <4>1
      <4>3. <<p, id>> \in Playlist \X Id
        OBVIOUS
      <4> QED
        BY <4>2, <4>3
    <3>2. CASE ~(t \in me.pending /\ wrote[t] # "failed")
      BY <1>19, <2>1, <3>2
    <3> QED
      BY <3>1, <3>2
  <2>3. put' = [t \in Track |-> put'[t]]
    BY <1>5
  <2> QED
    BY <2>2, <2>3
<1>21. AddedIsThere'
  <2> SUFFICES ASSUME NEW t \in Track, row'[t].write \in {"added", "already_present"}
               PROVE  put'[t] # <<>> /\ put'[t][2] \in contents[put'[t][1]]
    BY <1>2 DEF AddedIsThere, provider
  <2>1. CASE t \in me.pending /\ wrote[t] # "failed"
    <3>1. put'[t] = <<me.playlist, me.read[t].id>>
      BY <1>19, <2>1
    <3>2. me.read[t].id \in contents[me.playlist]
      BY <1>7, <1>8, <2>1
    <3> QED
      BY <3>1, <3>2
  <2>2. CASE ~(t \in me.pending /\ wrote[t] # "failed")
    <3>1. put'[t] = put[t] /\ row'[t] = row[t]
      BY <1>17, <1>19, <2>2
    <3> QED
      BY <3>1 DEF IInv, AddedIsThere
  <2> QED
    BY <2>1, <2>2
<1>22. WorkerInv(w)'
  <2>1. Begins(w)' /\ KindKnown(w)' /\ TargetKnown(w)' /\ ChoicesKnown(w)'
    BY <1>7, <1>9, <1>12, <1>13 DEF Begins, KindKnown, TargetKnown, ChoicesKnown
  <2>2. ExistingKnown(w)'
    BY <1>2, <1>7, <1>12, <1>13 DEF ExistingKnown, provider
  <2>3. SettlesRows(w)'
    <3> SUFFICES ASSUME status # "deleted", NEW t \in Track
                 PROVE  /\ t < me.i => row'[t].write # "pending"
                        /\ me.read[t].write # "pending" => row'[t].write # "pending"
      BY <1>2, <1>9, <1>12, <1>13 DEF SettlesRows
    <3>1. /\ t < me.i => row[t].write # "pending" \/ t \in me.pending
          /\ me.read[t].write # "pending" => row[t].write # "pending"
      BY <1>1, <1>2, <1>6, <1>7 DEF WorkerInv, SettlesRows
    <3> QED
      BY <1>8, <1>17, <1>18, <3>1
  <2> QED
    BY <2>1, <2>2, <2>3 DEF WorkerInv
<1>23. CreatedKnown' /\ AddedOnce'
  <2>1. \A v \in Worker : worker'[v].at = "store" <=> worker[v].at = "store"
    BY <1>1, <1>2, <1>9, <1>12, <1>13, <1>14
  <2> QED
    BY <1>2, <1>14, <2>1 DEF IInv, CreatedKnown, AddedOnce, provider
<1>24. DoneIsComplete' /\ ChoicesKept'
  BY <1>2, <1>18 DEF IInv, DoneIsComplete, ChoicesKept
<1>25. TypeOK'
  <2>1. UNCHANGED <<status, phase, append, dest, service, lock, provider,
                    forgotten, again, touched, contested, overruled, late, bounds>>
    BY <1>2
  <2> QED
    BY <1>13, <1>17, <1>20, <2>1 DEF IInv, TypeOK, OnlyMoves, service, lock, provider, bounds
<1>26. \A v \in Worker : WorkerInv(v)'
  BY <1>14, <1>22
<1> QED
  BY <1>14, <1>21, <1>23, <1>24, <1>25, <1>26 DEF IInv

\* A halted thread says so.
LEMMA HaltKeeps == ASSUME IInv, NEW w \in Worker, Halt(w) PROVE IInv'
<1>1. PICK me \in WorkerRecord : me = worker[w]
  BY DEF IInv, TypeOK
<1>2. /\ me.at = "halt" /\ SetStatus(IF me.halt = "cancel" THEN "cancelled" ELSE "paused")
      /\ phase' = IF me.halt = "pause" THEN me.kind ELSE phase
      /\ worker' = [worker EXCEPT ![w] = Over(me, "ended")]
      /\ UNCHANGED <<append, dest, row, service, lock, provider, history, bounds>>
  BY <1>1 DEF Halt
<1>3. /\ Over(me, "ended") \in WorkerRecord
      /\ Over(me, "ended").at = "ended" /\ Over(me, "ended").kind = me.kind
      /\ Over(me, "ended").orphan = me.orphan /\ Over(me, "ended").pending = {}
      /\ Over(me, "ended").found = Fresh
  BY OverIsTyped
<1>4. OnlyMoves(w) /\ worker'[w] = Over(me, "ended")
  BY <1>1, <1>2, <1>3, MovesTo DEF service, Active
<1>5. WorkerInv(w)'
  BY <1>3, <1>4, EndingIsFine
<1>6. status # "none"
  BY <1>4, OnlyMovesKeeps
<1>7. status' = status \/ status' \in {"cancelled", "paused"}
  BY <1>2 DEF SetStatus
<1>8. status' # "deleted" => status # "deleted"
  BY <1>2 DEF SetStatus
<1>9. phase' \in {"none", "match", "create"}
  BY <1>2 DEF IInv, TypeOK, WorkerRecord
<1>10. DoneIsComplete'
  BY <1>2, <1>7 DEF IInv, DoneIsComplete, history
<1> QED
  BY <1>1, <1>2, <1>3, <1>4, <1>5, <1>6, <1>7, <1>8, <1>9, <1>10, UnseenKeeps
  DEF IInv, TypeOK, history, bounds

\* A last look at the control entry.
LEMMA CheckKeeps == ASSUME IInv, NEW w \in Worker, Check(w) PROVE IInv'
<1>1. PICK me \in WorkerRecord : me = worker[w]
  BY DEF IInv, TypeOK
<1>2. /\ me.at = "check" /\ UNCHANGED <<rows, service, lock, provider, history, bounds>>
      /\ worker' = [worker EXCEPT ![w] =
           IF me.kind = "create" /\ me.bad /\ ~me.good THEN Over(me, "raised")
           ELSE IF me.kind = "create" THEN Over(me, IF control = "cancel" THEN "ended" ELSE "finish")
           ELSE IF control \in {"cancel", "pause"} THEN [Over(me, "halt") EXCEPT !.halt = control]
           ELSE Over(me, "finish")]
  BY <1>1 DEF Check
<1>3. \A at \in {"halt", "finish", "ended", "raised"} :
        /\ Over(me, at) \in WorkerRecord
        /\ Over(me, at).at = at /\ Over(me, at).kind = me.kind /\ Over(me, at).orphan = me.orphan
        /\ Over(me, at).pending = {} /\ Over(me, at).found = Fresh
  BY OverIsTyped
<1>4. PICK n \in WorkerRecord :
        /\ worker' = [worker EXCEPT ![w] = n]
        /\ n.at \in {"halt", "finish", "ended", "raised"} /\ n.kind = me.kind /\ n.orphan = me.orphan
        /\ n.pending = {} /\ n.found = Fresh
  <2>1. CASE me.kind = "create" /\ me.bad /\ ~me.good
    BY <1>2, <1>3, <2>1
  <2>2. CASE ~(me.kind = "create" /\ me.bad /\ ~me.good) /\ me.kind = "create"
    BY <1>2, <1>3, <2>2
  <2>3. CASE me.kind # "create" /\ control \in {"cancel", "pause"}
    <3>1. PICK f \in WorkerRecord : f = Over(me, "halt")
      BY <1>3
    <3>2. PICK n \in WorkerRecord : n = [f EXCEPT !.halt = control]
      BY <2>3 DEF WorkerRecord
    <3>3. n.at = f.at /\ n.kind = f.kind /\ n.orphan = f.orphan /\ n.pending = f.pending /\ n.found = f.found
      BY <3>2 DEF WorkerRecord
    <3>4. worker' = [worker EXCEPT ![w] = n]
      BY <1>2, <2>3, <3>1, <3>2
    <3> QED
      BY <1>3, <3>1, <3>3, <3>4
  <2>4. CASE me.kind # "create" /\ control \notin {"cancel", "pause"}
    BY <1>2, <1>3, <2>4
  <2> QED
    BY <2>1, <2>2, <2>3, <2>4
<1>5. OnlyMoves(w) /\ worker'[w] = n
  BY <1>1, <1>2, <1>4, MovesTo DEF service, Active
<1>6. WorkerInv(w)'
  <2>1. Begins(w)' /\ KindKnown(w)' /\ TargetKnown(w)' /\ ExistingKnown(w)'
    BY <1>4, <1>5 DEF Begins, KindKnown, TargetKnown, ExistingKnown
  <2>2. SettlesRows(w)'
    BY <1>1, <1>2, <1>4, <1>5 DEF IInv, WorkerInv, SettlesRows, rows
  <2>3. ChoicesKnown(w)'
    BY <1>4, <1>5 DEF ChoicesKnown, Fresh, Decided
  <2> QED
    BY <2>1, <2>2, <2>3 DEF WorkerInv
<1> QED
  BY <1>1, <1>2, <1>4, <1>5, <1>6, LocalKeeps DEF bounds, IInv, TypeOK

\* A thread that finishes has left no row pending, if it was to write them.
LEMMA FinishKeeps == ASSUME IInv, NEW w \in Worker, Finish(w) PROVE IInv'
<1>1. PICK me \in WorkerRecord : me = worker[w]
  BY DEF IInv, TypeOK
<1>2. /\ me.at = "finish" /\ SetStatus(IF me.kind = "match" THEN "ready" ELSE "done")
      /\ touched' = IF me.kind = "create" THEN {} ELSE touched
      /\ worker' = [worker EXCEPT ![w] = Over(me, "ended")]
      /\ UNCHANGED <<phase, append, dest, row, service, lock, provider,
                     forgotten, again, put, contested, overruled, late, bounds>>
  BY <1>1 DEF Finish, IInv, TypeOK
<1>3. /\ Over(me, "ended") \in WorkerRecord
      /\ Over(me, "ended").at = "ended" /\ Over(me, "ended").kind = me.kind
      /\ Over(me, "ended").orphan = me.orphan /\ Over(me, "ended").pending = {}
      /\ Over(me, "ended").found = Fresh
  BY OverIsTyped
<1>4. OnlyMoves(w) /\ worker'[w] = Over(me, "ended")
  BY <1>1, <1>2, <1>3, MovesTo DEF service, Active
<1>5. WorkerInv(w)'
  BY <1>3, <1>4, EndingIsFine
<1>6. status # "none"
  BY <1>4, OnlyMovesKeeps
<1>7. status' = status \/ status' \in {"ready", "done"}
  BY <1>2 DEF SetStatus
<1>8. status' # "deleted" => status # "deleted"
  BY <1>2 DEF SetStatus
<1>9. DoneIsComplete'
  <2>1. CASE me.kind = "match"
    BY <1>2, <2>1 DEF IInv, DoneIsComplete, SetStatus
  <2>2. CASE me.kind # "match"
    <3>1. me.kind = "create"
      BY <2>2 DEF WorkerRecord
    <3>2. status # "deleted" => \A t \in Track : row[t].write # "pending"
      BY <1>1, <1>2, <3>1 DEF IInv, WorkerInv, SettlesRows
    <3> QED
      BY <1>2, <1>8, <3>2 DEF DoneIsComplete
  <2> QED
    BY <2>1, <2>2
<1> QED
  BY <1>1, <1>2, <1>3, <1>4, <1>5, <1>6, <1>7, <1>8, <1>9, UnseenKeeps
  DEF IInv, TypeOK, bounds

\* An exception out of the thread: a playlist whose id was not stored is lost.
LEMMA FailKeeps == ASSUME IInv, NEW w \in Worker, Fail(w) PROVE IInv'
<1>1. PICK me \in WorkerRecord : me = worker[w]
  BY DEF IInv, TypeOK
<1>2. /\ me.at \in {"open", "walk", "store"} /\ faults < MaxFaults /\ faults' = faults + 1
      /\ worker' = [worker EXCEPT ![w] = Over(me, "raised")]
      /\ forgotten' = IF me.at = "store" THEN forgotten + 1 ELSE forgotten
      /\ UNCHANGED <<rows, service, lock, provider, again, put, touched, contested, overruled, late,
                     requests>>
  BY <1>1 DEF Fail, IInv, TypeOK
<1>3. /\ Over(me, "raised") \in WorkerRecord
      /\ Over(me, "raised").at = "raised" /\ Over(me, "raised").kind = me.kind
      /\ Over(me, "raised").orphan = me.orphan /\ Over(me, "raised").pending = {}
      /\ Over(me, "raised").found = Fresh
  BY OverIsTyped
<1>4. OnlyMoves(w) /\ worker'[w] = Over(me, "raised")
  BY <1>1, <1>2, <1>3, MovesTo DEF service, Active
<1>5. WorkerInv(w)'
  BY <1>3, <1>4, EndingIsFine
<1>6. faults' \in 0..MaxFaults
  BY <1>2, ImportsAssumption DEF IInv, TypeOK
<1>7. CASE me.at # "store"
  BY <1>1, <1>2, <1>3, <1>4, <1>5, <1>6, <1>7, LocalKeeps DEF history
<1>8. CASE me.at = "store"
  <2>1. /\ OneThread' /\ status # "none"
        /\ \A v \in Worker \ {w} : ~Active(v) /\ WorkerInv(v)' /\ worker'[v] = worker[v]
    BY <1>4, OnlyMovesKeeps
  <2>2. forgotten \in Nat /\ created \in Nat /\ forgotten' = forgotten + 1
    BY <1>2, <1>8, ImportsAssumption DEF IInv, TypeOK
  <2>3. created <= forgotten' /\ created <= 1 + forgotten'
    BY <2>2 DEF IInv, CreatedKnown
  <2>4. CreatedKnown'
    BY <1>2, <2>1, <2>3 DEF CreatedKnown, provider, rows
  <2>5. TypeOK'
    BY <1>2, <1>4, <1>6, <2>2 DEF IInv, TypeOK, OnlyMoves, rows, service, lock, provider
  <2>6. AddedOnce' /\ AddedIsThere' /\ DoneIsComplete' /\ ChoicesKept'
    BY <1>2 DEF IInv, AddedOnce, AddedIsThere, DoneIsComplete, ChoicesKept, rows, provider
  <2>7. \A v \in Worker : WorkerInv(v)'
    BY <1>5, <2>1
  <2> QED
    BY <2>1, <2>4, <2>5, <2>6, <2>7 DEF IInv
<1> QED
  BY <1>7, <1>8

\* The task is over and leaves the lock, unless it outlived the event loop.
LEMMA ConcludeKeeps == ASSUME IInv, NEW w \in Worker, Conclude(w) PROVE IInv'
<1>1. /\ worker[w].at \in {"ended", "raised"} /\ Active(w)
      /\ worker' = [worker EXCEPT ![w] = Free]
      /\ UNCHANGED <<phase, append, dest, row, deleting, closing, provider, history, bounds>>
  BY DEF Conclude, Active
<1>2. /\ worker' \in [Worker -> WorkerRecord] /\ worker'[w] = Free
      /\ \A v \in Worker : v # w => worker'[v] = worker[v]
  BY <1>1, FreeIsTyped DEF IInv, TypeOK
<1>3. \A v \in Worker : v # w => ~Active(v)
  BY <1>1 DEF IInv, OneThread
<1>4. \/ worker[w].orphan /\ UNCHANGED <<status, control, current, lock>>
      \/ /\ ~worker[w].orphan /\ status' = Failed(w) /\ control' = "absent" /\ current' = NoOne
         /\ holder' = NoOne /\ queue' = queue
  BY DEF Conclude, Slot!Release
<1>5. /\ status' = status \/ (status' = "failed" /\ status # "deleted")
      /\ queue' = queue /\ holder' \in {holder, NoOne}
      /\ current' \in {current, NoOne} /\ control' \in {control, "absent"}
  BY <1>4 DEF Failed, lock
<1>6. status # "none"
  BY <1>1 DEF IInv, CreatedKnown
<1>7. OneThread'
  <2>1. \A v \in Worker : ~Active(v)'
    BY <1>2, <1>3, FreeIsTyped DEF Active
  <2>2. \A v \in Worker : worker'[v].orphan => closing'
    BY <1>1, <1>2, FreeIsTyped DEF IInv, OneThread
  <2>3. closing' => /\ holder' = NoOne /\ queue' = <<>>
                    /\ \A v \in Worker : worker'[v].at # "queued"
    BY <1>1, <1>2, <1>5, FreeIsTyped DEF IInv, OneThread
  <2> QED
    BY <2>1, <2>2, <2>3 DEF OneThread
<1>8. \A v \in Worker : WorkerInv(v)'
  BY <1>2, <1>3, FreeWorker, OutsideKeeps DEF IInv
<1>9. CreatedKnown' /\ AddedOnce' /\ AddedIsThere'
  <2>1. \A v \in Worker : worker'[v].at = "store" <=> worker[v].at = "store"
    BY <1>1, <1>2, FreeIsTyped
  <2> QED
    BY <1>1, <1>5, <1>6, <2>1, QuietKeeps DEF provider, history
<1>10. TypeOK'
  BY <1>1, <1>2, <1>5 DEF IInv, TypeOK, provider, history, bounds
<1>11. DoneIsComplete' /\ ChoicesKept'
  BY <1>1, <1>5 DEF IInv, DoneIsComplete, ChoicesKept, history
<1> QED
  BY <1>7, <1>8, <1>9, <1>10, <1>11 DEF IInv

-----------------------------------------------------------------------------
(* The theorems.                                                           *)

\* At the start nothing was written, and nobody works.
LEMMA InitIsFine == Init => IInv
<1> SUFFICES ASSUME Init PROVE IInv
  OBVIOUS
<1>1. \A w \in Worker : worker[w] = Free
  BY DEF Init
<1>2. TypeOK
  <2>1. worker \in [Worker -> WorkerRecord] /\ row \in [Track -> Row]
    BY FreeIsTyped DEF Init
  <2>2. queue \in Seq(Worker \cup {Sync})
    BY DEF Init
  <2>3. contents \in [Playlist -> SUBSET Id]
    BY DEF Init
  <2>4. created \in 0..MaxPlaylists /\ requests \in 0..MaxRequests /\ faults \in 0..MaxFaults
    BY ImportsAssumption DEF Init
  <2>5. put \in [Track -> (Playlist \X Id) \cup {<<>>}]
    BY DEF Init
  <2>6. dest \in Playlist \cup {NoPlaylist} /\ current \in Worker \cup {NoOne}
        /\ holder \in Worker \cup {Sync, NoOne} /\ control = "absent" /\ status = "none"
        /\ phase = "none" /\ append = FALSE /\ deleting = FALSE /\ closing = FALSE /\ again = FALSE
    BY DEF Init
  <2>7. forgotten \in Nat /\ late \in 0..2 /\ touched = {} /\ contested = {} /\ overruled = {}
    BY DEF Init
  <2> QED
    BY <2>1, <2>2, <2>3, <2>4, <2>5, <2>6, <2>7 DEF TypeOK, Busy
<1>3. OneThread
  BY <1>1, FreeIsTyped DEF Init, OneThread, Active
<1>4. CreatedKnown
  <2>1. queue \in Seq({Sync})
    BY DEF Init
  <2> QED
    BY <1>1, <2>1, FreeIsTyped DEF Init, CreatedKnown
<1>5. AddedOnce /\ AddedIsThere /\ DoneIsComplete /\ ChoicesKept
  BY DEF Init, AddedOnce, AddedIsThere, DoneIsComplete, ChoicesKept, Fresh
<1>6. ASSUME NEW w \in Worker PROVE WorkerInv(w)
  <2>1. /\ worker[w].at = "free" /\ worker[w].kind = "match" /\ worker[w].i = 1
        /\ worker[w].existing = {} /\ worker[w].pending = {} /\ worker[w].landed = {}
        /\ worker[w].found.decision \notin Decided
    BY <1>1, FreeIsTyped DEF Fresh, Decided
  <2> QED
    BY <2>1 DEF WorkerInv, Begins, KindKnown, TargetKnown, ExistingKnown, SettlesRows, ChoicesKnown
<1> QED
  BY <1>2, <1>3, <1>4, <1>5, <1>6 DEF IInv

\* Every step of people, threads, the lock, the event loop and the process keeps the invariant.
LEMMA StepKeeps == IInv /\ [Next]_vars => IInv'
<1> SUFFICES ASSUME IInv, [Next]_vars PROVE IInv'
  OBVIOUS
<1>1. CASE People
  BY <1>1, SubmitKeeps, AgainKeeps, ButtonKeeps, DecideKeeps, RetargetKeeps DEF People
<1>2. CASE DeleteRows \/ Grant \/ SyncAsks \/ SyncEnds \/ LoopEnds \/ Restart
  BY <1>2, ButtonKeeps, GrantKeeps, SyncKeeps, LoopEndsKeeps, RestartKeeps
<1>3. ASSUME NEW w \in Worker, Thread(w) \/ Fail(w) PROVE IInv'
  BY <1>3, OpenKeeps, StoreKeeps, ReadExistingKeeps, WalkKeeps, SaveKeeps, AddKeeps, WrittenKeeps,
     HaltKeeps, CheckKeeps, FinishKeeps, ConcludeKeeps, FailKeeps DEF Thread
<1>4. CASE UNCHANGED vars
  <2>1. UNCHANGED <<rows, service, worker, lock, provider, history, bounds>>
    BY <1>4 DEF vars
  <2>2. \A w \in Worker : Aside(w)
    BY <2>1, SameRowsAside DEF rows, provider, history
  <2>3. OneThread' /\ \A w \in Worker : WorkerInv(w)'
    BY <2>1, <2>2, NobodyMoves DEF service
  <2>4. CreatedKnown' /\ AddedOnce' /\ AddedIsThere' /\ DoneIsComplete' /\ ChoicesKept'
    BY <2>1 DEF IInv, CreatedKnown, AddedOnce, AddedIsThere, DoneIsComplete, ChoicesKept,
                rows, lock, provider, history
  <2>5. TypeOK'
    BY <2>1 DEF IInv, TypeOK, rows, service, lock, provider, history, bounds
  <2> QED
    BY <2>3, <2>4, <2>5 DEF IInv
<1> QED
  BY <1>1, <1>2, <1>3, <1>4 DEF Next

\* The invariant holds of every import.
LEMMA InvHolds == Spec => []IInv
<1>1. Init => IInv
  BY InitIsFine
<1>2. IInv /\ [Next]_vars => IInv'
  BY StepKeeps
<1> QED
  BY <1>1, <1>2, PTL DEF Spec

\* However an import is paused, failed, restarted or outlives the event loop, it creates one
\* playlist, and no worker adds an id to a playlist it has read that id on.
THEOREM WritesOnceHolds == Spec => []WritesOnce
<1>1. IInv => WritesOnce
  BY DEF IInv, WritesOnce, CreatedKnown, OnePlaylist
<1> QED
  BY <1>1, InvHolds, PTL

\* Tracks called added or present are on the playlist they were written to, and an import that is
\* called done left no track unwritten that was to be written.
THEOREM RowsAreTrueHolds == Spec => []RowsAreTrue
<1>1. IInv => RowsAreTrue
  BY DEF IInv, RowsAreTrue
<1> QED
  BY <1>1, InvHolds, PTL

\* A match replaces a choice of people only if it was made while matching was under way.
THEOREM ChoicesKeptHolds == Spec => []ChoicesKept
<1>1. IInv => ChoicesKept
  BY DEF IInv
<1> QED
  BY <1>1, InvHolds, PTL
=============================================================================
