----------------------------- MODULE TargetWrites -----------------------------
(***************************************************************************)
(* How the provider clients of engine/targets write a playlist: add (and   *)
(* add_chronology_copies) appends ids one request at a time, because the   *)
(* order of the requests is the date-added order of the destination, and   *)
(* remove_occurrences drops the flagged copies of a song and keeps the     *)
(* others.  What differs between the clients is what they do when a        *)
(* request is throttled, loses its answer, meets an expired token or names *)
(* a track the provider cannot take.                                       *)
(*                                                                         *)
(* One client at work; a person may edit the playlist at any moment.  The  *)
(* provider itself is external: a request it accepts is applied, one whose *)
(* answer is lost may have been.                                           *)
(***************************************************************************)
EXTENDS Integers, Sequences, FiniteSets, SequencesExt, Subsequence

CONSTANTS
  Target,     \* the clients of this instance
  Id,         \* catalog ids
  Gone,       \* ids the provider no longer takes
  NewId,      \* [Id -> Id]: what a fresh search finds for an id
  MaxTries,   \* bound on the transmissions of one request (the code's are 1..6)
  MaxFaults, MaxEdits, MaxCalls, MaxLen   \* bounds on faults, edits, calls, copies

ASSUME IdAssumption == /\ Gone \subseteq Id /\ Id # {}
                       /\ NewId \in [Id -> Id]
ASSUME BoundAssumption == {MaxTries, MaxFaults, MaxEdits, MaxCalls, MaxLen} \subseteq Nat

VARIABLES
  target,   \* the client, frozen
  list,     \* the playlist: entries [id, mark]
  alias,    \* Apple: the id last written for a requested one (_added_catalog_ids)
  call,     \* the call in progress
  landed,   \* requests of the call the provider has applied
  seen,     \* ids the playlist has held since the call began
  taken,    \* ids of which a person removed a copy since then
  kept,     \* unflagged copies of each id the call must leave
  faults, edits, calls   \* what is left of the bounds

vars == <<target, list, alias, call, landed, seen, taken, kept, faults, edits, calls>>

(* How a client sends a request: at most so many times, again when it is   *)
(* throttled, after one renewal of an expired token, and when the answer   *)
(* is lost.  Apple looks before it sends again.                            *)
Client(sends, waits, renews, resends) ==
  [sends |-> sends, waits |-> waits, renews |-> renews, resends |-> resends]

AppleClient == Client(6, TRUE, FALSE, FALSE)
YouTubeClient == Client(5, TRUE, FALSE, FALSE)
YouTubeBrowserClient == Client(1, FALSE, FALSE, FALSE)
DeezerClient == Client(4, TRUE, FALSE, FALSE)
DeezerWebClient == Client(2, TRUE, TRUE, TRUE)
QobuzClient == Client(4, TRUE, FALSE, FALSE)
TidalClient == Client(5, TRUE, TRUE, FALSE)
AmazonClient == Client(5, TRUE, TRUE, FALSE)
AmazonWebClient == Client(2, FALSE, TRUE, FALSE)
SpotifyClient == Client(5, FALSE, FALSE, TRUE)
SpotifyCookieClient == Client(3, FALSE, TRUE, FALSE)

Clients == [apple |-> AppleClient, youtube |-> YouTubeClient, youtubei |-> YouTubeBrowserClient,
            deezer |-> DeezerClient, deezerweb |-> DeezerWebClient, qobuz |-> QobuzClient,
            tidal |-> TidalClient, amazon |-> AmazonClient, amazonweb |-> AmazonWebClient,
            spotify |-> SpotifyClient, cookie |-> SpotifyCookieClient]
ASSUME TargetAssumption == Target \subseteq DOMAIN Clients
Self == Clients[target]
(* The clients that send a write again when its answer is lost.            *)
Resending == {t \in DOMAIN Clients : Clients[t].resends}
(* Those whose plain add asks the provider to refuse duplicates.           *)
Suppressing == {"qobuz", "amazon", "amazonweb"}
Deezers == {"deezer", "deezerweb"}
Entrywise == {"youtube", "youtubei", "qobuz", "tidal", "amazon", "amazonweb"}

(* An entry's mark: 0 it was there, -1 it is flagged for removal, -2 a     *)
(* person added it, n > 0 the n-th request of the call added it.           *)
Entry == [id : Id, mark : Int]
Copies(l, i) == Cardinality({k \in DOMAIN l : l[k].id = i})
Ids(l) == {l[k].id : k \in DOMAIN l}

(* Requests: put appends an id, cut removes one flagged entry by its entry *)
(* id, sweep all flagged entries at once, wipe every copy of an id; nth is *)
(* the place of the request in its call's plan.                            *)
Request == [do : {"put", "cut", "sweep", "wipe"}, id : Id, nth : Nat]
NoCopies == [i \in Id |-> 0]
Idle == [kind |-> "add", plan |-> <<>>, todo |-> <<>>, id |-> CHOOSE i \in Id : TRUE,
         phase |-> "idle", tries |-> 0, checks |-> 0, renewed |-> FALSE, fixed |-> FALSE,
         bad |-> FALSE, base |-> 0, before |-> 0, counts |-> NoCopies, keep |-> NoCopies, size |-> 0,
         ok |-> {}, unrestored |-> {}, givenup |-> {}, result |-> "none"]
WriteCall == [kind : {"add", "copies", "drop"}, plan : Seq(Request), todo : Seq(Request), id : Id,
         phase : {"idle", "send", "verify"}, tries : Nat, checks : 0..2, renewed : BOOLEAN,
         fixed : BOOLEAN, bad : BOOLEAN, base : Nat, before : Nat, counts : [Id -> Nat],
         keep : [Id -> Nat], size : Nat, ok : SUBSET (Nat \X Id), unrestored : SUBSET Id,
         givenup : SUBSET Id, result : {"none", "done", "raised"}]

TypeOK ==
  /\ target \in Target
  /\ list \in Seq(Entry)
  /\ alias \in [Id -> Id]
  /\ call \in WriteCall
  /\ (call.phase = "verify") => target = "apple"
  /\ landed \subseteq Nat /\ seen \subseteq Id /\ taken \subseteq Id
  /\ kept \in [Id -> Nat]
  /\ {faults, edits, calls} \subseteq Nat

Init ==
  /\ target \in Target
  /\ list \in UNION {[1..n -> [id : Id \ Gone, mark : {0}]] : n \in 0..2}
  /\ alias = [i \in Id |-> i]
  /\ call = Idle
  /\ landed = {} /\ seen = {} /\ taken = {}
  /\ kept = NoCopies
  /\ faults = MaxFaults /\ edits = MaxEdits /\ calls = MaxCalls

------------------------------------------------------------------------------
(* The start of a call.                                                    *)

Put(i) == [do |-> "put", id |-> i]
Puts(ids) == [k \in DOMAIN ids |-> Put(ids[k])]

(* The head of todo becomes the current request.  Apple asks under the id  *)
(* it last wrote for this one (in written), and expects one copy more than *)
(* this call has confirmed.                                                *)
Current(c, todo, written) ==
  LET i == IF target = "apple" THEN written[Head(todo).id] ELSE Head(todo).id
  IN [c EXCEPT !.todo = todo, !.id = i, !.phase = "send", !.tries = 0, !.checks = 0,
               !.renewed = FALSE, !.fixed = FALSE, !.bad = FALSE,
               !.base = c.counts[i], !.before = c.counts[i]]

Begin(kind, steps, keep, l) ==
  LET plan == [k \in DOMAIN steps |-> [do |-> steps[k].do, id |-> steps[k].id, nth |-> k]] IN
  /\ call.phase = "idle" /\ calls > 0 /\ calls' = calls - 1
  /\ list' = l
  /\ call' = Current([Idle EXCEPT !.kind = kind, !.plan = plan, !.keep = keep, !.size = Len(l)],
                      plan, alias)
  /\ landed' = {} /\ seen' = Ids(l) /\ taken' = {}
  /\ UNCHANGED <<target, alias, faults, edits>>

(* The marks of an earlier call mean nothing to the next one.              *)
Plain == [k \in DOMAIN list |-> [list[k] EXCEPT !.mark = 0]]

(* add: ids in order; a chronology repair appends temporary copies of ids  *)
(* the playlist already has.                                               *)
Add(ids) ==
  /\ Begin("add", Puts(ids), NoCopies, Plain)
  /\ kept' = [i \in Id |-> Copies(list, i)]

AddCopies(ids) ==
  /\ \A k \in DOMAIN ids : ids[k] \in Ids(list)
  /\ Begin("copies", Puts(ids), NoCopies, Plain)
  /\ kept' = [i \in Id |-> Copies(list, i)]

(* Deezer deletes every copy of an id, then appends the ones to keep; the  *)
(* others take entry by entry, or Spotify all entries in one request.      *)
RemovalPlan(F) ==
  LET one == list[CHOOSE k \in F : TRUE].id
      ids == SetToSeq({list[k].id : k \in F})
  IN CASE target \in Deezers -> [n \in DOMAIN ids |-> [do |-> "wipe", id |-> ids[n]]]
       [] target \in Entrywise -> [n \in 1..Cardinality(F) |-> [do |-> "cut", id |-> one]]
       [] OTHER -> <<[do |-> "sweep", id |-> one]>>

(* Mutant: one copy too few is appended again.                             *)
UnflaggedButOne(F) ==
  [i \in Id |-> LET n == Cardinality({k \in DOMAIN list \ F : list[k].id = i})
                IN IF n = 0 THEN 0 ELSE n - 1]

(* The copies of each id that are not flagged.                             *)
Unflagged(F) == [i \in Id |-> Cardinality({k \in DOMAIN list \ F : list[k].id = i})]

(* remove_occurrences of the flagged entries F.  Apple's is Mirror's.      *)
Drop(F) ==
  /\ target # "apple" /\ F # {}
  /\ Begin("drop", RemovalPlan(F), Unflagged(F),
           [k \in DOMAIN list |-> [list[k] EXCEPT !.mark = IF k \in F THEN -1 ELSE 0]])
  /\ kept' = [i \in Id |-> Cardinality({k \in DOMAIN list \ F : list[k].id = i})]

------------------------------------------------------------------------------
(* The answers.                                                            *)

req == Head(call.todo)
Sending == call.phase = "send"
Refuses == req.do = "put" /\ call.id \in Gone

Flagged == {k \in DOMAIN list : list[k].mark = -1}

(* What an applied request leaves.  A plain add of a suppressing client is *)
(* acknowledged without effect when the playlist has the id.               *)
Effect ==
  CASE req.do = "put" ->
         IF call.kind = "add" /\ target \in Suppressing /\ call.id \in Ids(list)
         THEN list ELSE Append(list, [id |-> call.id, mark |-> req.nth])
    [] req.do = "cut" -> IF Flagged = {} THEN list
                         ELSE RemoveAt(list, CHOOSE k \in Flagged : \A m \in Flagged : k <= m)
    [] req.do = "sweep" -> Kept(list, {e \in ToSet(list) : e.mark # -1})
    [] req.do = "wipe" -> Kept(list, {e \in ToSet(list) : e.id # req.id})

Apply ==
  /\ list' = Effect
  /\ landed' = IF Effect # list /\ req.do = "put" THEN landed \cup {req.nth} ELSE landed
  /\ seen' = seen \cup Ids(Effect)

(* The call ends: raised, or done when nothing is left to ask.             *)
Stop(c) == call' = [c EXCEPT !.phase = "idle", !.todo = <<>>, !.result = "raised"]
Proceed(c, written) ==
  IF Len(c.todo) > 1 THEN call' = Current(c, Tail(c.todo), written)
  ELSE call' = [c EXCEPT !.phase = "idle", !.todo = <<>>,
                         !.result = IF c.unrestored # {} THEN "raised" ELSE "done"]

(* Apple remembers the id it wrote for the one asked for.                  *)
Written == IF target = "apple" THEN [alias EXCEPT ![req.id] = call.id] ELSE alias

(* What an answer teaches: an id written (Apple counts it under the id it  *)
(* got, from the count of the id asked for), or the copies of a deleted    *)
(* id to append again.                                                     *)
Confirm(c) == [c EXCEPT !.ok = @ \cup {<<req.nth, c.id>>}, !.counts[c.id] = c.base + 1]
Restore(c) ==
  LET puts == [k \in 1..c.keep[req.id] |->
                 [do |-> "put", id |-> req.id, nth |-> Len(c.plan) + k]]
  IN [c EXCEPT !.plan = @ \o puts, !.todo = <<req>> \o puts \o Tail(@)]
Answered(c) == CASE req.do = "put" -> Confirm(c)
                 [] req.do = "wipe" -> Restore(c)
                 [] OTHER -> c

(* Nothing more is asked of the present id.                                *)
Leave(c) == [c EXCEPT !.todo = <<req>> \o Kept(Tail(@), {q \in ToSet(@) : q.id # req.id})]

(* An error that is no transport error ends a call, but Deezer's           *)
(* remove_occurrences takes it for a refusal: of the removal, then it      *)
(* leaves the id alone, or of a keeper, then it remembers the id.          *)
GiveUp(c) ==
  IF target \in Deezers /\ c.kind = "drop"
  THEN Proceed([Leave(c) EXCEPT !.unrestored = IF req.do = "put" THEN @ \cup {req.id} ELSE @,
                                !.givenup = IF req.do = "wipe" THEN @ \cup {req.id} ELSE @],
               alias)
  ELSE Stop(c)

(* Send the request again, while the client has transmissions left.        *)
Budget == IF Self.sends < MaxTries THEN Self.sends ELSE MaxTries
Again(c) == IF c.tries + 1 < Budget THEN call' = [c EXCEPT !.tries = @ + 1] ELSE Stop(c)

(* The provider applied the request and said so.  Qobuz counts the         *)
(* playlist while it appends copies, and stops when the count has moved.   *)
Accepted ==
  /\ Sending /\ ~Refuses
  /\ Apply
  /\ IF target = "qobuz" /\ call.kind = "copies" /\ Len(Effect) # call.size + 1
     THEN Stop(call)
     ELSE Proceed([Answered(call) EXCEPT !.size = @ + 1], Written)
  /\ alias' = Written
  /\ UNCHANGED <<target, taken, kept, faults, edits, calls>>

Fault == faults > 0 /\ faults' = faults - 1 /\ UNCHANGED <<target, alias, taken, kept, edits, calls>>

(* A 429, or YouTube's 409: the write did not run.                         *)
Throttle ==
  /\ Sending /\ Fault
  /\ IF Self.waits THEN Again(call) ELSE Stop(call)
  /\ UNCHANGED <<list, landed, seen>>

(* Mutant: Apple, too, sends again without looking.                        *)
LoseBlind ==
  /\ Sending /\ Fault
  /\ \/ ~Refuses /\ Apply
     \/ UNCHANGED <<list, landed, seen>>
  /\ IF target = "apple" \/ Self.resends THEN Again(call) ELSE Stop(call)

(* The answer is lost, or a 5xx: the write may have run.  Apple reads the  *)
(* playlist before it decides; the resending clients ask again; the others *)
(* stop, and the caller reads the playlist on the next pass.               *)
Lose ==
  /\ Sending /\ Fault
  /\ \/ ~Refuses /\ Apply
     \/ UNCHANGED <<list, landed, seen>>
  /\ CASE target = "apple" -> call' = [call EXCEPT !.phase = "verify", !.checks = 0]
       [] Self.resends -> Again(call)
       [] OTHER -> Stop(call)

(* A 401: one renewal per request, and the write is sent again, unless     *)
(* that was the last transmission: no AuthError then.                      *)
Unauthorised ==
  /\ Sending /\ Fault
  /\ IF ~Self.renews \/ call.renewed THEN Stop(call)
     ELSE IF call.tries + 1 < Budget THEN Again([call EXCEPT !.renewed = TRUE])
     ELSE GiveUp(call)
  /\ UNCHANGED <<list, landed, seen>>

(* Deezer answers with an error, and its web client meets an answer it     *)
(* cannot read, of a request that may have run.                            *)
Garble ==
  /\ Sending /\ Fault /\ target \in Deezers
  /\ \/ target = "deezerweb" /\ ~Refuses /\ Apply
     \/ UNCHANGED <<list, landed, seen>>
  /\ GiveUp(call)

(* The provider does not take this id.  Qobuz skips it when a lookup       *)
(* proves it is unavailable, Deezer when the id is malformed; a keeper     *)
(* Deezer refuses leaves its copies unrestored and the removal goes on.    *)
Refused ==
  /\ Sending /\ Refuses
  /\ CASE target = "apple" -> call' = [call EXCEPT !.phase = "verify", !.checks = 0, !.bad = TRUE]
       [] target = "qobuz" -> Proceed(call, alias) \/ Stop(call)
       [] target \in Deezers ->
            IF call.kind = "drop" THEN GiveUp(call) ELSE Proceed(call, alias) \/ Stop(call)
       [] OTHER -> Stop(call)
  /\ UNCHANGED <<target, list, alias, landed, seen, taken, kept, faults, edits, calls>>

------------------------------------------------------------------------------
(* Apple's reading of a lost write: up to three reads, of which the first  *)
(* two may be stale.                                                       *)

Verifying == call.phase = "verify"

Found ==
  /\ Verifying /\ Copies(list, call.id) > call.before
  /\ Proceed(Confirm(call), Written)
  /\ alias' = Written
  /\ UNCHANGED <<target, list, landed, seen, taken, kept, faults, edits, calls>>

ReadStale ==
  /\ Verifying /\ call.checks < 2
  /\ call' = [call EXCEPT !.checks = @ + 1]
  /\ UNCHANGED <<target, list, alias, landed, seen, taken, kept, faults, edits, calls>>

(* The last read fails: the outcome stays unknown, and the queue stops.    *)
Unknown ==
  /\ Verifying /\ call.checks = 2 /\ Fault
  /\ Stop(call)
  /\ UNCHANGED <<list, landed, seen>>

(* Not there: ask once for a replacement, skip an id Apple cannot add,     *)
(* else send again.                                                        *)
NotFound ==
  /\ Verifying /\ call.checks = 2 /\ Copies(list, call.id) <= call.before
  /\ LET c == [call EXCEPT !.phase = "send", !.fixed = TRUE, !.bad = FALSE]
     IN \/ /\ ~call.fixed /\ NewId[call.id] # call.id
           /\ Again([c EXCEPT !.id = NewId[call.id], !.before = 0])
        \/ IF call.bad THEN Proceed(call, alias) ELSE Again(c)
  /\ UNCHANGED <<target, list, alias, landed, seen, taken, kept, faults, edits, calls>>

------------------------------------------------------------------------------
(* The person.  Two copies of one id are alike to Deezer, so a copy a      *)
(* person takes away is one fewer to keep.                                 *)
PersonAdds(i) ==
  /\ edits > 0 /\ edits' = edits - 1
  /\ Len(list) < 2 * MaxLen
  /\ list' = Append(list, [id |-> i, mark |-> -2])
  /\ seen' = seen \cup {i}
  /\ UNCHANGED <<target, alias, call, landed, taken, kept, faults, calls>>

PersonRemoves(k) ==
  /\ edits > 0 /\ edits' = edits - 1
  /\ list' = RemoveAt(list, k)
  /\ kept' = IF list[k].mark # -2 /\ (target \in Deezers \/ list[k].mark = 0)
                  /\ kept[list[k].id] > 0
             THEN [kept EXCEPT ![list[k].id] = @ - 1] ELSE kept
  /\ taken' = taken \cup {list[k].id}
  /\ UNCHANGED <<target, alias, call, landed, seen, faults, calls>>

Next ==
  \/ \E ids \in UNION {[1..n -> Id] : n \in 1..MaxLen} : Add(ids) \/ AddCopies(ids)
  \/ \E F \in SUBSET DOMAIN list : Drop(F)
  \/ Accepted \/ Throttle \/ Lose \/ Unauthorised \/ Garble \/ Refused
  \/ Found \/ ReadStale \/ Unknown \/ NotFound
  \/ \E i \in Id \ Gone : PersonAdds(i)
  \/ \E k \in DOMAIN list : PersonRemoves(k)

Spec == Init /\ [][Next]_vars

------------------------------------------------------------------------------
(* The appends of a call stand in the playlist in the order they were     *)
(* asked for, each once.  Apple counts the copies of an id to find its own *)
(* append: one a person takes away at that moment it cannot tell from a    *)
(* write that did not run.                                                 *)
OrderedOnce(T) ==
  target \in T =>
    \A j, k \in DOMAIN list :
      j < k /\ list[k].id \notin taken /\ list[j].mark > 0 /\ list[k].mark > 0 => list[j].mark < list[k].mark

(* Apple's search offers another release only for an id it no longer takes *)
(* (a failed write of any id makes it search).                             *)
Steady == target = "apple" => \A i \in Id \ Gone : NewId[i] = i

(* Whatever is throttled, lost, renewed or refused, a client that does not *)
(* blindly repeat a write (base.py add: IN ORDER, one request per id)      *)
(* leaves the order of its requests, and no copy twice.                    *)
InOrder == Steady => OrderedOnce(Target \ Resending)

(* The contract of add for every client.  The OAuth Spotify client and the *)
(* Deezer web client repeat a write whose answer was lost; Apple counts    *)
(* the copies of another release from those of the id it replaces.         *)
AppendedOnce == OrderedOnce(Target)

(* A request may be without a trace for these reasons only: the provider   *)
(* no longer takes the id, or it had the song already and the client asks  *)
(* for no duplicates (Apple: finds it when it looks for its own copy).     *)
HadIt(i) ==
  i \in seen /\ (target = "apple" \/ (target \in Suppressing /\ call.kind = "add"))

(* A later id is never appended while an earlier one failed for a passing  *)
(* reason: later tracks would get earlier date-added stamps (apple.py add).*)
NothingPassedOver ==
  Steady =>
    \A k \in landed : \A j \in 1..(k - 1) :
      call.plan[j].do = "put" =>
        \/ j \in landed
        \/ call.plan[j].id \in Gone \cup call.unrestored
        \/ HadIt(call.plan[j].id) \/ HadIt(alias[call.plan[j].id])

(* What add reports as written the playlist has had: the caller records    *)
(* these ids as present and never asks for them again.                     *)
ConfirmedIsThere ==
  \A w \in call.ok : w[1] \in landed \/ HadIt(w[2])

(* base.py add: each id appended IN ORDER, whatever becomes of a request.  *)
AppendsHold == TypeOK /\ InOrder /\ NothingPassedOver /\ ConfirmedIsThere

(* Removing duplicates takes the flagged copies only: the unflagged ones   *)
(* are there when the call reports success, and at all times where copies  *)
(* are addressed one by one.  The copies of an id the Deezer web client    *)
(* gave up in the middle of its removal are not counted on.                *)
KeepersLeft(I) ==
  (call.phase = "idle" /\ call.result = "done") \/ target \notin Deezers =>
    \A i \in I : Copies(list, i) >= kept[i]
KeepersKept == KeepersLeft(IF target = "deezerweb" THEN Id \ call.givenup ELSE Id)

(* deezer.py remove_occurrences: "Preserve any unflagged copies by deleting *)
(* once and re-appending their count."                                     *)
UnflaggedPreserved == KeepersLeft(Id)

=============================================================================
