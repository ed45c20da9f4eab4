------------------------------ MODULE Reconcile ------------------------------
(***************************************************************************)
(* One logical playlist reconciled across several provider peers, as       *)
(* reconcile() in engine/targets/base.py does it, driven by                *)
(* _run_peer_reconcile() of engine/runner.py and persisted by              *)
(* commit_reconcile_membership() of engine/archive.py.                     *)
(*                                                                         *)
(* A track stands for one canonical id: the entry -> canonical id step     *)
(* (_entry_cids, _unify_aliases) is outside this module.  So is the order  *)
(* of a playlist, except for what keeping it costs: an addition older than *)
(* entries already there is paid for with the writing of them all anew.    *)
(* A peer is its position in the `peers` list.  Passes run one after the   *)
(* other while people keep editing the provider playlists.  Only executing *)
(* passes are modelled: a dry run writes neither playlists nor baselines.  *)
(***************************************************************************)
EXTENDS Integers, FiniteSets

CONSTANTS
  NumPeers,      \* how many peers the job has
  Track,         \* canonical ids
  Authorities,   \* the authoritative peers; {} is the N-way mode
  Catalog,       \* Catalog[p]: the tracks peer p's catalog can resolve
  Starts,        \* possible contents of the provider playlists at first boot
  Orders,        \* Orders: the dates of addition a pass may work out, one for each track
  Rewrite,       \* Rewrite[p]: what writing one entry of p anew costs; 0 if p only appends
  MaxAdds,       \* max_adds of the job
  MaxRemovals,   \* max_removals of the job; 0 turns removals off
  Drain,         \* apply_large_removals of the job
  MaxEdits,      \* bound: how often people edit
  MaxFaults      \* bound: partial reads, failures, pauses, refusals together

Peers == 1..NumPeers
Group == Authorities # {}
Contributors == IF Group THEN Authorities ELSE Peers

ASSUME ReconcileAssumption ==
  /\ NumPeers \in Nat /\ NumPeers >= 2
  /\ IsFiniteSet(Track)
  /\ Authorities \subseteq Peers
  /\ Catalog \in [Peers -> SUBSET Track]
  /\ Starts \subseteq [Peers -> SUBSET Track]
  /\ Orders \subseteq [Track -> Nat] /\ Orders # {}
  /\ Rewrite \in [Peers -> Nat]
  /\ MaxAdds \in Nat /\ MaxRemovals \in Nat
  /\ Drain \in BOOLEAN
  /\ MaxEdits \in Nat /\ MaxFaults \in Nat

VARIABLES
  (* the providers' side *)
  actual,       \* actual[p]: what the playlist on p holds
  playlist,     \* "same" as the recorded id, "replaced" by another, or "missing"
  (* the archive: playlist_state, playlist_state_meta, playlist_pending_removal *)
  baseline, initialized, pending,
  (* one pass, lost when it ends or dies *)
  pc,           \* "idle", "read" (peers are read one by one) or "write"
  active,       \* the peers this pass runs with
  todo,         \* the peers still to be read, or to be written
  cur,          \* cur[p]: membership as read
  order,        \* order[c]: when c was added first, as this pass works it out (order_evidence)
  unreadable,   \* mirrors whose read failed
  removed,      \* applied_removals
  blocked,      \* baseline_blocked, as far as the writes set it
  interrupted,  \* a pause or a stop was seen
  (* history: what the properties compare with *)
  absences,     \* absences[p][c]: trusted reads of p that missed baseline member c since a
                \* pass that knew the baseline recorded c there, up to 2; the engine's own
                \* removal of c from p counts as one
  streak,       \* streak[p][c]: the same for the latest trusted reads of p in a row
  voted,        \* tracks people put on a contributor, or that were there from the start
  onceOn,       \* onceOn[p]: tracks that ever were on p
  addedAt,      \* addedAt[c]: peers where people added c since c was last deleted anywhere
  deletedAt,    \* deletedAt[c]: contributors where people deleted c since it was last added
  (* bounds *)
  edits, faults

provider == <<actual, playlist>>
archive == <<baseline, initialized, pending>>
pass == <<pc, active, todo, cur, order, unreadable, removed, blocked, interrupted>>
history == <<absences, streak, voted, onceOn, addedAt, deletedAt>>
vars == <<provider, archive, pass, history, edits, faults>>

TypeOK ==
  /\ actual \in [Peers -> SUBSET Track]
  /\ playlist \in [Peers -> {"same", "replaced", "missing"}]
  /\ baseline \in [Peers -> SUBSET Track]
  /\ initialized \in SUBSET Peers
  /\ pending \in [Peers -> SUBSET Track]
  /\ pc \in {"idle", "read", "write"}
  /\ active \in SUBSET Peers
  /\ todo \in SUBSET active
  /\ cur \in [Peers -> SUBSET Track]
  /\ order \in [Track -> Nat]
  /\ unreadable \in SUBSET Peers
  /\ removed \in [Peers -> SUBSET Track]
  /\ blocked \in BOOLEAN
  /\ interrupted \in BOOLEAN
  /\ absences \in [Peers -> [Track -> 0..2]]
  /\ streak \in [Peers -> [Track -> 0..2]]
  /\ voted \in SUBSET Track
  /\ onceOn \in [Peers -> SUBSET Track]
  /\ addedAt \in [Track -> SUBSET Peers]
  /\ deletedAt \in [Track -> SUBSET Peers]
  /\ edits \in 0..MaxEdits
  /\ faults \in 0..MaxFaults

Nothing == [p \in Peers |-> {}]
Undated == [c \in Track |-> 0]
Never == [p \in Peers |-> [c \in Track |-> 0]]

Init ==
  /\ actual \in Starts
  /\ playlist = [p \in Peers |-> "same"]
  /\ baseline = Nothing /\ initialized = {} /\ pending = Nothing
  /\ pc = "idle" /\ active = {} /\ todo = {} /\ cur = Nothing /\ order = Undated
  /\ unreadable = {} /\ removed = Nothing
  /\ blocked = FALSE /\ interrupted = FALSE
  /\ absences = Never /\ streak = Never
  /\ voted = UNION {actual[p] : p \in Contributors}
  /\ onceOn = actual
  /\ addedAt = [c \in Track |-> {}] /\ deletedAt = [c \in Track |-> {}]
  /\ edits = 0 /\ faults = 0

-----------------------------------------------------------------------------
(* What a pass works out of one reading.  None of these changes while the  *)
(* pass writes: they depend on cur and on the archive only.                *)

\* The peers whose stored baseline counts: `initialized` less `replaced_sources`.
Known == {p \in active \cap initialized : playlist[p] = "same"}

\* The collapse guard (COLLAPSE_FRACTION = 0.4).
Collapses(p) ==
  /\ p \in Known /\ baseline[p] # {}
  /\ cur[p] = {} \/ 5 * Cardinality(cur[p]) < 2 * Cardinality(baseline[p])

Collapsed == unreadable \cup {p \in active : Collapses(p)}
VotersWithMirrors == active \ Collapsed  \* mutant: the authority group is forgotten
Voters == (Contributors \cap active) \ Collapsed

\* Two-pass confirmation: an absence seen for the first time still counts as present.
Missing(p) == IF p \in Voters \cap Known THEN baseline[p] \ cur[p] ELSE {}
FirstSeen(p) == Missing(p) \ pending[p]
Effective(p) == cur[p] \cup FirstSeen(p)

\* _merge over the effective membership.
Additions == UNION {Effective(p) \ baseline[p] : p \in Voters \cap Known}
Bootstrap == UNION {Effective(p) : p \in Voters \ Known}
Removals == UNION {baseline[p] \ Effective(p) : p \in Voters \cap Known} \ Additions
Remembered == UNION {baseline[p] : p \in Contributors \cap Known}
Desired == (Remembered \cup Additions \cup Bootstrap) \ Removals

AddPlan(p) == Desired \ Effective(p)
RemovePlan(p) == cur[p] \ Desired
\* Only a track some current read shows can be resolved elsewhere (repr_).
Represented == UNION {cur[p] : p \in active}
Resolvable(p) == AddPlan(p) \cap Represented \cap Catalog[p]

AwaitingConfirmation == \E p \in active : FirstSeen(p) # {}
AuthorityBootstrap == Group /\ ~(Authorities \subseteq Known)

-----------------------------------------------------------------------------
(* People edit playlists at any time. *)

UserAdd(p, c) ==
  /\ edits < MaxEdits /\ playlist[p] # "missing"
  /\ c \in Catalog[p] \ actual[p]
  /\ actual' = [actual EXCEPT ![p] = @ \cup {c}]
  /\ onceOn' = [onceOn EXCEPT ![p] = @ \cup {c}]
  /\ IF p \in Contributors
     THEN /\ voted' = voted \cup {c}
          /\ addedAt' = [addedAt EXCEPT ![c] = @ \cup {p}]
          /\ deletedAt' = [deletedAt EXCEPT ![c] = {}]
     ELSE UNCHANGED <<voted, addedAt, deletedAt>>
  /\ edits' = edits + 1
  /\ UNCHANGED <<playlist, archive, pass, absences, streak, faults>>

UserDelete(p, c) ==
  /\ edits < MaxEdits /\ c \in actual[p]
  /\ actual' = [actual EXCEPT ![p] = @ \ {c}]
  /\ IF p \in Contributors
     THEN /\ deletedAt' = [deletedAt EXCEPT ![c] = @ \cup {p}]
          /\ addedAt' = [addedAt EXCEPT ![c] = {}]
     ELSE UNCHANGED <<deletedAt, addedAt>>
  /\ edits' = edits + 1
  /\ UNCHANGED <<playlist, archive, pass, absences, streak, voted, onceOn, faults>>

\* The whole playlist is deleted, or deleted and made again under its name.
UserDropsPlaylist(p, how) ==
  /\ edits < MaxEdits /\ pc = "idle" /\ playlist[p] = "same"
  /\ playlist' = [playlist EXCEPT ![p] = how]
  /\ actual' = [actual EXCEPT ![p] = {}]
  /\ edits' = edits + 1
  /\ UNCHANGED <<archive, pass, history, faults>>

-----------------------------------------------------------------------------
(* The pass. *)

Fault(happens) ==
  IF happens THEN faults < MaxFaults /\ faults' = faults + 1 ELSE UNCHANGED faults

\* _run_peer_reconcile up to the call of reconcile(): a missing playlist is created and
\* its peer's stored state reset; a peer whose playlist cannot be created or edited is
\* left out; without every authority, or with one peer, the playlist is skipped.
StartPass ==
  /\ pc = "idle"
  /\ \E unavailable \in SUBSET Peers :
       LET created == {p \in Peers \ unavailable : playlist[p] = "missing"}
           usable == Peers \ unavailable
       IN /\ Fault(unavailable # {})
          /\ playlist' = [p \in Peers |-> IF p \in created THEN "same" ELSE playlist[p]]
          /\ baseline' = [p \in Peers |-> IF p \in created THEN {} ELSE baseline[p]]
          /\ pending' = [p \in Peers |-> IF p \in created THEN {} ELSE pending[p]]
          /\ initialized' = initialized \ created
          /\ absences' = [p \in Peers |-> IF p \in created THEN Never[p] ELSE absences[p]]
          /\ IF Authorities \subseteq usable /\ Cardinality(usable) >= 2
             THEN pc' = "read" /\ active' = usable /\ todo' = usable
             ELSE UNCHANGED <<pc, active, todo>>
  /\ UNCHANGED <<actual, cur, order, unreadable, removed, blocked, interrupted,
                 streak, voted, onceOn, addedAt, deletedAt, edits>>

\* The peers are handled in their order.
Turn(p) == p \in todo /\ \A q \in todo : p <= q

\* A read returns the playlist as it is at that moment, or only part of it.
ReadPeer(p) ==
  /\ pc = "read" /\ Turn(p)
  /\ \E seen \in SUBSET actual[p] :
       /\ Fault(seen # actual[p])
       /\ cur' = [cur EXCEPT ![p] = seen]
  /\ todo' = todo \ {p}
  /\ UNCHANGED <<provider, archive, pc, active, order, unreadable, removed, blocked,
                 interrupted, history, edits>>

\* A mirror whose read raises is left alone for this pass.
SkipUnreadableMirror(p) ==
  /\ pc = "read" /\ Turn(p) /\ p \notin Contributors
  /\ Fault(TRUE)
  /\ unreadable' = unreadable \cup {p}
  /\ todo' = todo \ {p}
  /\ UNCHANGED <<provider, archive, pc, active, cur, order, removed, blocked, interrupted,
                 history, edits>>

OneMore(n) == IF n < 2 THEN n + 1 ELSE n

\* The end of the reading.  The order of addition is worked out from dates and positions
\* that providers may leave out or change: any of Orders, and of no account without additions.
Plan ==
  /\ pc = "read" /\ todo = {}
  /\ order' \in IF \E p \in active : Resolvable(p) # {} THEN Orders ELSE {Undated}
  /\ pc' = "write" /\ todo' = active
  /\ absences' = [p \in Peers |-> [c \in Track |->
       IF c \in Missing(p) THEN OneMore(absences[p][c]) ELSE absences[p][c]]]
  /\ streak' = [p \in Peers |-> [c \in Track |->
       IF c \in Missing(p) THEN OneMore(streak[p][c])
       ELSE IF p \in Voters THEN 0 ELSE streak[p][c]]]
  /\ UNCHANGED <<provider, archive, active, cur, unreadable, removed, blocked, interrupted,
                 voted, onceOn, addedAt, deletedAt, edits, faults>>

\* The removals one provider may get, once its additions are complete or not.
Batches(p, complete) ==
  IF AuthorityBootstrap \/ ~complete THEN {{}}
  ELSE IF Cardinality(RemovePlan(p)) <= MaxRemovals THEN {RemovePlan(p)}
  ELSE IF Drain THEN {b \in SUBSET RemovePlan(p) : Cardinality(b) = MaxRemovals}
  ELSE {{}}

OverCap(p, complete) ==
  complete /\ ~AuthorityBootstrap /\ Cardinality(RemovePlan(p)) > MaxRemovals

\* _fit_chronology_writes: the oldest additions come first, and on a peer that can replay
\* every entry newer than one of them is written anew after it.  As many are made as fit
\* under max_adds together with those writes.
Standing(p) == cur[p] \cap Desired
Newer(p, adds) == {c \in Standing(p) : \E d \in adds : order[d] < order[c]}
OrderedWrites(p, adds) == Cardinality(adds) + Rewrite[p] * Cardinality(Newer(p, adds))
Oldest(p) ==
  LET all == Resolvable(p)
  IN {adds \in SUBSET all : \A c \in adds, d \in all \ adds : order[c] < order[d]}
Fitting(p) == UNION {adds \in Oldest(p) : OrderedWrites(p, adds) <= MaxAdds}
\* Not even the oldest one fits: nothing is added, in this pass and in the next alike.
Postponed(p) == Resolvable(p) # {} /\ Fitting(p) = {}

Written(p, added, gone) ==
  /\ actual' = [actual EXCEPT ![p] = (@ \cup added) \ gone]
  /\ onceOn' = [onceOn EXCEPT ![p] = @ \cup added]

\* The removals a provider confirmed are remembered for the end of the pass.
Accounted(p, gone) ==
  /\ removed' = [removed EXCEPT ![p] = gone]
  /\ absences' = [absences EXCEPT ![p] = [c \in Track |->
       IF c \in gone /\ @[c] = 0 THEN 1 ELSE @[c]]]

\* One provider's additions, then its removals.  Other additions than the fitting ones: a
\* match failed, was rejected or deferred, collided with another entry (then the rest is
\* appended out of order), or (halted) a pause came between two of them.  Additions that are
\* put off for the cap block the baseline and the removals just the same, without any fault.
\* A removal the provider declines is in `refused`.
WritePeer(p) ==
  /\ pc = "write" /\ ~interrupted /\ Turn(p) /\ p \notin Collapsed
  /\ \E added \in SUBSET Resolvable(p), halted \in BOOLEAN :
       LET complete == added = AddPlan(p)
           other == added # Fitting(p)
       IN /\ Cardinality(added) <= MaxAdds
          /\ halted => ~complete
          /\ \E batch \in Batches(p, complete) : \E refused \in SUBSET batch :
               /\ Written(p, added, batch \ refused)
               /\ Accounted(p, batch \ refused)
               /\ blocked' = (blocked \/ ~complete \/ OverCap(p, complete) \/ refused # {})
               /\ Fault(halted \/ refused # {} \/ other)
          /\ interrupted' = halted
  /\ todo' = todo \ {p}
  /\ UNCHANGED <<playlist, archive, pc, active, cur, order, unreadable,
                 streak, voted, addedAt, deletedAt, edits>>

\* An untrusted read is not written to either.
SkipCollapsed(p) ==
  /\ pc = "write" /\ ~interrupted /\ Turn(p) /\ p \in Collapsed
  /\ todo' = todo \ {p}
  /\ UNCHANGED <<provider, archive, pc, active, cur, order, unreadable, removed, blocked,
                 interrupted, history, edits, faults>>

\* Pause or stop, seen before the next provider.
Interrupt ==
  /\ pc = "write" /\ todo # {} /\ ~interrupted
  /\ Fault(TRUE)
  /\ interrupted' = TRUE
  /\ UNCHANGED <<provider, archive, pc, active, todo, cur, order, unreadable, removed, blocked,
                 history, edits>>

IdleKeepingTodo ==  \* mutant: a pass leaves its unhandled peers behind
  /\ pc' = "idle" /\ active' = {} /\ todo' = todo /\ cur' = Nothing /\ unreadable' = {}
  /\ removed' = Nothing /\ blocked' = FALSE /\ interrupted' = FALSE /\ order' = Undated
Idle ==
  /\ pc' = "idle" /\ active' = {} /\ todo' = {} /\ cur' = Nothing /\ unreadable' = {}
  /\ removed' = Nothing /\ blocked' = FALSE /\ interrupted' = FALSE /\ order' = Undated

\* The baselines to persist: with held changes the previous membership stays as removal
\* evidence, and what this pass read is added to it.
ObservedAsPlanned(p) == (cur[p] \cup AddPlan(p)) \ removed[p]  \* mutant: records writes unread
Observed(p) == cur[p] \ removed[p]
Held == blocked \/ AwaitingConfirmation \/ AuthorityBootstrap
NewBaseline(p) ==
  IF Held THEN (IF p \in Known THEN baseline[p] ELSE {}) \cup Observed(p) ELSE Observed(p)
NewPendingKept(p) ==  \* mutant: observations that came back are not deleted
  IF Held THEN pending[p] \cup Missing(p) \cup removed[p] ELSE {}
NewPendingLost(p) == IF Held THEN removed[p] ELSE {}  \* mutant: absences are not recorded
NewPending(p) == IF Held THEN Missing(p) \cup removed[p] ELSE {}

\* The end of a pass whose every read was trusted and that nothing interrupted:
\* one SQLite transaction.
Commit ==
  /\ pc = "write" /\ todo = {} /\ ~interrupted /\ Collapsed = {}
  /\ baseline' = [p \in Peers |-> IF p \in active THEN NewBaseline(p) ELSE baseline[p]]
  /\ pending' = [p \in Peers |->
       IF p \in Known \cap Contributors THEN NewPending(p) ELSE pending[p]]
  /\ initialized' = initialized \cup active
  /\ playlist' = [p \in Peers |-> IF p \in active THEN "same" ELSE playlist[p]]
  /\ absences' = [p \in Peers |-> [c \in Track |->
       IF p \in Known /\ c \in Observed(p) THEN 0 ELSE absences[p][c]]]
  /\ Idle
  /\ UNCHANGED <<actual, streak, voted, onceOn, addedAt, deletedAt, edits, faults>>

\* The end of any other pass: nothing is recorded.
Discard ==
  /\ pc = "write" /\ (interrupted \/ (todo = {} /\ Collapsed # {}))
  /\ Idle
  /\ UNCHANGED <<provider, archive, history, edits, faults>>

\* An exception out of a read or a write, or the process dies: what the current
\* provider got until then stays, and nothing is recorded.
Abort ==
  /\ pc # "idle"
  /\ Fault(TRUE)
  /\ \/ UNCHANGED <<actual, onceOn>>
     \/ \E p \in Peers :
          /\ pc = "write" /\ ~interrupted /\ Turn(p) /\ p \notin Collapsed
          /\ \E added \in SUBSET Resolvable(p) :
               /\ Cardinality(added) <= MaxAdds
               /\ \E batch \in Batches(p, added = AddPlan(p)) : \E gone \in SUBSET batch :
                    Written(p, added, gone)
  /\ Idle
  /\ UNCHANGED <<playlist, archive, absences, streak, voted, addedAt, deletedAt, edits>>

User ==
  \/ \E p \in Peers, c \in Track : UserAdd(p, c) \/ UserDelete(p, c)
  \/ \E p \in Peers, how \in {"replaced", "missing"} : UserDropsPlaylist(p, how)

Engine ==
  \/ StartPass \/ Plan \/ Commit \/ Discard
  \/ \E p \in Peers : ReadPeer(p) \/ WritePeer(p) \/ SkipCollapsed(p)

Trouble == Interrupt \/ Abort \/ \E p \in Peers : SkipUnreadableMirror(p)

Next == User \/ Engine \/ Trouble
Spec == Init /\ [][Next]_vars

\* Each enabled job fires again on the next boundary (_job_scheduler), and a pass that is
\* not disturbed runs to its end.  People and faults owe nothing.
FairSpec == Spec /\ WF_vars(Engine)

-----------------------------------------------------------------------------
(* What the engine, and not a person, does to a playlist in a step. *)
EngineAdds(p, c) == edits' = edits /\ c \notin actual[p] /\ c \in actual'[p]
EngineRemoves(p, c) == edits' = edits /\ c \in actual[p] /\ c \notin actual'[p]

\* A member of a contributor's recorded baseline is removed from a playlist only while some
\* contributor's trusted reads have missed it twice since that baseline was last confirmed
\* (the two-pass confirmation).
ConfirmedRemoval == [][\A p \in Peers, c \in Track :
   EngineRemoves(p, c) /\ c \in Remembered => \E s \in Contributors : absences[s][c] = 2]_vars

\* "An absence must appear in two consecutive complete reads before it can delete anything":
\* the same, of one contributor's latest trusted reads, whatever became of those passes.
ConsecutiveReads == [][\A p \in Peers, c \in Track :
   EngineRemoves(p, c) /\ c \in Remembered => \E s \in Contributors : streak[s][c] = 2]_vars

\* A track only ever added on a mirror never reaches an authority.
MirrorsNeverVote == \A s \in Contributors : actual[s] \subseteq voted

\* A baseline never claims a track its provider never had: a planned, failed or
\* unconfirmed write is not recorded as membership.
BaselineWitnessed == \A p \in Peers : baseline[p] \subseteq onceOn[p]

\* "An old addition cannot override a later user deletion": the engine does not put back a
\* baseline member that people deleted there and added nowhere since.
DeletionSticks == [][\A p \in Contributors, c \in Track :
   EngineAdds(p, c) /\ p \in Known /\ c \in baseline[p] => p \notin deletedAt[c]]_vars

\* "Add-wins on conflict": a track people added again, and the pass read there, is not removed.
AddWins == [][\A p \in Peers, c \in Track :
   EngineRemoves(p, c) => ~ \E q \in addedAt[c] : c \in cur[q]]_vars

\* Left alone, the playlists come to agree for good, unless a provider's reading keeps
\* collapsing against its baseline or some provider's oldest addition keeps costing more
\* ordered writes than max_adds.
Agreement == \A p, q \in Peers : actual[p] = actual[q]
Convergence ==
  \/ <>[]Agreement
  \/ []<>(pc = "write" /\ (Collapsed # {} \/ \E p \in todo : Postponed(p)))

\* "Per-playlist additions cap per pass; the rest continue next pass": the same, whatever
\* the additions cost.
RestFollows == <>[]Agreement \/ []<>(pc = "write" /\ Collapsed # {})
=============================================================================
