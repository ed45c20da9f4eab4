--------------------------- MODULE ReconcileProof ---------------------------
(***************************************************************************)
(* What holds of Reconcile for any number of peers and tracks, any         *)
(* authorities, catalogs, caps and bounds.                                 *)
(***************************************************************************)
EXTENDS Reconcile, TLAPS

LEMMA NeverAbsent == Never \in [Peers -> [Track -> 0..2]]
BY DEF Never

LEMMA OrdersAreDates == Undated \in [Track -> Nat] /\ Orders \subseteq [Track -> Nat]
BY ReconcileAssumption DEF Undated

LEMMA ContributorsArePeers == Contributors \subseteq Peers
BY ReconcileAssumption DEF Contributors, Group

\* Whatever batch of removals a provider gets, it is part of its plan, and so of its reading.
LEMMA BatchInPlan ==
  ASSUME NEW p, NEW complete, NEW batch \in Batches(p, complete)
  PROVE  batch \subseteq RemovePlan(p) /\ batch \subseteq cur[p]
BY DEF Batches, RemovePlan

LEMMA ResolvableInCatalog ==
  ASSUME NEW p \in Peers
  PROVE  Resolvable(p) \subseteq Track /\ Resolvable(p) \subseteq Desired
BY ReconcileAssumption DEF Resolvable, AddPlan

\* Every variable keeps to its type.
THEOREM TypeCorrect == Spec => []TypeOK
<1>1. ASSUME Init PROVE TypeOK
  <2>1. actual \in [Peers -> SUBSET Track]
    BY <1>1, ReconcileAssumption DEF Init
  <2>2. voted \subseteq Track
    BY <1>1, <2>1, ContributorsArePeers DEF Init
  <2>3. edits \in 0..MaxEdits /\ faults \in 0..MaxFaults
    BY <1>1, ReconcileAssumption DEF Init
  <2>4. QED
    BY <1>1, <2>1, <2>2, <2>3, NeverAbsent, OrdersAreDates DEF Init, TypeOK, Nothing
<1>2. TypeOK /\ [Next]_vars => TypeOK'
  <2> SUFFICES ASSUME TypeOK, [Next]_vars PROVE TypeOK'
    OBVIOUS
  <2> USE ReconcileAssumption DEF TypeOK, provider, archive, pass, history
  <2>1. ASSUME NEW p \in Peers, NEW c \in Track, UserAdd(p, c) PROVE TypeOK'
    <3>1. actual' \in [Peers -> SUBSET Track] /\ onceOn' \in [Peers -> SUBSET Track]
      BY <2>1 DEF UserAdd
    <3>2. edits' \in 0..MaxEdits
      BY <2>1 DEF UserAdd
    <3>3. /\ voted' \in SUBSET Track
          /\ addedAt' \in [Track -> SUBSET Peers]
          /\ deletedAt' \in [Track -> SUBSET Peers]
      <4>1. CASE p \in Contributors
        <5>1. addedAt' = [addedAt EXCEPT ![c] = @ \cup {p}] /\ deletedAt' = [deletedAt EXCEPT ![c] = {}]
          BY <2>1, <4>1 DEF UserAdd
        <5>2. voted' = voted \cup {c}
          BY <2>1, <4>1 DEF UserAdd
        <5>3. QED
          BY <5>1, <5>2
      <4>2. CASE p \notin Contributors
        BY <2>1, <4>2 DEF UserAdd
      <4>3. QED
        BY <4>1, <4>2
    <3>4. QED
      BY <2>1, <3>1, <3>2, <3>3 DEF UserAdd
  <2>2. ASSUME NEW p \in Peers, NEW c \in Track, UserDelete(p, c) PROVE TypeOK'
    <3>1. actual' \in [Peers -> SUBSET Track]
      BY <2>2 DEF UserDelete
    <3>2. edits' \in 0..MaxEdits
      BY <2>2 DEF UserDelete
    <3>3. addedAt' \in [Track -> SUBSET Peers] /\ deletedAt' \in [Track -> SUBSET Peers]
      <4>1. CASE p \in Contributors
        <5>1. deletedAt' = [deletedAt EXCEPT ![c] = @ \cup {p}] /\ addedAt' = [addedAt EXCEPT ![c] = {}]
          BY <2>2, <4>1 DEF UserDelete
        <5>2. QED
          BY <5>1
      <4>2. CASE p \notin Contributors
        BY <2>2, <4>2 DEF UserDelete
      <4>3. QED
        BY <4>1, <4>2
    <3>4. QED
      BY <2>2, <3>1, <3>2, <3>3 DEF UserDelete
  <2>3. ASSUME NEW p \in Peers, NEW how \in {"replaced", "missing"}, UserDropsPlaylist(p, how)
        PROVE TypeOK'
    BY <2>3 DEF UserDropsPlaylist
  <2>4. CASE StartPass
    <3>1. absences' \in [Peers -> [Track -> 0..2]]
      BY <2>4, NeverAbsent DEF StartPass
    <3>2. QED
      BY <2>4, <3>1 DEF StartPass, Fault
  <2>5. CASE Plan
    <3>1. \A n \in 0..2 : OneMore(n) \in 0..2
      BY DEF OneMore
    <3>2. absences' \in [Peers -> [Track -> 0..2]]
      BY <2>5, <3>1 DEF Plan
    <3>3. streak' \in [Peers -> [Track -> 0..2]]
      BY <2>5, <3>1 DEF Plan
    <3>4. order' \in [Track -> Nat]
      BY <2>5, OrdersAreDates DEF Plan
    <3>5. QED
      BY <2>5, <3>2, <3>3, <3>4 DEF Plan
  <2>6. CASE Commit
    <3>1. absences' \in [Peers -> [Track -> 0..2]]
      BY <2>6 DEF Commit
    <3>2. QED
      BY <2>6, <3>1, OrdersAreDates DEF Commit, Idle, Nothing, NewBaseline, NewPending, Observed, Missing
  <2>7. CASE Discard
    BY <2>7, OrdersAreDates DEF Discard, Idle, Nothing
  <2>8. ASSUME NEW p \in Peers, ReadPeer(p) PROVE TypeOK'
    BY <2>8 DEF ReadPeer, Fault
  <2>9. ASSUME NEW p \in Peers, WritePeer(p) PROVE TypeOK'
    BY <2>9, BatchInPlan, ResolvableInCatalog DEF WritePeer, Written, Accounted, Fault
  <2>10. ASSUME NEW p \in Peers, SkipCollapsed(p) PROVE TypeOK'
    BY <2>10 DEF SkipCollapsed
  <2>11. CASE Interrupt
    BY <2>11 DEF Interrupt, Fault
  <2>12. CASE Abort
    <3>1. actual' \in [Peers -> SUBSET Track] /\ onceOn' \in [Peers -> SUBSET Track]
      <4>1. CASE UNCHANGED <<actual, onceOn>>
        BY <4>1
      <4>2. ASSUME NEW p \in Peers, NEW added \in SUBSET Resolvable(p), NEW gone,
                   Written(p, added, gone)
            PROVE  actual' \in [Peers -> SUBSET Track] /\ onceOn' \in [Peers -> SUBSET Track]
        <5>1. added \subseteq Track
          BY ResolvableInCatalog
        <5>2. QED
          BY <4>2, <5>1 DEF Written
      <4>3. QED
        BY <2>12, <4>1, <4>2 DEF Abort
    <3>2. faults' \in 0..MaxFaults
      BY <2>12 DEF Abort, Fault
    <3>3. QED
      BY <2>12, <3>1, <3>2, OrdersAreDates DEF Abort, Idle, Nothing
  <2>13. ASSUME NEW p \in Peers, SkipUnreadableMirror(p) PROVE TypeOK'
    BY <2>13 DEF SkipUnreadableMirror, Fault
  <2>14. CASE UNCHANGED vars
    BY <2>14 DEF vars
  <2>15. QED
    BY <2>1, <2>2, <2>3, <2>4, <2>5, <2>6, <2>7, <2>8, <2>9, <2>10, <2>11, <2>12, <2>13, <2>14
       DEF Next, User, Engine, Trouble
<1>3. QED
  BY <1>1, <1>2, PTL DEF Spec

-----------------------------------------------------------------------------
(* Baselines. *)

\* What a pass read and what it records, it saw on the provider itself.
Witnessed == \A p \in Peers :
  actual[p] \subseteq onceOn[p] /\ cur[p] \subseteq onceOn[p] /\ baseline[p] \subseteq onceOn[p]

\* Writing to one provider keeps its history complete.
LEMMA WrittenWitnessed ==
  ASSUME TypeOK, Witnessed, NEW p \in Peers, NEW added, NEW gone,
         Written(p, added, gone), UNCHANGED baseline
  PROVE  /\ \A q \in Peers : actual'[q] \subseteq onceOn'[q] /\ onceOn[q] \subseteq onceOn'[q]
         /\ \A q \in Peers : baseline'[q] \subseteq onceOn'[q]
<1>1. \A q \in Peers : actual'[q] \subseteq onceOn'[q] /\ onceOn[q] \subseteq onceOn'[q]
  BY DEF TypeOK, Witnessed, Written
<1>2. QED
  BY <1>1 DEF Witnessed

\* A baseline never claims a track its provider never had, whatever fails.
THEOREM BaselinesAreWitnessed == Spec => []BaselineWitnessed
<1>1. ASSUME Init PROVE Witnessed
  BY <1>1 DEF Init, Witnessed, Nothing
<1>2. ASSUME TypeOK, Witnessed, [Next]_vars PROVE Witnessed'
  <2> USE <1>2 DEF provider, archive, pass, history
  <2>1. ASSUME NEW p \in Peers, NEW c \in Track, UserAdd(p, c) PROVE Witnessed'
    BY <2>1 DEF UserAdd, Witnessed, TypeOK
  <2>2. ASSUME NEW p \in Peers, NEW c \in Track, UserDelete(p, c) PROVE Witnessed'
    BY <2>2 DEF UserDelete, Witnessed, TypeOK
  <2>3. ASSUME NEW p \in Peers, NEW how \in {"replaced", "missing"}, UserDropsPlaylist(p, how)
        PROVE Witnessed'
    BY <2>3 DEF UserDropsPlaylist, Witnessed, TypeOK
  <2>4. CASE StartPass
    BY <2>4 DEF StartPass, Witnessed
  <2>5. CASE Plan
    BY <2>5 DEF Plan, Witnessed
  <2>6. CASE Commit
    BY <2>6 DEF Commit, Idle, Nothing, NewBaseline, Observed, Witnessed
  <2>7. CASE Discard
    BY <2>7 DEF Discard, Idle, Nothing, Witnessed
  <2>8. ASSUME NEW p \in Peers, ReadPeer(p) PROVE Witnessed'
    BY <2>8 DEF ReadPeer, Witnessed, TypeOK
  <2>9. ASSUME NEW p \in Peers, WritePeer(p) PROVE Witnessed'
    <3>1. PICK added, gone : Written(p, added, gone)
      BY <2>9 DEF WritePeer
    <3>2. UNCHANGED <<cur, baseline>>
      BY <2>9 DEF WritePeer
    <3>3. QED
      BY <3>1, <3>2, WrittenWitnessed DEF Witnessed
  <2>10. ASSUME NEW p \in Peers, SkipCollapsed(p) PROVE Witnessed'
    BY <2>10 DEF SkipCollapsed, Witnessed
  <2>11. CASE Interrupt
    BY <2>11 DEF Interrupt, Witnessed
  <2>12. CASE Abort
    <3>1. cur' = Nothing /\ UNCHANGED baseline
      BY <2>12 DEF Abort, Idle
    <3>2. CASE UNCHANGED <<actual, onceOn>>
      BY <3>1, <3>2 DEF Witnessed, Nothing
    <3>3. ASSUME NEW p \in Peers, NEW added, NEW gone, Written(p, added, gone) PROVE Witnessed'
      BY <3>1, <3>3, WrittenWitnessed DEF Witnessed, Nothing
    <3>4. QED
      BY <2>12, <3>2, <3>3 DEF Abort
  <2>13. ASSUME NEW p \in Peers, SkipUnreadableMirror(p) PROVE Witnessed'
    BY <2>13 DEF SkipUnreadableMirror, Witnessed
  <2>14. CASE UNCHANGED vars
    BY <2>14 DEF vars, Witnessed
  <2>15. QED
    BY <2>1, <2>2, <2>3, <2>4, <2>5, <2>6, <2>7, <2>8, <2>9, <2>10, <2>11, <2>12, <2>13, <2>14
       DEF Next, User, Engine, Trouble
<1>3. Witnessed => BaselineWitnessed
  BY DEF Witnessed, BaselineWitnessed
<1>4. QED
  BY <1>1, <1>2, <1>3, TypeCorrect, PTL DEF Spec

-----------------------------------------------------------------------------
(* Who votes. *)

OnlyVoted == \A s \in Contributors :
  actual[s] \subseteq voted /\ cur[s] \subseteq voted /\ baseline[s] \subseteq voted

\* The merge wants nothing that no contributor ever showed.
LEMMA DesiredVoted ==
  ASSUME OnlyVoted
  PROVE  Desired \subseteq voted
<1>1. \A p \in Voters : p \in Contributors /\ Effective(p) \subseteq voted
  BY DEF Voters, Effective, FirstSeen, Missing, OnlyVoted
<1>2. Additions \subseteq voted /\ Bootstrap \subseteq voted
  BY <1>1 DEF Additions, Bootstrap
<1>3. Remembered \subseteq voted
  BY DEF Remembered, OnlyVoted
<1>4. QED
  BY <1>2, <1>3 DEF Desired

LEMMA WrittenVoted ==
  ASSUME TypeOK, OnlyVoted, NEW p \in Peers, NEW added \in SUBSET Resolvable(p), NEW gone,
         Written(p, added, gone)
  PROVE  \A s \in Contributors : actual'[s] \subseteq voted
<1>1. added \subseteq voted
  BY DesiredVoted, ResolvableInCatalog
<1>2. QED
  BY <1>1, ContributorsArePeers DEF TypeOK, OnlyVoted, Written

\* What only mirrors ever held never reaches an authority.
THEOREM MirrorsHaveNoVote == Spec => []MirrorsNeverVote
<1>1. ASSUME Init PROVE OnlyVoted
  BY <1>1, ContributorsArePeers DEF Init, OnlyVoted, Nothing
<1>2. ASSUME TypeOK, OnlyVoted, [Next]_vars PROVE OnlyVoted'
  <2> USE <1>2, ContributorsArePeers DEF provider, archive, pass, history
  <2>1. ASSUME NEW p \in Peers, NEW c \in Track, UserAdd(p, c) PROVE OnlyVoted'
    <3>1. CASE p \in Contributors
      <4>1. voted' = voted \cup {c} /\ actual' = [actual EXCEPT ![p] = @ \cup {c}]
        BY <2>1, <3>1 DEF UserAdd
      <4>2. UNCHANGED <<cur, baseline>>
        BY <2>1 DEF UserAdd
      <4>3. QED
        BY <4>1, <4>2 DEF OnlyVoted, TypeOK
    <3>2. CASE p \notin Contributors
      BY <2>1, <3>2 DEF UserAdd, OnlyVoted, TypeOK
    <3>3. QED
      BY <3>1, <3>2
  <2>2. ASSUME NEW p \in Peers, NEW c \in Track, UserDelete(p, c) PROVE OnlyVoted'
    BY <2>2 DEF UserDelete, OnlyVoted, TypeOK
  <2>3. ASSUME NEW p \in Peers, NEW how \in {"replaced", "missing"}, UserDropsPlaylist(p, how)
        PROVE OnlyVoted'
    BY <2>3 DEF UserDropsPlaylist, OnlyVoted, TypeOK
  <2>4. CASE StartPass
    BY <2>4 DEF StartPass, OnlyVoted
  <2>5. CASE Plan
    BY <2>5 DEF Plan, OnlyVoted
  <2>6. CASE Commit
    BY <2>6 DEF Commit, Idle, Nothing, NewBaseline, Observed, OnlyVoted
  <2>7. CASE Discard
    BY <2>7 DEF Discard, Idle, Nothing, OnlyVoted
  <2>8. ASSUME NEW p \in Peers, ReadPeer(p) PROVE OnlyVoted'
    BY <2>8 DEF ReadPeer, OnlyVoted, TypeOK
  <2>9. ASSUME NEW p \in Peers, WritePeer(p) PROVE OnlyVoted'
    <3>1. PICK added, gone : added \in SUBSET Resolvable(p) /\ Written(p, added, gone)
      BY <2>9 DEF WritePeer
    <3>2. UNCHANGED <<cur, baseline, voted>>
      BY <2>9 DEF WritePeer
    <3>3. QED
      BY <3>1, <3>2, WrittenVoted DEF OnlyVoted
  <2>10. ASSUME NEW p \in Peers, SkipCollapsed(p) PROVE OnlyVoted'
    BY <2>10 DEF SkipCollapsed, OnlyVoted
  <2>11. CASE Interrupt
    BY <2>11 DEF Interrupt, OnlyVoted
  <2>12. CASE Abort
    <3>1. cur' = Nothing /\ UNCHANGED <<baseline, voted>>
      BY <2>12 DEF Abort, Idle
    <3>2. CASE UNCHANGED <<actual, onceOn>>
      BY <3>1, <3>2 DEF OnlyVoted, Nothing
    <3>3. ASSUME NEW p \in Peers, NEW added \in SUBSET Resolvable(p), NEW gone,
                 Written(p, added, gone)
          PROVE  OnlyVoted'
      BY <3>1, <3>3, WrittenVoted DEF OnlyVoted, Nothing
    <3>4. QED
      BY <2>12, <3>2, <3>3 DEF Abort
  <2>13. ASSUME NEW p \in Peers, SkipUnreadableMirror(p) PROVE OnlyVoted'
    BY <2>13 DEF SkipUnreadableMirror, OnlyVoted
  <2>14. CASE UNCHANGED vars
    BY <2>14 DEF vars, OnlyVoted
  <2>15. QED
    BY <2>1, <2>2, <2>3, <2>4, <2>5, <2>6, <2>7, <2>8, <2>9, <2>10, <2>11, <2>12, <2>13, <2>14
       DEF Next, User, Engine, Trouble
<1>3. OnlyVoted => MirrorsNeverVote
  BY DEF OnlyVoted, MirrorsNeverVote
<1>4. QED
  BY <1>1, <1>2, <1>3, TypeCorrect, PTL DEF Spec

-----------------------------------------------------------------------------
(* The two-pass confirmation. *)

\* What the archive keeps as pending was missed at least once; while a pass writes, what it
\* misses is counted, and what it misses and finds pending was missed twice.
PendingCounted == \A s \in Contributors : \A c \in pending[s] : absences[s][c] # 0
MissingCounted == pc = "write" => \A s \in Contributors : \A c \in Missing(s) :
  absences[s][c] # 0 /\ (c \in pending[s] => absences[s][c] = 2)
RemovedCounted == \A s \in Contributors : \A c \in removed[s] : absences[s][c] # 0
RemovedWhenWriting == pc # "write" => removed = Nothing
Evidence == PendingCounted /\ MissingCounted /\ RemovedCounted /\ RemovedWhenWriting

\* What is missing depends on the reading and the archive only.
LEMMA MissingStable ==
  ASSUME UNCHANGED <<playlist, baseline, initialized, active, cur, unreadable>>
  PROVE  \A p : Missing(p)' = Missing(p)
<1>1. Known' = Known
  BY DEF Known
<1>2. \A p : Collapses(p)' = Collapses(p)
  BY <1>1 DEF Collapses
<1>3. Voters' = Voters
  BY <1>2 DEF Voters, Collapsed
<1>4. QED
  BY <1>1, <1>3 DEF Missing

LEMMA MissingInTrack ==
  ASSUME TypeOK, NEW p \in Peers
  PROVE  Missing(p) \subseteq Track /\ Missing(p) \cap cur[p] = {}
BY DEF Missing, TypeOK

\* The merge drops a remembered track only if a contributor's confirmed absence asks for it.
LEMMA DroppedIsConfirmed ==
  ASSUME TypeOK, Evidence, pc = "write", NEW c \in Remembered, c \notin Desired
  PROVE  \E s \in Contributors : absences[s][c] = 2
<1>1. c \in Removals
  BY DEF Desired
<1>2. PICK s \in Voters \cap Known : c \in baseline[s] /\ c \notin Effective(s)
  BY <1>1 DEF Removals
<1>3. c \in Missing(s) /\ c \in pending[s]
  BY <1>2 DEF Effective, FirstSeen, Missing
<1>4. s \in Contributors
  BY <1>2 DEF Voters
<1>5. QED
  BY <1>3, <1>4 DEF Evidence, MissingCounted

LEMMA EvidenceInvariant == Spec => []Evidence
<1>1. ASSUME Init PROVE Evidence
  BY <1>1, ContributorsArePeers
     DEF Init, Evidence, PendingCounted, MissingCounted, RemovedCounted, RemovedWhenWriting, Nothing
<1>2. ASSUME TypeOK, Evidence, [Next]_vars PROVE Evidence'
  <2> USE <1>2, ContributorsArePeers DEF provider, archive, pass, history
  <2>a. ASSUME UNCHANGED <<playlist, archive, pc, active, cur, unreadable, removed, absences>>
        PROVE  Evidence'
    BY <2>a, MissingStable
       DEF Evidence, PendingCounted, MissingCounted, RemovedCounted, RemovedWhenWriting
  <2>b. ASSUME pc' = "idle", removed' = Nothing, UNCHANGED <<pending, absences>>
        PROVE  Evidence'
    BY <2>b DEF Evidence, PendingCounted, MissingCounted, RemovedCounted, RemovedWhenWriting, Nothing
  <2>1. ASSUME NEW p \in Peers, NEW c \in Track, UserAdd(p, c) PROVE Evidence'
    BY <2>1, <2>a DEF UserAdd
  <2>2. ASSUME NEW p \in Peers, NEW c \in Track, UserDelete(p, c) PROVE Evidence'
    BY <2>2, <2>a DEF UserDelete
  <2>3. ASSUME NEW p \in Peers, NEW how \in {"replaced", "missing"}, UserDropsPlaylist(p, how)
        PROVE Evidence'
    <3>1. pc' = "idle" /\ removed' = removed /\ pc = "idle" /\ UNCHANGED <<pending, absences>>
      BY <2>3 DEF UserDropsPlaylist
    <3>2. QED
      BY <3>1, <2>b DEF Evidence, RemovedWhenWriting
  <2>4. CASE StartPass
    <3>1. pc # "write" /\ pc' # "write" /\ removed = Nothing /\ removed' = Nothing
      BY <2>4 DEF StartPass, Evidence, RemovedWhenWriting
    <3>2. PICK created \in SUBSET Peers :
            /\ pending' = [p \in Peers |-> IF p \in created THEN {} ELSE pending[p]]
            /\ absences' = [p \in Peers |-> IF p \in created THEN Never[p] ELSE absences[p]]
      BY <2>4 DEF StartPass
    <3>3. \A s \in Peers : pending'[s] = {} \/ (pending'[s] = pending[s] /\ absences'[s] = absences[s])
      BY <3>2
    <3>4. QED
      BY <3>1, <3>3
         DEF Evidence, PendingCounted, MissingCounted, RemovedCounted, RemovedWhenWriting, Nothing
  <2>5. CASE Plan
    <3>1. pc # "write" /\ removed' = Nothing /\ UNCHANGED pending
      BY <2>5 DEF Plan, Evidence, RemovedWhenWriting
    <3>2. \A p : Missing(p)' = Missing(p)
      BY <2>5, MissingStable DEF Plan
    <3>3. \A s \in Peers, c \in Track :
            /\ c \in Missing(s) => absences'[s][c] = OneMore(absences[s][c])
            /\ c \notin Missing(s) => absences'[s][c] = absences[s][c]
      BY <2>5 DEF Plan
    <3>4. \A n \in 0..2 : OneMore(n) # 0 /\ (n # 0 => OneMore(n) = 2)
      BY DEF OneMore
    <3>5. \A s \in Peers : pending[s] \subseteq Track /\ Missing(s) \subseteq Track
      BY MissingInTrack DEF TypeOK
    <3>6. \A s \in Peers, c \in Track : absences[s][c] \in 0..2
      BY DEF TypeOK
    <3>7. PendingCounted'
      <4>1. ASSUME NEW s \in Contributors, NEW c \in pending[s] PROVE absences'[s][c] # 0
        <5>1. absences[s][c] # 0 /\ c \in Track /\ s \in Peers
          BY <3>5 DEF Evidence, PendingCounted
        <5>2. QED
          BY <5>1, <3>3, <3>4, <3>6
      <4>2. QED
        BY <3>1, <4>1 DEF PendingCounted
    <3>8. MissingCounted'
      BY <3>1, <3>2, <3>3, <3>4, <3>5, <3>6 DEF Evidence, PendingCounted, MissingCounted
    <3>9. RemovedCounted' /\ RemovedWhenWriting'
      BY <3>1 DEF RemovedCounted, RemovedWhenWriting, Nothing
    <3>10. QED
      BY <3>7, <3>8, <3>9 DEF Evidence
  <2>6. CASE Commit
    <3>1. pc = "write" /\ pc' = "idle" /\ removed' = Nothing
      BY <2>6 DEF Commit, Idle
    <3>2. ASSUME NEW s \in Contributors, NEW c \in pending'[s] PROVE absences'[s][c] # 0
      <4>1. CASE s \in Known
        <5>1. c \in Missing(s) \cup removed[s]
          BY <2>6, <3>2, <4>1 DEF Commit, NewPending
        <5>2. c \in Track /\ c \notin Observed(s)
          BY <5>1, MissingInTrack DEF Observed, TypeOK
        <5>3. absences'[s][c] = absences[s][c]
          BY <2>6, <5>2 DEF Commit
        <5>4. QED
          BY <3>1, <5>1, <5>3 DEF Evidence, MissingCounted, RemovedCounted
      <4>2. CASE s \notin Known
        <5>1. c \in pending[s] /\ c \in Track
          BY <2>6, <3>2, <4>2 DEF Commit, TypeOK
        <5>2. absences'[s][c] = absences[s][c]
          BY <2>6, <4>2, <5>1 DEF Commit
        <5>3. QED
          BY <5>1, <5>2 DEF Evidence, PendingCounted
      <4>3. QED
        BY <4>1, <4>2
    <3>3. QED
      BY <3>1, <3>2
         DEF Evidence, PendingCounted, MissingCounted, RemovedCounted, RemovedWhenWriting, Nothing
  <2>7. CASE Discard
    BY <2>7, <2>b DEF Discard, Idle
  <2>8. ASSUME NEW p \in Peers, ReadPeer(p) PROVE Evidence'
    BY <2>8
       DEF ReadPeer, Evidence, PendingCounted, MissingCounted, RemovedCounted, RemovedWhenWriting
  <2>9. ASSUME NEW p \in Peers, WritePeer(p) PROVE Evidence'
    <3>1. pc = "write" /\ pc' = "write" /\ UNCHANGED pending
      BY <2>9 DEF WritePeer
    <3>2. \A q : Missing(q)' = Missing(q)
      BY <2>9, MissingStable DEF WritePeer
    <3>3. PICK gone : gone \subseteq cur[p] /\ Accounted(p, gone)
      <4>1. PICK batch : batch \subseteq cur[p] /\ \E refused \in SUBSET batch : Accounted(p, batch \ refused)
        BY <2>9, BatchInPlan DEF WritePeer
      <4>2. QED
        BY <4>1
    <3>4. \A s \in Peers, c \in Track :
            /\ absences[s][c] # 0 => absences'[s][c] = absences[s][c]
            /\ s = p /\ c \in gone => absences'[s][c] # 0
      BY <3>3 DEF Accounted, TypeOK
    <3>5. \A s \in Peers : pending[s] \subseteq Track /\ Missing(s) \subseteq Track
                           /\ removed[s] \subseteq Track /\ cur[s] \subseteq Track
      BY MissingInTrack DEF TypeOK
    <3>6. PendingCounted'
      BY <3>1, <3>4, <3>5 DEF Evidence, PendingCounted
    <3>7. MissingCounted'
      <4>1. ASSUME NEW s \in Contributors, NEW c \in Missing(s)
            PROVE  absences'[s][c] # 0 /\ (c \in pending[s] => absences'[s][c] = 2)
        <5>1. absences[s][c] # 0 /\ (c \in pending[s] => absences[s][c] = 2)
          BY <3>1 DEF Evidence, MissingCounted
        <5>2. absences'[s][c] = absences[s][c]
          BY <3>4, <3>5, <5>1
        <5>3. QED
          BY <5>1, <5>2
      <4>2. QED
        BY <3>1, <3>2, <4>1 DEF MissingCounted
    <3>8. RemovedCounted'
      BY <3>3, <3>4, <3>5 DEF Accounted, Evidence, RemovedCounted, TypeOK
    <3>9. QED
      BY <3>1, <3>6, <3>7, <3>8 DEF Evidence, RemovedWhenWriting
  <2>10. ASSUME NEW p \in Peers, SkipCollapsed(p) PROVE Evidence'
    BY <2>10, <2>a DEF SkipCollapsed
  <2>11. CASE Interrupt
    BY <2>11, <2>a DEF Interrupt
  <2>12. CASE Abort
    BY <2>12, <2>b DEF Abort, Idle
  <2>13. ASSUME NEW p \in Peers, SkipUnreadableMirror(p) PROVE Evidence'
    BY <2>13
       DEF SkipUnreadableMirror, Evidence, PendingCounted, MissingCounted, RemovedCounted, RemovedWhenWriting
  <2>14. CASE UNCHANGED vars
    BY <2>14, <2>a DEF vars
  <2>15. QED
    BY <2>1, <2>2, <2>3, <2>4, <2>5, <2>6, <2>7, <2>8, <2>9, <2>10, <2>11, <2>12, <2>13, <2>14
       DEF Next, User, Engine, Trouble
<1>3. QED
  BY <1>1, <1>2, TypeCorrect, PTL DEF Spec

\* Nothing a contributor's baseline remembers is removed anywhere before some contributor's
\* trusted reads have missed it twice.
THEOREM RemovalsAreConfirmed == Spec => ConfirmedRemoval
<1> DEFINE Confirmed == \A p \in Peers, c \in Track :
      EngineRemoves(p, c) /\ c \in Remembered => \E s \in Contributors : absences[s][c] = 2
<1>1. ASSUME TypeOK, Evidence, [Next]_vars PROVE [Confirmed]_vars
  <2> SUFFICES ASSUME NEW p \in Peers, NEW c \in Track, EngineRemoves(p, c), c \in Remembered
               PROVE  \E s \in Contributors : absences[s][c] = 2
    OBVIOUS
  <2> USE <1>1 DEF provider, archive, pass, history
  <2>1. actual' # actual /\ edits' # edits + 1
    BY DEF EngineRemoves, TypeOK
  <2>2. ASSUME pc = "write", NEW q \in Peers, NEW added, NEW gone, gone \subseteq RemovePlan(q),
               Written(q, added, gone)
        PROVE  \E s \in Contributors : absences[s][c] = 2
    <3>1. q = p /\ c \in gone
      BY <2>2 DEF EngineRemoves, Written, TypeOK
    <3>2. c \notin Desired
      BY <2>2, <3>1 DEF RemovePlan
    <3>3. QED
      BY <2>2, <3>2, DroppedIsConfirmed
  <2>3. ASSUME NEW q \in Peers, WritePeer(q) PROVE \E s \in Contributors : absences[s][c] = 2
    <3>1. PICK added, gone : gone \subseteq RemovePlan(q) /\ Written(q, added, gone)
      BY <2>3, BatchInPlan DEF WritePeer
    <3>2. pc = "write"
      BY <2>3 DEF WritePeer
    <3>3. QED
      BY <2>2, <3>1, <3>2
  <2>4. CASE Abort
    <3>1. PICK q, added, gone :
            q \in Peers /\ pc = "write" /\ gone \subseteq RemovePlan(q) /\ Written(q, added, gone)
      BY <2>1, <2>4, BatchInPlan DEF Abort
    <3>2. QED
      BY <2>2, <3>1
  <2>5. CASE User
    BY <2>1, <2>5 DEF User, UserAdd, UserDelete, UserDropsPlaylist
  <2>6. CASE StartPass \/ Plan \/ Commit \/ Discard \/ Interrupt \/ UNCHANGED vars
    BY <2>1, <2>6 DEF StartPass, Plan, Commit, Discard, Interrupt, vars
  <2>7. CASE \E q \in Peers : ReadPeer(q) \/ SkipCollapsed(q) \/ SkipUnreadableMirror(q)
    BY <2>1, <2>7 DEF ReadPeer, SkipCollapsed, SkipUnreadableMirror
  <2>8. QED
    BY <2>3, <2>4, <2>5, <2>6, <2>7 DEF Next, Engine, Trouble
<1>2. QED
  BY <1>1, TypeCorrect, EvidenceInvariant, PTL DEF Spec, ConfirmedRemoval
=============================================================================
