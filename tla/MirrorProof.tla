---------------------------- MODULE MirrorProof ----------------------------
(***************************************************************************)
(* What holds of Mirror for any playlists, kinds of job, resemblances and  *)
(* caps, and any number of edits and failures.                             *)
(***************************************************************************)
EXTENDS Mirror, SubsequenceProof, WellFoundedInduction

-----------------------------------------------------------------------------
(* The inductive invariant. *)

Early == {"idle", "read", "look", "plan"}
Repairing == {"stage", "undo", "retire", "keep"}

\* Outside of a pass, and before it has planned, there is nothing to write.
Begins ==
  /\ pass.at = "idle" => pass = Idle
  /\ pass.at \in {"idle", "read", "look"} => pass.read = <<>>
  /\ pass.at \in Early => pass.adds = <<>> /\ pass.olds = <<>> /\ pass.drops = <<>> /\ pass.refused = {}
  /\ pass.at = "read" /\ ~job.merge => pass.unread = {Main} /\ pass.src = {}
  /\ pass.at = "record" => pass.drops = <<>>
  /\ pass.at = "keep" => job.all
  /\ pass.at \in {"add", "stage"} => pass.adds # <<>>
  /\ pass.at = "keep" => pass.olds # <<>>

\* Only a repair leaves copies that are told apart.
NoneStaged == pass.at \notin Repairing => \A i \in DOMAIN target : ~target[i].staged

\* Snapshots are of the past, and the recorded one is no newer than that of the pass.
Versions ==
  /\ version <= edits
  /\ ledger.version <= version /\ saved.version <= version /\ pass.version <= version
  /\ pass.at # "idle" => ledger.version <= pass.version /\ 0 <= pass.version
  /\ job.merge => ledger.version = Never

\* What a complete reading wants is what it read, and only then anything is removed.
ReadWhole ==
  /\ ~pass.incomplete => pass.wanted = pass.src
  /\ pass.drops # <<>> => ~pass.incomplete
  /\ \A k \in DOMAIN pass.drops : pass.drops[k] \notin pass.src

\* What is cached or was read under the snapshot of now is what the source has now.
SourceKnown == ~job.merge =>
  /\ saved.version = version => saved.tracks = Wanted
  /\ pass.at \notin {"idle", "read"} /\ pass.version = version => pass.src = Wanted

\* The lists of a plan are in order, of wanted tracks, and the old ones are there.
Planned ==
  /\ \A i, k \in DOMAIN pass.adds : i < k => pass.adds[i] < pass.adds[k]
  /\ \A i, k \in DOMAIN pass.olds : i < k => pass.olds[i] < pass.olds[k]
  /\ Elements(pass.adds) \subseteq pass.src /\ Elements(pass.olds) \subseteq Matched

On(t, staged) == \E i \in DOMAIN target : target[i].track = t /\ target[i].staged = staged

\* What is still to be retired: at "keep" the first of them is gone already.
Left == IF pass.at = "keep" THEN Elements(Tail(pass.olds)) ELSE Elements(pass.olds)
\* The track that was taken off with all of its copies.
Lacking == IF pass.at = "keep" /\ pass.keep > 0 THEN {Head(pass.olds)} ELSE {}

\* Old entries stay until their copies are there, so that no wanted track is ever missing.
OldKept == ~touched =>
  /\ pass.at = "plan" => target = pass.read
  /\ pass.at \in {"add", "drop", "record", "retire", "keep"} => Matched \subseteq Tracks(target) \cup Lacking
  /\ pass.at = "stage" \/ (pass.at = "undo" /\ ~job.all) => \A t \in Matched : On(t, FALSE)
  /\ pass.at = "stage" => \A t \in Elements(pass.olds) : t \in Elements(pass.adds) \cup pass.refused \/ On(t, TRUE)
  /\ pass.at \in {"retire", "keep"} =>
       \A t \in Left : On(t, TRUE) /\ On(t, FALSE) /\ t \notin Lacking

\* A pass that keeps nothing back brings what it has read ...
AllBrought == ~touched /\ ~pass.guard /\ pass.at \notin Early \cup {"undo"} =>
  pass.src \subseteq Tracks(target) \cup Lacking
                      \cup (IF pass.at \in {"add", "stage"} THEN Elements(pass.adds) ELSE {})
                      \cup (IF pass.at \in Repairing THEN pass.refused ELSE {})

\* ... and takes the rest away, copy by copy.
Times(list, t) == {k \in DOMAIN list : list[k] = t}
Count(t) == Cardinality(Places(target, t))
AllTaken == ~touched /\ ~pass.guard /\ pass.at \notin Early \cup {"undo"} =>
  \A t \in Track \ pass.src : Count(t) <= Cardinality(Times(pass.drops, t))

\* Once it recorded that, a later pass of the same snapshot finds nothing to do.
Settled == ~job.merge /\ ~touched /\ ledger.version = version =>
  /\ Tracks(target) = Wanted
  /\ pass.at \in Early \cup {"drop", "record"}
  /\ pass.adds = <<>> /\ pass.olds = <<>> /\ pass.drops = <<>>

\* No wanted track is on the destination that the pass does not know of.
Cached == ~job.merge /\ pass.at = "read" /\ saved.version = pass.version
Known ==
  /\ pass.at \notin {"idle", "read"} => Wanted \cap Tracks(target) \subseteq pass.src
  /\ pass.at = "read" /\ job.merge =>
       \A s \in Source \ pass.unread : lists[s] \cap Tracks(target) \subseteq pass.src
  /\ Cached => Wanted \cap Tracks(target) \subseteq saved.tracks

\* Before it plans, the destination has what it knows in order.
Relevant == Wanted \cup pass.src \cup (IF Cached THEN saved.tracks ELSE {})
Ordered(S) == \A i, j \in DOMAIN target :
  i < j /\ {target[i].track, target[j].track} \subseteq S => target[i].track < target[j].track

\* What is appended is newer than all that is there.
AppendsNewer == pass.at = "add" =>
  \A i \in DOMAIN target, k \in DOMAIN pass.adds :
    target[i].track \in pass.src => target[i].track < pass.adds[k]

\* The originals keep their order until they are retired, before the copies.
OldOrder == pass.at \in Repairing =>
  /\ \A i, j \in DOMAIN target :
       i < j /\ ~target[i].staged /\ ~target[j].staged /\ {target[i].track, target[j].track} \subseteq pass.src
         => target[i].track < target[j].track
  /\ pass.at # "undo" => \A i, j \in DOMAIN target : target[j].staged /\ ~target[i].staged => i < j

\* The copies are staged in order, each behind every original that stays before it.
StagedOrder == pass.at = "stage" =>
  /\ \A i \in DOMAIN target : target[i].staged => target[i].track \in pass.src
  /\ \A i, j \in DOMAIN target :
       i < j /\ target[i].staged /\ target[j].staged => target[i].track < target[j].track
  /\ \A i \in DOMAIN target, k \in DOMAIN pass.adds : target[i].staged => target[i].track < pass.adds[k]
  /\ \A i \in DOMAIN target : ~target[i].staged /\ target[i].track \in pass.src \ Elements(pass.olds) =>
       /\ \A j \in DOMAIN target : target[j].staged => target[i].track < target[j].track
       /\ \A k \in DOMAIN pass.adds : target[i].track < pass.adds[k]
  /\ job.all => \A u \in Elements(pass.olds) :
       /\ \A k \in DOMAIN pass.adds : pass.adds[k] \in Elements(pass.olds) \/ pass.adds[k] < u
       /\ \A j \in DOMAIN target : target[j].staged =>
            target[j].track \in Elements(pass.olds) \/ target[j].track < u

\* Where entries are retired one by one, the copies keep their order.
RetireOrder == pass.at = "retire" /\ ~job.all =>
  /\ \A i \in DOMAIN target : target[i].staged => target[i].track \in pass.src
  /\ \A i, j \in DOMAIN target :
       i < j /\ target[i].staged /\ target[j].staged => target[i].track < target[j].track
  /\ \A i, j \in DOMAIN target :
       ~target[i].staged /\ target[i].track \in pass.src \ Left /\ target[j].staged
         => target[i].track < target[j].track

\* Where a track goes with all its copies and comes back at the end, those that came back are in
\* order behind the new ones, and those that are left will follow them in order.
Back(j) == target[j].staged /\ target[j].track \notin Left
Coming == Left \cup Lacking
ComeBackOrder == pass.at \in {"retire", "keep"} /\ job.all =>
  /\ \A i \in DOMAIN target : target[i].staged => target[i].track \in pass.src
  /\ \A i, j \in DOMAIN target : i < j /\ Back(i) /\ Back(j) => target[i].track < target[j].track
  /\ \A i, j \in DOMAIN target :
       i < j /\ target[i].staged /\ target[j].staged /\ {target[i].track, target[j].track} \subseteq Left
         => target[i].track < target[j].track
  /\ \A j \in DOMAIN target : Back(j) => \A u \in Coming : target[j].track < u
  /\ \A i \in DOMAIN target : ~target[i].staged /\ target[i].track \in pass.src \ Left =>
       /\ \A j \in DOMAIN target : Back(j) => target[i].track < target[j].track
       /\ \A u \in Coming : target[i].track < u
  /\ pass.at = "keep" => pass.keep \in {0, 1} /\ Lacking \cap Tracks(target) = {}

OrderInv == ~touched /\ ~scarred /\ job.replay =>
  /\ Known
  /\ pass.at \in Early => Ordered(Relevant)
  /\ pass.at \in {"add", "drop", "record"} => Ordered(pass.src)
  /\ AppendsNewer /\ OldOrder /\ StagedOrder /\ RetireOrder /\ ComeBackOrder

Content ==
  /\ TypeOK /\ Begins /\ NoneStaged /\ Versions /\ ReadWhole /\ SourceKnown /\ Planned
  /\ OldKept /\ AllBrought /\ AllTaken /\ Settled

IInv == Content /\ OrderInv

-----------------------------------------------------------------------------
(* The operators that the steps are built from. *)

\* The ranks of a set of tracks list it in order.
LEMMA SortedIs ==
  ASSUME NEW S \in SUBSET Track
  PROVE  /\ Sorted(S) \in Seq(Track) /\ Elements(Sorted(S)) = S
         /\ \A i, k \in DOMAIN Sorted(S) : i < k => Sorted(S)[i] < Sorted(S)[k]
<1> DEFINE n == Cardinality(S)
           at == [k \in 1..n |-> CHOOSE t \in S : Rank(S, t) = k]
<1>1. NumTracks \in Nat /\ S \in SUBSET (1..NumTracks)
  BY MirrorAssumption DEF Track
<1>2. \A t \in S : t \in Int
  BY <1>1
<1>3. /\ n \in Nat
      /\ \A t \in S : Rank(S, t) \in 1..n
      /\ \A t, u \in S : t < u => Rank(S, t) < Rank(S, u)
      /\ \A k \in 1..n : \E t \in S : Rank(S, t) = k
  BY <1>1, RankIsBijection
<1>4. \A k \in 1..n : at[k] \in S /\ Rank(S, at[k]) = k
  BY <1>3
<1>5. Sorted(S) = at
  BY DEF Sorted
<1> HIDE DEF at, n
<1>6. at \in [1..n -> S]
  BY <1>4 DEF at
<1>7. at \in Seq(Track) /\ DOMAIN at = 1..n
  BY <1>3, <1>6
<1>8. ASSUME NEW t \in S, NEW u \in S, Rank(S, t) = Rank(S, u) PROVE t = u
  <2>1. ~(t < u) /\ ~(u < t)
    BY <1>3, <1>8
  <2>2. QED
    BY <1>2, <2>1
<1>9. ASSUME NEW t \in S PROVE \E k \in 1..n : at[k] = t
  BY <1>3, <1>4, <1>8
<1>10. Elements(at) = S
  BY <1>4, <1>7, <1>9 DEF Elements
<1>11. ASSUME NEW i \in 1..n, NEW k \in 1..n, i < k PROVE at[i] < at[k]
  <2>1. at[i] \in Int /\ at[k] \in Int
    BY <1>2, <1>4
  <2>2. ~(at[k] < at[i]) /\ at[k] # at[i]
    BY <1>3, <1>4, <1>11
  <2>3. QED
    BY <2>1, <2>2
<1>12. QED
  BY <1>5, <1>7, <1>10, <1>11

\* A nonempty list of tracks is its first one and the rest.
LEMMA HeadTail ==
  ASSUME NEW list \in Seq(Track), list # <<>>
  PROVE  /\ Head(list) \in Track /\ Tail(list) \in Seq(Track)
         /\ Elements(list) = {Head(list)} \cup Elements(Tail(list))
         /\ Len(list) = 1 <=> Tail(list) = <<>>
         /\ Len(list) = 1 => Elements(Tail(list)) = {}
         /\ \A k \in DOMAIN Tail(list) : k + 1 \in DOMAIN list /\ Tail(list)[k] = list[k + 1]
         /\ 1 \in DOMAIN list /\ Head(list) = list[1] /\ \A k \in DOMAIN list : k = 1 \/ k - 1 \in DOMAIN Tail(list)
<1>1. PICK n \in Nat : n = Len(list) /\ n >= 1 /\ DOMAIN list = 1..n
  BY EmptySeq, LenProperties
<1>2. /\ Head(list) = list[1] /\ list[1] \in Track
      /\ Tail(list) \in Seq(Track) /\ Len(Tail(list)) = n - 1 /\ DOMAIN Tail(list) = 1..(n - 1)
      /\ \A k \in 1..(n - 1) : Tail(list)[k] = list[k + 1]
  BY <1>1
<1>3. \A k \in 2..n : list[k] = Tail(list)[k - 1]
  BY <1>1, <1>2
<1>4. Elements(Tail(list)) = {list[k] : k \in 2..n}
  <2>1. \A k \in 1..(n - 1) : k + 1 \in 2..n
    BY <1>1
  <2>2. \A k \in 2..n : k - 1 \in 1..(n - 1)
    BY <1>1
  <2>3. DOMAIN Tail(list) = 1..(n - 1)
    BY <1>2
  <2>4. Elements(Tail(list)) = {Tail(list)[k] : k \in 1..(n - 1)}
    BY <2>3 DEF Elements
  <2>5. \A k \in 1..(n - 1) : Tail(list)[k] = list[k + 1]
    BY <1>2
  <2>6. {Tail(list)[k] : k \in 1..(n - 1)} \subseteq {list[k] : k \in 2..n}
    BY <2>1, <2>5
  <2>7. {list[k] : k \in 2..n} \subseteq {Tail(list)[k] : k \in 1..(n - 1)}
    BY <1>3, <2>2
  <2>8. QED
    BY <2>4, <2>6, <2>7
<1>5. Elements(list) = {list[1]} \cup {list[k] : k \in 2..n}
  BY <1>1 DEF Elements
<1>6. Len(list) = 1 <=> Tail(list) = <<>>
  BY <1>1, <1>2
<1>7. n = 1 => Elements(Tail(list)) = {}
  BY <1>4
<1>8. \A k \in 1..(n - 1) : k + 1 \in 1..n
  BY <1>1
<1>9. \A k \in 1..n : k = 1 \/ k - 1 \in 1..(n - 1)
  BY <1>1
<1>10. QED
  BY <1>1, <1>2, <1>4, <1>5, <1>6, <1>7, <1>8, <1>9

\* What is appended is at the end, and the rest is where it was.
LEMMA AppendIs ==
  ASSUME NEW list \in Seq(Entry), NEW e \in Entry
  PROVE  /\ Append(list, e) \in Seq(Entry)
         /\ Len(list) \in Nat /\ Len(list) + 1 \in DOMAIN Append(list, e) /\ Append(list, e)[Len(list) + 1] = e
         /\ \A i \in DOMAIN list : i \in DOMAIN Append(list, e) /\ Append(list, e)[i] = list[i] /\ i < Len(list) + 1
         /\ \A i \in DOMAIN Append(list, e) : i \in DOMAIN list \/ i = Len(list) + 1
         /\ Tracks(Append(list, e)) = Tracks(list) \cup {e.track}
         /\ \A t \in Track : t # e.track => Places(Append(list, e), t) = Places(list, t)
<1>1. PICK n \in Nat : n = Len(list) /\ DOMAIN list = 1..n
  BY LenProperties
<1>2. PICK new \in Seq(Entry) : new = Append(list, e)
  BY AppendProperties
<1>3. DOMAIN new = 1..(n + 1) /\ new[n + 1] = e /\ \A i \in 1..n : new[i] = list[i]
  BY <1>1, <1>2
<1>4. \A i \in 1..n : i \in 1..(n + 1) /\ i < n + 1
  OBVIOUS
<1>5. n + 1 \in 1..(n + 1) /\ \A i \in 1..(n + 1) : i \in 1..n \/ i = n + 1
  OBVIOUS
<1>6. Tracks(new) = Tracks(list) \cup {e.track}
  BY <1>1, <1>3, <1>4, <1>5 DEF Tracks
<1>7. \A t \in Track : t # e.track => Places(new, t) = Places(list, t)
  BY <1>1, <1>3, <1>4, <1>5 DEF Places
<1>8. QED
  BY <1>1, <1>2, <1>3, <1>4, <1>5, <1>6, <1>7

\* When a pass ends its copies are entries like the others.
LEMMA UnstagedIs ==
  ASSUME target \in Seq(Entry)
  PROVE  /\ Unstaged \in Seq(Entry) /\ DOMAIN Unstaged = DOMAIN target
         /\ \A i \in DOMAIN target : Unstaged[i].track = target[i].track /\ Unstaged[i].staged = FALSE
         /\ Tracks(Unstaged) = Tracks(target)
         /\ \A t \in Track : Places(Unstaged, t) = Places(target, t)
<1>1. PICK n \in Nat : DOMAIN target = 1..n /\ \A i \in 1..n : target[i] \in Entry
  BY LenProperties, ElementOfSeq
<1>2. ASSUME NEW e \in Entry
      PROVE  [e EXCEPT !.staged = FALSE] \in Entry /\ [e EXCEPT !.staged = FALSE].track = e.track
             /\ [e EXCEPT !.staged = FALSE].staged = FALSE
  BY DEF Entry
<1>3. \A i \in 1..n : Unstaged[i] \in Entry /\ Unstaged[i].track = target[i].track /\ Unstaged[i].staged = FALSE
  BY <1>1, <1>2 DEF Unstaged
<1>4. DOMAIN Unstaged = 1..n
  BY <1>1 DEF Unstaged
<1>5. Unstaged \in Seq(Entry)
  <2>1. Unstaged = [i \in 1..n |-> Unstaged[i]]
    BY <1>1 DEF Unstaged
  <2>2. QED
    BY <1>3, <2>1
<1>6. Tracks(Unstaged) = Tracks(target)
  BY <1>1, <1>3, <1>4 DEF Tracks
<1>7. \A t \in Track : Places(Unstaged, t) = Places(target, t)
  BY <1>1, <1>3, <1>4 DEF Places
<1>8. QED
  BY <1>1, <1>3, <1>4, <1>5, <1>6, <1>7

\* new is old without the places Out, in the same order.
Trims(new, old, Out) ==
  \E from \in [DOMAIN new -> DOMAIN old \ Out] :
    /\ \A i \in DOMAIN new : new[i] = old[from[i]]
    /\ \A i, k \in DOMAIN new : i < k => from[i] < from[k]
    /\ \A j \in DOMAIN old \ Out : \E i \in DOMAIN new : from[i] = j

\* Which tracks are left, and how often.
LEMMA TrimsIs ==
  ASSUME NEW old \in Seq(Entry), NEW new \in Seq(Entry), NEW Out, Trims(new, old, Out)
  PROVE  /\ Tracks(new) \subseteq Tracks(old)
         /\ \A t \in Track : t \in Tracks(new) <=> Places(old, t) \ Out # {}
         /\ \A t \in Track : /\ IsFiniteSet(Places(old, t)) /\ Cardinality(Places(old, t)) \in Nat
                             /\ Cardinality(Places(new, t)) \in Nat
                             /\ Cardinality(Places(new, t)) <= Cardinality(Places(old, t) \ Out)
                             /\ Cardinality(Places(new, t)) <= Cardinality(Places(old, t))
<1>1. PICK from \in [DOMAIN new -> DOMAIN old \ Out] :
        /\ \A i \in DOMAIN new : new[i] = old[from[i]]
        /\ \A i, k \in DOMAIN new : i < k => from[i] < from[k]
        /\ \A j \in DOMAIN old \ Out : \E i \in DOMAIN new : from[i] = j
  BY DEF Trims
<1>2. PICK n \in Nat, m \in Nat : DOMAIN old = 1..n /\ DOMAIN new = 1..m
  BY LenProperties
<1>3. \A i, k \in DOMAIN new : from[i] = from[k] => i = k
  <2>1. \A i, k \in 1..m : i < k => from[i] < from[k]
    BY <1>1, <1>2
  <2>2. \A i \in 1..m : from[i] \in 1..n
    BY <1>2
  <2>3. QED
    BY <1>2, <2>1, <2>2
<1>4. ASSUME NEW t \in Track
      PROVE  /\ IsFiniteSet(Places(old, t)) /\ Cardinality(Places(old, t)) \in Nat
             /\ Cardinality(Places(new, t)) \in Nat
             /\ Cardinality(Places(new, t)) <= Cardinality(Places(old, t) \ Out)
             /\ Cardinality(Places(new, t)) <= Cardinality(Places(old, t))
  <2> DEFINE P == Places(old, t)
             L == P \ Out
             Q == Places(new, t)
             f == [i \in Q |-> from[i]]
  <2>1. IsFiniteSet(P) /\ Cardinality(P) \in Nat
    <3>1. IsFiniteSet(1..n)
      BY FS_Interval
    <3>2. P \in SUBSET (1..n)
      BY <1>2 DEF Places
    <3>3. QED
      BY <3>1, <3>2, FS_Subset, FS_CardinalityType
  <2>2. IsFiniteSet(L) /\ Cardinality(L) <= Cardinality(P) /\ Cardinality(L) \in Nat
    BY <2>1, FS_Subset, FS_CardinalityType
  <2>3. f \in Injection(Q, L)
    <3>1. \A i \in Q : i \in DOMAIN new /\ from[i] \in L
      BY <1>1 DEF Places
    <3>2. f \in [Q -> L]
      BY <3>1
    <3>3. \A i, k \in Q : f[i] = f[k] => i = k
      BY <1>3, <3>1
    <3>4. QED
      BY <3>2, <3>3 DEF Injection, IsInjective
  <2>4. IsFiniteSet(Q) /\ Cardinality(Q) <= Cardinality(L)
    BY <2>2, <2>3, FS_Injection
  <2>5. Cardinality(Q) \in Nat
    BY <2>4, FS_CardinalityType
  <2>6. QED
    BY <2>1, <2>2, <2>4, <2>5
<1>5. Tracks(new) \subseteq Tracks(old)
  BY <1>1 DEF Tracks
<1>6. ASSUME NEW t \in Track PROVE t \in Tracks(new) <=> Places(old, t) \ Out # {}
  BY <1>1 DEF Tracks, Places
<1>7. QED
  BY <1>4, <1>5, <1>6

\* Removing an entry.
LEMMA LessTrims ==
  ASSUME NEW list \in Seq(Entry), NEW p \in DOMAIN list
  PROVE  Less(list, p) \in Seq(Entry) /\ Trims(Less(list, p), list, {p})
<1>1. PICK n \in Nat : n = Len(list) /\ DOMAIN list = 1..n /\ n >= 1 /\ \A i \in 1..n : list[i] \in Entry
  BY LenProperties, ElementOfSeq
<1> DEFINE from == [k \in 1..(n - 1) |-> IF k < p THEN k ELSE k + 1]
<1>2. \A k \in 1..(n - 1) : from[k] \in 1..n /\ from[k] # p
  BY <1>1
<1>3. \A i, k \in 1..(n - 1) : i < k => from[i] < from[k]
  BY <1>1
<1>4. \A j \in (1..n) \ {p} : \E i \in 1..(n - 1) : from[i] = j
  <2>1. ASSUME NEW j \in 1..n, j < p PROVE from[j] = j /\ j \in 1..(n - 1)
    BY <1>1, <2>1
  <2>2. ASSUME NEW j \in 1..n, j > p PROVE from[j - 1] = j /\ j - 1 \in 1..(n - 1)
    BY <1>1, <2>2
  <2>3. \A j \in (1..n) \ {p} : j < p \/ j > p
    BY <1>1
  <2>4. QED
    BY <2>1, <2>2, <2>3
<1>5. from \in [1..(n - 1) -> 1..n \ {p}]
  BY <1>2
<1>6. Less(list, p) = [k \in 1..(n - 1) |-> list[from[k]]]
  BY <1>1 DEF Less
<1> HIDE DEF from
<1>7. \A k \in 1..(n - 1) : list[from[k]] \in Entry
  BY <1>1, <1>2
<1>8. n - 1 \in Nat
  BY <1>1
<1>9. Less(list, p) \in Seq(Entry) /\ DOMAIN Less(list, p) = 1..(n - 1)
  BY <1>6, <1>7, <1>8
<1>10. PICK new \in Seq(Entry) : new = Less(list, p)
  BY <1>9
<1>11. DOMAIN new = 1..(n - 1) /\ \A i \in 1..(n - 1) : new[i] = list[from[i]]
  BY <1>6, <1>9, <1>10
<1>12. from \in [DOMAIN new -> DOMAIN list \ {p}]
  BY <1>1, <1>5, <1>11
<1>13. /\ \A i, k \in DOMAIN new : i < k => from[i] < from[k]
       /\ \A j \in DOMAIN list \ {p} : \E i \in DOMAIN new : from[i] = j
  BY <1>1, <1>3, <1>4, <1>11
<1>14. Trims(new, list, {p})
  BY <1>11, <1>12, <1>13 DEF Trims
<1>15. QED
  BY <1>10, <1>14

\* Removing every entry of a track.
LEMMA WithoutTrims ==
  ASSUME NEW list \in Seq(Entry), NEW t \in Track
  PROVE  Without(list, t) \in Seq(Entry) /\ Trims(Without(list, t), list, Places(list, t))
<1> DEFINE S == {e \in Entry : e.track # t}
<1>1. PICK n \in Nat : n = Len(list) /\ DOMAIN list = 1..n /\ \A i \in 1..n : list[i] \in Entry
  BY LenProperties, ElementOfSeq
<1>2. PICK new : new = Kept(list, S)
  OBVIOUS
<1>3. new \in Seq(Entry)
  BY <1>2, KeptElements
<1>4. PICK from \in [1..Len(new) -> Positions(list, S)] : Enumerates(list, S, from)
  BY <1>2, KeptPositions
<1>5. DOMAIN new = 1..Len(new)
  BY <1>3
<1>6. Positions(list, S) = DOMAIN list \ Places(list, t)
  BY <1>1 DEF Positions, Places
<1>7. Trims(new, list, Places(list, t))
  <2>1. from \in [DOMAIN new -> DOMAIN list \ Places(list, t)]
    BY <1>4, <1>5, <1>6
  <2>2. /\ \A i \in DOMAIN new : new[i] = list[from[i]]
        /\ \A i, k \in DOMAIN new : i < k => from[i] < from[k]
        /\ \A j \in DOMAIN list \ Places(list, t) : \E i \in DOMAIN new : from[i] = j
    BY <1>2, <1>4, <1>5, <1>6 DEF Enumerates
  <2>3. QED
    BY <2>1, <2>2 DEF Trims
<1>8. QED
  BY <1>2, <1>3, <1>7 DEF Without

\* A set of places has a first one.
LEMMA FirstPlace ==
  ASSUME NEW S \in SUBSET Nat, S # {}
  PROVE  (CHOOSE i \in S : \A k \in S : i <= k) \in S
<1>1. PICK i \in S : \A k \in S : ~(<<k, i>> \in OpToRel(<, Nat))
  BY NatLessThanWellFounded, WFMin
<1>2. \A k \in S : ~(k < i)
  BY <1>1 DEF OpToRel
<1>3. \A k \in S : i <= k
  BY <1>2
<1>4. QED
  BY <1>3

\* Either every entry of the track goes, or one of the sort, unless there is none.
LEMMA DropIs ==
  ASSUME target \in Seq(Entry), NEW t \in Track, NEW staged \in BOOLEAN
  PROVE  /\ Drop(t, staged) \in Seq(Entry)
         /\ \E Out \in SUBSET Places(target, t) :
              /\ Trims(Drop(t, staged), target, Out)
              /\ job.all => Out = Places(target, t)
              /\ ~job.all => /\ \A i \in Out : target[i].staged = staged
                             /\ Out = {} => \A i \in Places(target, t) : target[i].staged # staged
<1>1. PICK n \in Nat : n = Len(target) /\ DOMAIN target = 1..n /\ \A i \in 1..n : target[i] \in Entry
  BY LenProperties, ElementOfSeq
<1>2. ASSUME job.all
      PROVE  Drop(t, staged) \in Seq(Entry) /\ Trims(Drop(t, staged), target, Places(target, t))
  BY <1>2, WithoutTrims DEF Drop
<1> DEFINE at == {i \in Places(target, t) : target[i].staged = staged}
<1>3. ASSUME ~job.all, at = {} PROVE Drop(t, staged) \in Seq(Entry) /\ Trims(Drop(t, staged), target, {})
  <2>1. Drop(t, staged) = target
    BY <1>3 DEF Drop
  <2>2. [i \in 1..n |-> i] \in [DOMAIN target -> DOMAIN target \ {}]
    BY <1>1
  <2>3. Trims(target, target, {})
    BY <1>1, <2>2 DEF Trims
  <2>4. QED
    BY <2>1, <2>3
<1>4. ASSUME ~job.all, at # {}
      PROVE  \E p \in at : Drop(t, staged) \in Seq(Entry) /\ Trims(Drop(t, staged), target, {p})
  <2>1. PICK p : p = CHOOSE i \in at : \A k \in at : i <= k
    OBVIOUS
  <2>2. at \in SUBSET Nat
    BY <1>1 DEF Places
  <2>3. p \in at
    BY <1>4, <2>1, <2>2, FirstPlace
  <2>4. Drop(t, staged) = Less(target, p)
    BY <1>4, <2>1 DEF Drop
  <2>5. p \in DOMAIN target
    BY <2>3 DEF Places
  <2>6. QED
    BY <2>3, <2>4, <2>5, LessTrims
<1>5. CASE job.all
  BY <1>2, <1>5
<1>6. CASE ~job.all /\ at = {}
  BY <1>3, <1>6
<1>7. CASE ~job.all /\ at # {}
  <2>1. PICK p \in at : Drop(t, staged) \in Seq(Entry) /\ Trims(Drop(t, staged), target, {p})
    BY <1>4, <1>7
  <2>2. QED
    BY <1>7, <2>1
<1>8. QED
  BY <1>5, <1>6, <1>7

-----------------------------------------------------------------------------
(* What steps have in common. *)

\* The fields of a pass that has not begun.
LEMMA IdleIs ==
  /\ Idle \in PassRecord
  /\ Idle.at = "idle" /\ Idle.version = Never /\ Idle.unread = {} /\ Idle.src = {} /\ Idle.incomplete = FALSE
  /\ Idle.wanted = {} /\ Idle.read = <<>> /\ Idle.adds = <<>> /\ Idle.olds = <<>> /\ Idle.drops = <<>>
  /\ Idle.refused = {} /\ Idle.found = {} /\ Idle.keep = 0 /\ Idle.guard = FALSE
<1>1. <<>> \in Seq(Track) /\ <<>> \in Seq(Entry)
  OBVIOUS
<1>2. QED
  BY <1>1 DEF Idle, PassRecord, Never

\* The fields of a pass and of the two records.
LEMMA Fields ==
  ASSUME TypeOK
  PROVE  /\ pass \in PassRecord /\ target \in Seq(Entry) /\ version \in 0..MaxEdits /\ edits \in 0..MaxEdits
         /\ pass.at \in {"idle", "read", "look", "plan", "add", "stage", "undo", "retire", "keep", "drop", "record"}
         /\ pass.version \in 0..MaxEdits \cup {Never} /\ pass.unread \subseteq Source /\ pass.src \subseteq Track
         /\ pass.incomplete \in BOOLEAN /\ pass.wanted \subseteq Track /\ pass.read \in Seq(Entry)
         /\ pass.adds \in Seq(Track) /\ pass.olds \in Seq(Track) /\ pass.drops \in Seq(Track)
         /\ pass.refused \subseteq Track /\ pass.keep \in Nat /\ pass.added \in Nat /\ pass.removed \in Nat
         /\ pass.guard \in BOOLEAN
         /\ ledger.version \in 0..MaxEdits \cup {Never} /\ saved.version \in 0..MaxEdits \cup {Never}
         /\ saved.tracks \subseteq Track
         /\ job.all \in BOOLEAN /\ job.merge \in BOOLEAN /\ job.replay \in BOOLEAN /\ job.drain \in BOOLEAN
<1>1. pass \in PassRecord /\ target \in Seq(Entry) /\ version \in 0..MaxEdits /\ edits \in 0..MaxEdits
  BY DEF TypeOK
<1>2. PICK p \in PassRecord : p = pass
  BY <1>1
<1>3. /\ p.at \in {"idle", "read", "look", "plan", "add", "stage", "undo", "retire", "keep", "drop", "record"}
      /\ p.version \in 0..MaxEdits \cup {Never} /\ p.unread \subseteq Source /\ p.src \subseteq Track
      /\ p.incomplete \in BOOLEAN /\ p.wanted \subseteq Track /\ p.read \in Seq(Entry)
      /\ p.adds \in Seq(Track) /\ p.olds \in Seq(Track) /\ p.drops \in Seq(Track)
      /\ p.refused \subseteq Track /\ p.keep \in Nat /\ p.added \in Nat /\ p.removed \in Nat
      /\ p.guard \in BOOLEAN
  BY DEF PassRecord
<1>4. /\ ledger.version \in 0..MaxEdits \cup {Never} /\ saved.version \in 0..MaxEdits \cup {Never}
      /\ saved.tracks \subseteq Track
  BY DEF TypeOK
<1>5. job \in JobType
  BY MirrorAssumption DEF TypeOK
<1>6. job.all \in BOOLEAN /\ job.merge \in BOOLEAN /\ job.replay \in BOOLEAN /\ job.drain \in BOOLEAN
  BY <1>5 DEF JobType
<1>7. QED
  BY <1>1, <1>2, <1>3, <1>4, <1>6

\* The entries of a list are entries.
LEMMA EntryIs ==
  ASSUME NEW list \in Seq(Entry), NEW i \in DOMAIN list
  PROVE  /\ list[i] \in Entry /\ list[i].track \in Track /\ list[i].staged \in BOOLEAN
         /\ list[i].track \in Tracks(list) /\ i \in Nat
<1>1. list[i] \in Entry /\ i \in Nat
  BY LenProperties, ElementOfSeq
<1>2. QED
  BY <1>1 DEF Entry, Tracks

\* What becomes of the types of everything that no step of a pass touches.
LEMMA EngineTypes ==
  ASSUME TypeOK, Engine, Fine \/ Faulty
  PROVE  /\ job' \in Jobs /\ lists' \in [Source -> SUBSET Track] /\ version' \in 0..MaxEdits
         /\ touched' \in BOOLEAN /\ edits' \in 0..MaxEdits /\ faults' \in 0..MaxFaults
         /\ Of' = Of /\ Wanted' = Wanted
<1>1. faults' \in 0..MaxFaults
  BY MirrorAssumption DEF TypeOK, Fine, Faulty
<1>2. QED
  BY <1>1 DEF TypeOK, Engine, Of, Wanted

\* A pass that ends, whatever is on the playlist, leaves the recorded state to be justified.
LEMMA Ending ==
  ASSUME Content, Engine, Fine \/ Faulty, UNCHANGED saved, scarred' \in BOOLEAN,
         pass' = Idle, target' \in Seq(Entry), \A i \in DOMAIN target' : ~target'[i].staged,
         ledger' \in [version : 0..MaxEdits \cup {Never}, count : Int],
         ledger'.version <= version, job.merge => ledger'.version = Never, Settled'
  PROVE  Content'
<1>1. TypeOK'
  <2>1. saved' \in [version : 0..MaxEdits \cup {Never}, tracks : SUBSET Track]
    BY DEF Content, TypeOK
  <2>2. pass' \in PassRecord
    BY IdleIs
  <2>3. QED
    BY <2>1, <2>2, EngineTypes DEF Content, TypeOK
<1>2. /\ pass'.at = "idle" /\ pass'.version = Never /\ pass'.src = {} /\ pass'.incomplete = FALSE
      /\ pass'.wanted = {} /\ pass'.read = <<>> /\ pass'.adds = <<>> /\ pass'.olds = <<>> /\ pass'.drops = <<>>
      /\ pass'.refused = {}
  BY IdleIs
<1>3. Begins'
  BY <1>2 DEF Begins
<1>4. NoneStaged'
  BY DEF NoneStaged
<1>5. Versions'
  BY <1>2, Fields DEF Content, Versions, Engine, Never
<1>6. ReadWhole'
  BY <1>2 DEF ReadWhole
<1>7. SourceKnown'
  BY <1>2, EngineTypes DEF Content, SourceKnown, Engine
<1>8. Planned'
  BY <1>2 DEF Planned, Elements
<1>9. OldKept' /\ AllBrought' /\ AllTaken'
  BY <1>2 DEF OldKept, AllBrought, AllTaken, Early
<1>10. QED
  BY <1>1, <1>3, <1>4, <1>5, <1>6, <1>7, <1>8, <1>9 DEF Content

\* Under way, a pass keeps what it has read.
Carries ==
  /\ pass'.version = pass.version /\ pass'.src = pass.src /\ pass'.wanted = pass.wanted
  /\ pass'.incomplete = pass.incomplete /\ pass'.read = pass.read

\* A step under way that keeps what was read keeps all that rests on reading alone.
LEMMA Midway ==
  ASSUME Content, Engine, Fine \/ Faulty, UNCHANGED <<ledger, saved>>, scarred' \in BOOLEAN,
         pass.at \notin {"idle", "read"}, pass' \in PassRecord, pass'.at \notin {"idle", "read"}, Carries,
         target' \in Seq(Entry),
         pass'.drops # <<>> => ~pass'.incomplete, \A k \in DOMAIN pass'.drops : pass'.drops[k] \notin pass'.src
  PROVE  TypeOK' /\ Versions' /\ ReadWhole' /\ SourceKnown' /\ Matched' = Matched
<1>1. TypeOK'
  BY EngineTypes DEF Content, TypeOK
<1>2. Versions'
  BY DEF Content, Versions, Engine, Carries
<1>3. ReadWhole'
  BY DEF Content, ReadWhole, Carries
<1>4. SourceKnown'
  BY EngineTypes DEF Content, SourceKnown, Engine, Carries
<1>5. Matched' = Matched
  BY DEF Matched, Carries
<1>6. QED
  BY <1>1, <1>2, <1>3, <1>4, <1>5

-----------------------------------------------------------------------------
(* People. *)

\* An edit of a source makes a new snapshot, which nothing recorded stands for.
LEMMA EditSourceKeeps == ASSUME Content, NEW s \in Source, NEW t \in Track, EditSource(s, t) PROVE Content'
<1>1. /\ job' = job /\ ledger' = ledger /\ saved' = saved /\ pass' = pass /\ faults' = faults
      /\ target' = target /\ touched' = touched /\ version' = version + 1 /\ edits' = edits + 1 /\ edits < MaxEdits
  BY DEF EditSource, Edit
<1>2. Versions'
  <2>1. /\ version \in Int /\ edits \in Int /\ ledger.version \in Int /\ saved.version \in Int
        /\ pass.version \in Int
    BY Fields DEF Content, Never
  <2>2. /\ version <= edits /\ ledger.version <= version /\ saved.version <= version /\ pass.version <= version
        /\ pass.at # "idle" => ledger.version <= pass.version /\ 0 <= pass.version
        /\ job.merge => ledger.version = Never
    BY DEF Content, Versions
  <2>3. /\ version + 1 <= edits + 1 /\ ledger.version <= version + 1 /\ saved.version <= version + 1
        /\ pass.version <= version + 1
    BY <2>1, <2>2
  <2>4. QED
    BY <1>1, <2>2, <2>3 DEF Versions
<1>3. TypeOK'
  <2>1. version \in 0..MaxEdits /\ edits \in 0..MaxEdits /\ MaxEdits \in Nat /\ version <= edits
    BY Fields, MirrorAssumption DEF Content, Versions
  <2>2. version' \in 0..MaxEdits /\ edits' \in 0..MaxEdits
    BY <1>1, <2>1
  <2>3. lists' \in [Source -> SUBSET Track]
    BY DEF Content, TypeOK, EditSource
  <2>4. scarred' \in BOOLEAN
    BY DEF Content, TypeOK, EditSource
  <2>5. QED
    BY <1>1, <2>2, <2>3, <2>4 DEF Content, TypeOK
<1>4. ledger.version # version + 1 /\ saved.version # version + 1 /\ pass.version # version + 1
  BY Fields DEF Content, Versions, Never
<1>5. SourceKnown' /\ Settled'
  BY <1>1, <1>4 DEF SourceKnown, Settled
<1>6. Begins' /\ NoneStaged' /\ ReadWhole' /\ Planned'
  BY <1>1 DEF Content, Begins, NoneStaged, ReadWhole, Planned, Matched
<1>7. OldKept' /\ AllBrought' /\ AllTaken'
  BY <1>1 DEF Content, OldKept, AllBrought, AllTaken, Matched, On, Left, Lacking, Count
<1>8. QED
  BY <1>2, <1>3, <1>5, <1>6, <1>7 DEF Content

\* After an edit of the destination by a person, nothing is claimed of it.
LEMMA EditTargetKeeps == ASSUME Content, NEW t \in Track, EditTarget(t) PROVE Content'
<1>1. /\ job' = job /\ ledger' = ledger /\ saved' = saved /\ pass' = pass /\ faults' = faults
      /\ lists' = lists /\ scarred' = scarred /\ touched' = TRUE /\ version' = version /\ edits' = edits + 1
      /\ edits < MaxEdits
  BY DEF EditTarget, Edit
<1>2. target \in Seq(Entry)
  BY DEF Content, TypeOK
<1>3. edits' \in 0..MaxEdits
  <2>1. edits \in 0..MaxEdits /\ MaxEdits \in Nat
    BY Fields, MirrorAssumption DEF Content
  <2>2. QED
    BY <1>1, <2>1
<1> DEFINE e == [track |-> t, staged |-> pass.at \in {"stage", "undo"}]
<1>4. e \in Entry /\ e.staged = (pass.at \in {"stage", "undo"})
  BY DEF Entry
<1>5. CASE t \in Tracks(target)
  <2>1. target' = Without(target, t)
    BY <1>5 DEF EditTarget
  <2>2. target' \in Seq(Entry) /\ Trims(target', target, Places(target, t))
    BY <1>2, <2>1, WithoutTrims
  <2>3. NoneStaged'
    BY <1>1, <2>2 DEF Content, NoneStaged, Trims
  <2>4. QED
    <3>1. target' \in Seq(Entry) /\ NoneStaged'
      BY <2>2, <2>3
    <3>2. Versions'
      BY <1>1, Fields DEF Content, Versions
    <3>3. TypeOK'
      BY <1>1, <1>3, <3>1 DEF Content, TypeOK
    <3>4. SourceKnown' /\ Begins' /\ ReadWhole' /\ Planned'
      BY <1>1 DEF Content, SourceKnown, Begins, ReadWhole, Planned, Matched, Wanted, Of
    <3>5. OldKept' /\ AllBrought' /\ AllTaken' /\ Settled'
      BY <1>1 DEF OldKept, AllBrought, AllTaken, Settled
    <3>6. QED
      BY <3>1, <3>2, <3>3, <3>4, <3>5 DEF Content
<1>6. CASE t \notin Tracks(target)
  <2>1. target' = Append(target, e)
    BY <1>6 DEF EditTarget, Append1
  <2>2. target' \in Seq(Entry)
    BY <1>2, <1>4, <2>1, AppendIs
  <2>3. NoneStaged'
    <3>1. SUFFICES ASSUME pass.at \notin Repairing, NEW i \in DOMAIN target' PROVE ~target'[i].staged
      BY <1>1 DEF NoneStaged
    <3>2. ~e.staged
      BY <1>4, <3>1 DEF Repairing
    <3>3. (i \in DOMAIN target /\ target'[i] = target[i]) \/ target'[i] = e
      BY <1>2, <1>4, <2>1, AppendIs
    <3>4. QED
      BY <3>1, <3>2, <3>3 DEF Content, NoneStaged
  <2>4. QED
    <3>2. Versions'
      BY <1>1, Fields DEF Content, Versions
    <3>3. TypeOK'
      BY <1>1, <1>3, <2>2 DEF Content, TypeOK
    <3>4. SourceKnown' /\ Begins' /\ ReadWhole' /\ Planned'
      BY <1>1 DEF Content, SourceKnown, Begins, ReadWhole, Planned, Matched, Wanted, Of
    <3>5. OldKept' /\ AllBrought' /\ AllTaken' /\ Settled'
      BY <1>1 DEF OldKept, AllBrought, AllTaken, Settled
    <3>6. QED
      BY <2>3, <3>2, <3>3, <3>4, <3>5 DEF Content
<1>7. QED
  BY <1>5, <1>6

-----------------------------------------------------------------------------
(* Reading. *)

\* A pass begins with nothing read, under the snapshot of now.
LEMMA BeginKeeps == ASSUME Content, Begin PROVE Content'
<1>1. PICK r \in PassRecord : r = Idle
  BY IdleIs
<1>2. Of \subseteq Source /\ version \in 0..MaxEdits
  BY MirrorAssumption, Fields DEF Of, Content
<1>3. PICK n \in PassRecord : n = [r EXCEPT !.at = "read", !.version = version, !.unread = Of]
  BY <1>2 DEF PassRecord
<1>4. pass' = n
  BY <1>1, <1>3 DEF Begin
<1>5. /\ n.at = "read" /\ n.version = version /\ n.unread = Of
      /\ n.src = r.src /\ n.incomplete = r.incomplete /\ n.wanted = r.wanted /\ n.read = r.read
      /\ n.adds = r.adds /\ n.olds = r.olds /\ n.drops = r.drops /\ n.refused = r.refused
  BY <1>3 DEF PassRecord
<1>6. /\ pass'.at = "read" /\ pass'.version = version /\ pass'.unread = Of /\ pass'.src = {}
      /\ pass'.incomplete = FALSE /\ pass'.wanted = {} /\ pass'.read = <<>> /\ pass'.adds = <<>>
      /\ pass'.olds = <<>> /\ pass'.drops = <<>> /\ pass'.refused = {}
  BY <1>1, <1>4, <1>5, IdleIs
<1>7. Engine /\ Fine /\ target' = target /\ ledger' = ledger /\ saved' = saved /\ scarred' = scarred /\ pass.at = "idle"
  BY DEF Begin
<1>8. TypeOK'
  BY <1>4, <1>7, EngineTypes DEF Content, TypeOK
<1>9. Begins'
  BY <1>6, <1>7, EngineTypes DEF Begins, Of, Engine
<1>10. NoneStaged'
  BY <1>7 DEF Content, NoneStaged, Repairing
<1>11. Versions'
  BY <1>6, <1>7, Fields DEF Content, Versions, Engine
<1>12. SourceKnown'
  BY <1>6, <1>7, EngineTypes DEF Content, SourceKnown, Engine
<1>13. ReadWhole' /\ Planned'
  BY <1>6 DEF ReadWhole, Planned, Elements
<1>14. OldKept' /\ AllBrought' /\ AllTaken'
  BY <1>6 DEF OldKept, AllBrought, AllTaken, Early
<1>15. Settled'
  BY <1>6, <1>7, EngineTypes DEF Content, Settled, Engine, Early
<1>16. QED
  BY <1>8, <1>9, <1>10, <1>11, <1>12, <1>13, <1>14, <1>15 DEF Content

\* What a pass knows after one source.
LEMMA ReadIs ==
  ASSUME TypeOK, NEW s \in Source, NEW all \in SUBSET Track, NEW tracks \in SUBSET Track, NEW some \in BOOLEAN,
         pass.at = "read", pass' = Read(s, all, tracks, some)
  PROVE  /\ pass' \in PassRecord
         /\ pass'.src = pass.src \cup tracks /\ pass'.wanted = pass.wanted \cup all
         /\ pass'.unread = pass.unread \ {s} /\ pass'.at = (IF pass.unread = {s} THEN "look" ELSE "read")
         /\ ~pass'.incomplete => ~pass.incomplete /\ ~some
         /\ pass'.version = pass.version /\ pass'.read = pass.read /\ pass'.adds = pass.adds /\ pass'.olds = pass.olds
         /\ pass'.drops = pass.drops /\ pass'.refused = pass.refused /\ pass'.keep = pass.keep
<1>1. PICK r \in PassRecord : r = pass
  BY DEF TypeOK
<1>2. PICK p : p = pass
  OBVIOUS
<1>3. PICK at \in {"read", "look"} : at = (IF pass.unread = {s} THEN "look" ELSE "read")
  OBVIOUS
<1>4. PICK src \in SUBSET Track : src = pass.src \cup tracks
  BY Fields
<1>5. PICK wanted \in SUBSET Track : wanted = pass.wanted \cup all
  BY Fields
<1>6. PICK unread \in SUBSET Source : unread = pass.unread \ {s}
  BY Fields
<1>7. PICK part \in BOOLEAN : part = (pass.incomplete \/ some)
  BY Fields
<1>8. PICK n \in PassRecord : n = [r EXCEPT !.src = src, !.wanted = wanted, !.unread = unread,
                                         !.incomplete = part, !.at = at]
  BY DEF PassRecord
<1>9. pass' = n
  BY <1>1, <1>3, <1>4, <1>5, <1>6, <1>7, <1>8 DEF Read
<1>10. /\ n.src = src /\ n.wanted = wanted /\ n.unread = unread /\ n.incomplete = part /\ n.at = at
       /\ n.version = r.version /\ n.read = r.read /\ n.adds = r.adds /\ n.olds = r.olds
       /\ n.drops = r.drops /\ n.refused = r.refused /\ n.keep = r.keep
  BY <1>8 DEF PassRecord
<1>11. QED
  BY <1>1, <1>3, <1>4, <1>5, <1>6, <1>7, <1>9, <1>10

\* Reading sources changes nothing that the others rest on.
LEMMA ReadingKeeps ==
  ASSUME Content, Engine, Fine \/ Faulty, UNCHANGED <<target, ledger>>, scarred' \in BOOLEAN,
         pass.at = "read", pass' \in PassRecord, pass'.at \in {"read", "look"}, pass'.read = pass.read,
         pass'.adds = pass.adds, pass'.olds = pass.olds, pass'.drops = pass.drops, pass'.refused = pass.refused,
         pass'.version = pass.version,
         saved' \in [version : 0..MaxEdits \cup {Never}, tracks : SUBSET Track], saved'.version <= version,
         pass'.at = "read" => job.merge, ~pass'.incomplete => pass'.wanted = pass'.src, SourceKnown'
  PROVE  Content'
<1>1. TypeOK'
  BY EngineTypes DEF Content, TypeOK
<1>2. /\ pass.read = <<>> /\ pass.adds = <<>> /\ pass.olds = <<>> /\ pass.drops = <<>> /\ pass.refused = {}
  BY DEF Content, Begins, Early
<1>3. Begins'
  BY <1>2 DEF Begins, Engine
<1>4. NoneStaged'
  BY DEF Content, NoneStaged, Repairing
<1>5. Versions'
  BY DEF Content, Versions, Engine
<1>6. ReadWhole' /\ Planned'
  BY <1>2 DEF ReadWhole, Planned, Elements
<1>7. OldKept' /\ AllBrought' /\ AllTaken'
  BY DEF OldKept, AllBrought, AllTaken, Early
<1>8. Settled'
  BY <1>2, EngineTypes DEF Content, Settled, Engine, Early
<1>9. QED
  BY <1>1, <1>3, <1>4, <1>5, <1>6, <1>7, <1>8 DEF Content

\* A pass that ends with the playlist as it was leaves the recorded state as true as it was.
LEMMA EndsUnwritten ==
  ASSUME Content, Engine, Fine \/ Faulty, UNCHANGED <<ledger, saved>>, scarred' \in BOOLEAN, Ends
  PROVE  Content'
<1>1. target \in Seq(Entry)
  BY DEF Content, TypeOK
<1>2. pass' = Idle /\ target' = Unstaged
  BY DEF Ends
<1>3. Settled'
  <2>1. pass'.at = "idle" /\ pass'.adds = <<>> /\ pass'.olds = <<>> /\ pass'.drops = <<>>
    BY <1>2, IdleIs
  <2>2. Tracks(target') = Tracks(target)
    BY <1>1, <1>2, UnstagedIs
  <2>3. QED
    BY <2>1, <2>2, EngineTypes DEF Content, Settled, Engine, Early
<1>4. target' \in Seq(Entry) /\ \A i \in DOMAIN target' : ~target'[i].staged
  BY <1>1, <1>2, UnstagedIs
<1>5. ledger' \in [version : 0..MaxEdits \cup {Never}, count : Int]
  BY DEF Content, TypeOK
<1>6. QED
  BY <1>2, <1>3, <1>4, <1>5, Ending DEF Content, Versions

\* What the cache answers under a snapshot is what was read under it.
LEMMA ReadSourceKeeps == ASSUME Content, ReadSource PROVE Content'
<1> DEFINE tracks == IF saved.version = pass.version THEN saved.tracks ELSE lists[Main]
<1>1. /\ pass.at = "read" /\ ~job.merge /\ Engine /\ UNCHANGED <<ledger, scarred>> /\ (Fine \/ Faulty)
  BY DEF ReadSource
<1>2. scarred' \in BOOLEAN
  BY <1>1 DEF Content, TypeOK
<1>3. ASSUME NEW some \in BOOLEAN, pass' = Read(Main, tracks, tracks, some),
             saved' = [version |-> pass.version, tracks |-> tracks], target' = target
      PROVE  Content'
  <2>1. Main \in Source /\ lists[Main] \subseteq Track
    BY MirrorAssumption DEF Content, TypeOK
  <2>2. tracks \in SUBSET Track
    BY <2>1, Fields DEF Content
  <2>3. pass.unread = {Main} /\ pass.src = {}
    BY <1>1 DEF Content, Begins
  <2>4. PICK got \in SUBSET Track : got = tracks
    BY <2>2
  <2>5. pass' = Read(Main, got, got, some) /\ saved' = [version |-> pass.version, tracks |-> got]
    BY <1>3, <2>4
  <2>6. /\ pass' \in PassRecord
        /\ pass'.src = pass.src \cup got /\ pass'.wanted = pass.wanted \cup got
        /\ pass'.at = (IF pass.unread = {Main} THEN "look" ELSE "read")
        /\ ~pass'.incomplete => ~pass.incomplete /\ ~some
        /\ pass'.version = pass.version /\ pass'.read = pass.read /\ pass'.adds = pass.adds /\ pass'.olds = pass.olds
        /\ pass'.drops = pass.drops /\ pass'.refused = pass.refused
    BY <1>1, <2>1, <2>5, ReadIs DEF Content
  <2>7. pass'.at = "look" /\ pass'.src = got
    BY <2>3, <2>6
  <2>8. pass.version \in 0..MaxEdits \cup {Never} /\ pass.version <= version
    BY Fields DEF Content, Versions
  <2>9. /\ saved' \in [version : 0..MaxEdits \cup {Never}, tracks : SUBSET Track]
        /\ saved'.version = pass.version /\ saved'.tracks = got
    BY <2>5, <2>8
  <2>10. Wanted = lists[Main]
    BY <1>1 DEF Wanted, Of
  <2>11. pass.version = version => got = Wanted
    BY <1>1, <2>4, <2>10 DEF Content, SourceKnown
  <2>12. SourceKnown'
    <3>1. Wanted' = Wanted /\ version' = version
      BY <1>1, EngineTypes DEF Content, Engine
    <3>2. QED
      BY <2>6, <2>7, <2>9, <2>11, <3>1 DEF SourceKnown
  <2>13. ~pass'.incomplete => pass'.wanted = pass'.src
    BY <2>3, <2>6 DEF Content, ReadWhole
  <2>14. QED
    BY <1>1, <1>2, <1>3, <2>6, <2>7, <2>8, <2>9, <2>12, <2>13, ReadingKeeps
<1>4. CASE Ends /\ saved' = saved
  BY <1>1, <1>2, <1>4, EndsUnwritten
<1>5. QED
  BY <1>3, <1>4 DEF ReadSource

\* A source that fails, or returns less than it has, makes the union incomplete.
LEMMA ReadUnionKeeps == ASSUME Content, ReadUnion PROVE Content'
<1>1. /\ pass.at = "read" /\ job.merge /\ Engine /\ UNCHANGED <<target, ledger, saved>> /\ (Fine \/ Faulty)
  BY DEF ReadUnion
<1>2. scarred' \in BOOLEAN
  BY DEF ReadUnion, Content, TypeOK
<1>3. saved' \in [version : 0..MaxEdits \cup {Never}, tracks : SUBSET Track] /\ saved'.version <= version
  BY <1>1 DEF Content, TypeOK, Versions
<1>4. SourceKnown'
  BY <1>1 DEF SourceKnown, Engine
<1>5. pass.unread \subseteq Source /\ \A s \in Source : lists[s] \in SUBSET Track
  BY Fields DEF Content, TypeOK
<1>6. ASSUME NEW s \in pass.unread, NEW got \in SUBSET lists[s], NEW part \in BOOLEAN,
             pass' = Read(s, lists[s], got, part), ~part => got = lists[s]
      PROVE  Content'
  <2>1. s \in Source /\ lists[s] \in SUBSET Track /\ got \in SUBSET Track
    BY <1>5, <1>6
  <2>2. /\ pass' \in PassRecord
        /\ pass'.src = pass.src \cup got /\ pass'.wanted = pass.wanted \cup lists[s]
        /\ pass'.at = (IF pass.unread = {s} THEN "look" ELSE "read")
        /\ ~pass'.incomplete => ~pass.incomplete /\ ~part
        /\ pass'.version = pass.version /\ pass'.read = pass.read /\ pass'.adds = pass.adds /\ pass'.olds = pass.olds
        /\ pass'.drops = pass.drops /\ pass'.refused = pass.refused
    BY <1>1, <1>6, <2>1, ReadIs DEF Content
  <2>3. ~pass'.incomplete => pass'.wanted = pass'.src
    BY <1>6, <2>2 DEF Content, ReadWhole
  <2>4. pass'.at \in {"read", "look"}
    BY <2>2
  <2>5. QED
    BY <1>1, <1>2, <1>3, <1>4, <2>2, <2>3, <2>4, ReadingKeeps
<1>7. CASE pass' = [pass EXCEPT !.at = "look", !.incomplete = TRUE, !.unread = {},
                                !.wanted = @ \cup UNION {lists[u] : u \in pass.unread}]
  <2>1. PICK r \in PassRecord : r = pass
    BY DEF Content, TypeOK
  <2>2. PICK all \in SUBSET Track : all = pass.wanted \cup UNION {lists[u] : u \in pass.unread}
    BY <1>5, Fields DEF Content
  <2>3. PICK n \in PassRecord : n = [r EXCEPT !.at = "look", !.incomplete = TRUE, !.unread = {}, !.wanted = all]
    BY DEF PassRecord
  <2>4. pass' = n
    BY <1>7, <2>1, <2>2, <2>3
  <2>5. /\ n.at = "look" /\ n.incomplete = TRUE /\ n.version = r.version /\ n.read = r.read /\ n.adds = r.adds
        /\ n.olds = r.olds /\ n.drops = r.drops /\ n.refused = r.refused
    BY <2>3 DEF PassRecord
  <2>6. /\ pass' \in PassRecord /\ pass'.at = "look" /\ pass'.incomplete /\ pass'.version = pass.version
        /\ pass'.read = pass.read /\ pass'.adds = pass.adds
        /\ pass'.olds = pass.olds /\ pass'.drops = pass.drops /\ pass'.refused = pass.refused
    BY <2>1, <2>4, <2>5
  <2>7. QED
    BY <1>1, <1>2, <1>3, <1>4, <2>6, ReadingKeeps
<1>8. QED
  <2>1. PICK s \in pass.unread :
          \/ pass' = Read(s, lists[s], lists[s], FALSE)
          \/ \E some \in SUBSET lists[s] : pass' = Read(s, lists[s], some, TRUE)
          \/ pass' = [pass EXCEPT !.at = "look", !.incomplete = TRUE, !.unread = {},
                                  !.wanted = @ \cup UNION {lists[u] : u \in pass.unread}]
    BY DEF ReadUnion, Partial
  <2>2. ASSUME pass' = Read(s, lists[s], lists[s], FALSE) PROVE Content'
    BY <1>6, <2>2
  <2>3. ASSUME NEW some \in SUBSET lists[s], pass' = Read(s, lists[s], some, TRUE) PROVE Content'
    BY <1>6, <2>3
  <2>4. QED
    BY <1>7, <2>1, <2>2, <2>3

\* What a pass plans with is the playlist of now.
LEMMA ReadTargetKeeps == ASSUME Content, ReadTarget PROVE Content'
<1>1. pass.at = "look" /\ Engine /\ UNCHANGED <<ledger, saved, scarred>> /\ (Fine \/ Faulty)
  BY DEF ReadTarget
<1>2. scarred' \in BOOLEAN /\ target \in Seq(Entry)
  BY <1>1 DEF Content, TypeOK
<1>3. CASE pass' = [pass EXCEPT !.at = "plan", !.read = target] /\ target' = target
  <2>1. PICK r \in PassRecord : r = pass
    BY DEF Content, TypeOK
  <2>2. PICK n \in PassRecord : n = [r EXCEPT !.at = "plan", !.read = target]
    BY <1>2 DEF PassRecord
  <2>3. pass' = n
    BY <1>3, <2>1, <2>2
  <2>4. /\ n.at = "plan" /\ n.read = target /\ n.src = r.src /\ n.wanted = r.wanted /\ n.incomplete = r.incomplete
        /\ n.version = r.version /\ n.adds = r.adds
        /\ n.olds = r.olds /\ n.drops = r.drops /\ n.refused = r.refused
    BY <2>2 DEF PassRecord
  <2>5. /\ pass' \in PassRecord /\ pass'.at = "plan" /\ pass'.read = target /\ pass'.src = pass.src
        /\ pass'.wanted = pass.wanted /\ pass'.incomplete = pass.incomplete /\ pass'.version = pass.version
        /\ pass'.adds = <<>> /\ pass'.olds = <<>> /\ pass'.drops = <<>> /\ pass'.refused = {}
    BY <1>1, <2>1, <2>3, <2>4 DEF Content, Begins, Early
  <2>6. TypeOK'
    BY <1>1, <1>3, <2>5, EngineTypes DEF Content, TypeOK
  <2>7. Begins' /\ NoneStaged' /\ Planned'
    BY <1>1, <1>3, <2>5 DEF Content, Begins, NoneStaged, Repairing, Planned, Elements
  <2>8. Versions'
    BY <1>1, <2>5 DEF Content, Versions, Engine
  <2>9. ReadWhole'
    BY <2>5 DEF Content, ReadWhole
  <2>10. SourceKnown'
    BY <1>1, <2>5, EngineTypes DEF Content, SourceKnown, Engine
  <2>11. OldKept' /\ AllBrought' /\ AllTaken'
    BY <1>3, <2>5 DEF OldKept, AllBrought, AllTaken, Early
  <2>12. Settled'
    BY <1>1, <1>3, <2>5, EngineTypes DEF Content, Settled, Engine, Early
  <2>13. QED
    BY <2>6, <2>7, <2>8, <2>9, <2>10, <2>11, <2>12 DEF Content
<1>4. CASE Ends
  BY <1>1, <1>2, <1>4, EndsUnwritten
<1>5. QED
  BY <1>3, <1>4 DEF ReadTarget

-----------------------------------------------------------------------------
(* Planning. *)

\* A cap takes the first removals, or all, or none; with an incomplete source it takes none.
LEMMA CappedIs ==
  ASSUME TypeOK, NEW drops \in Seq(Track)
  PROVE  /\ Capped(drops) \in Seq(Track)
         /\ \A k \in DOMAIN Capped(drops) : k \in DOMAIN drops /\ Capped(drops)[k] = drops[k]
         /\ Capped(drops) # <<>> => ~pass.incomplete
         /\ Len(Capped(drops)) < Len(drops) \/ Capped(drops) = drops
<1>1. PICK n \in Nat : n = Len(drops) /\ DOMAIN drops = 1..n /\ \A k \in 1..n : drops[k] \in Track
  BY LenProperties, ElementOfSeq
<1>2. PICK cap \in Nat : cap = (IF pass.incomplete THEN 0 ELSE MaxRemovals)
  BY MirrorAssumption
<1>3. CASE n <= cap
  <2>1. Capped(drops) = drops
    BY <1>1, <1>2, <1>3 DEF Capped
  <2>2. drops # <<>> => n > 0
    BY <1>1, EmptySeq
  <2>3. QED
    BY <1>2, <1>3, <2>1, <2>2
<1>4. CASE n > cap /\ job.drain
  <2>1. Capped(drops) = SubSeq(drops, 1, cap)
    BY <1>1, <1>2, <1>4 DEF Capped
  <2>2. PICK got : got = SubSeq(drops, 1, cap)
    OBVIOUS
  <2>3. got \in Seq(Track) /\ Len(got) = cap /\ \A k \in 1..cap : got[k] = drops[k]
    BY <1>1, <1>4, <2>2
  <2>4. DOMAIN got = 1..cap /\ \A k \in 1..cap : k \in 1..n
    BY <1>4, <2>3
  <2>5. got # <<>> => cap > 0
    BY <2>3, EmptySeq
  <2>6. cap > 0 => ~pass.incomplete
    BY <1>2
  <2>7. QED
    BY <1>1, <1>4, <2>1, <2>2, <2>3, <2>4, <2>5, <2>6
<1>5. CASE n > cap /\ ~job.drain
  <2>1. Capped(drops) = <<>>
    BY <1>1, <1>2, <1>5 DEF Capped
  <2>2. <<>> \in Seq(Track) /\ DOMAIN <<>> = {} /\ Len(<<>>) = 0
    BY EmptySeq
  <2>3. n > 0
    BY <1>5
  <2>4. QED
    BY <1>1, <2>1, <2>2, <2>3
<1>6. QED
  BY <1>1, <1>2, <1>3, <1>4, <1>5

\* Every place of a foreign track is on the list of those that leave, when nothing protects it.
LEMMA LeavingCounted ==
  ASSUME NEW list \in Seq(Entry), NEW S, NEW t \in Track, \A e \in Entry : e.track = t => e \in S,
         NEW tracks \in Seq(Track), DOMAIN tracks = DOMAIN Kept(list, S),
         \A k \in DOMAIN tracks : tracks[k] = Kept(list, S)[k].track
  PROVE  Cardinality(Places(list, t)) <= Cardinality(Times(tracks, t))
<1> DEFINE P == Places(list, t)
           Q == {k \in DOMAIN tracks : tracks[k] = t}
<1>1. PICK kept \in Seq(Entry) : kept = Kept(list, S)
  BY KeptElements
<1>2. PICK from \in [1..Len(kept) -> Positions(list, S)] : Enumerates(list, S, from)
  BY <1>1, KeptPositions
<1>3. DOMAIN tracks = 1..Len(kept) /\ Len(kept) \in Nat
  BY <1>1, LenProperties
<1>4. ASSUME NEW i \in P PROVE \E k \in Q : from[k] = i
  <2>1. i \in DOMAIN list /\ list[i] \in Entry /\ list[i].track = t
    BY EntryIs DEF Places
  <2>2. i \in Positions(list, S)
    BY <2>1 DEF Positions
  <2>3. PICK k \in 1..Len(kept) : from[k] = i
    BY <1>1, <1>2, <2>2 DEF Enumerates
  <2>4. kept[k] = list[i]
    BY <1>1, <1>2, <2>3 DEF Enumerates
  <2>5. tracks[k] = t
    BY <1>1, <1>3, <2>1, <2>4
  <2>6. QED
    BY <1>3, <2>3, <2>5
<1> DEFINE at == [i \in P |-> CHOOSE k \in Q : from[k] = i]
<1>5. \A i \in P : at[i] \in Q /\ from[at[i]] = i
  BY <1>4
<1>6. at \in Injection(P, Q)
  <2>1. at \in [P -> Q]
    BY <1>5
  <2>2. \A i, k \in P : at[i] = at[k] => i = k
    BY <1>5
  <2>3. QED
    BY <2>1, <2>2 DEF Injection, IsInjective
<1>7. IsFiniteSet(Q)
  <2>1. IsFiniteSet(1..Len(kept))
    BY <1>3, FS_Interval
  <2>2. Q \in SUBSET (1..Len(kept))
    BY <1>3
  <2>3. QED
    BY <2>1, <2>2, FS_Subset
<1>8. QED
  BY <1>6, <1>7, FS_Injection DEF Times

\* What is added is missing, and what is replayed is added or there.
LEMMA FitIs ==
  ASSUME NEW current, NEW additions
  PROVE  Fit(current, additions) \subseteq additions
BY DEF Fit, UpTo

\* When there is something to replay, all that is new is part of it, behind all that is not.
LEMMA ReplayIs ==
  ASSUME NEW current \in SUBSET Track, NEW new \in SUBSET Track, Replay(current, new) # {}
  PROVE  /\ Replay(current, new) \subseteq current \cup new /\ new \subseteq Replay(current, new)
         /\ \A c \in current \ Replay(current, new), t \in Replay(current, new) : c < t
<1>1. \A t \in Track : t \in Int
  BY MirrorAssumption DEF Track
<1>2. PICK n \in new : \E c \in current : n < c
  BY DEF Replay
<1>3. ASSUME NEW t \in new PROVE t \in Replay(current, new)
  <2>1. n \in Int /\ t \in Int /\ t <= t
    BY <1>1
  <2>2. CASE n <= t
    BY <1>2, <2>2 DEF Replay
  <2>3. CASE t < n
    <3>1. PICK c \in current : n < c
      BY <1>2
    <3>2. c \in Int
      BY <1>1
    <3>3. t < c
      BY <2>1, <2>3, <3>1, <3>2
    <3>4. QED
      BY <2>1, <3>3 DEF Replay
  <2>4. QED
    BY <2>1, <2>2, <2>3
<1>4. ASSUME NEW c \in current \ Replay(current, new), NEW t \in Replay(current, new) PROVE c < t
  <2>1. PICK m \in new : m <= t /\ \E d \in current : m < d
    BY DEF Replay
  <2>2. ~(m <= c)
    BY <2>1 DEF Replay
  <2>3. m \in Int /\ c \in Int /\ t \in Int
    BY <1>1 DEF Replay
  <2>4. QED
    BY <2>1, <2>2, <2>3
<1>5. QED
  BY <1>3, <1>4 DEF Replay

\* What a plan is.
Planning(new, replay) ==
  /\ replay = IF job.replay THEN Replay(Matched, new) ELSE {}
  /\ pass' \in PassRecord /\ Carries /\ pass'.refused = pass.refused /\ pass'.keep = pass.keep
  /\ pass'.at = (IF new = {} THEN "drop" ELSE IF replay = {} THEN "add" ELSE "stage")
  /\ pass'.adds = Sorted(IF replay = {} THEN new ELSE replay)
  /\ pass'.olds = Sorted(replay \ new)
  /\ pass'.drops # <<>> => ~pass.incomplete
  /\ \A k \in DOMAIN pass'.drops : pass'.drops[k] \in Tracks(pass.read) \ pass.src
  /\ ~pass'.guard => /\ new = pass.src \ Tracks(pass.read)
                     /\ \A t \in Track \ pass.src :
                          Cardinality(Places(pass.read, t))
                            <= Cardinality(Times(pass'.drops, t))
  /\ scarred' = (scarred \/ (replay # {} /\ Displaces(Matched, new)))

\* However much is found, the pass after planning is a plan of some additions and replays.
LEMMA PlanIs ==
  ASSUME TypeOK, Plan
  PROVE  \E new \in SUBSET (pass.src \ Tracks(pass.read)) : \E replay : Planning(new, replay)
<1> DEFINE current == pass.src \cap Tracks(pass.read)
           missing == pass.src \ current
           found(last, missed) == UpTo(missing, last) \ missed
           leaving(missed) == Kept(pass.read, {e \in Entry : e.track \notin pass.src /\ ~Protected(e.track, missed)})
           drops(missed) == [i \in DOMAIN leaving(missed) |-> leaving(missed)[i].track]
           kept(missed) == IF EmptyRead THEN <<>> ELSE Capped(drops(missed))
           theirs(new) == IF job.replay THEN Replay(current, new) ELSE {}
           TakenFrom(last, missed) ==
             LET new == Fit(current, found(last, missed)) IN
             /\ pass' = [pass EXCEPT
                  !.at = IF new = {} THEN "drop" ELSE IF theirs(new) = {} THEN "add" ELSE "stage",
                  !.adds = Sorted(IF theirs(new) = {} THEN new ELSE theirs(new)),
                  !.olds = Sorted(theirs(new) \ new),
                  !.drops = kept(missed), !.found = found(last, missed),
                  !.guard = new # missing \/ Len(kept(missed)) < Len(drops(missed))]
             /\ scarred' = (scarred \/ (theirs(new) # {} /\ Displaces(current, new)))
<1>0. PICK last \in missing \cup {0} : \E missed \in SUBSET UpTo(missing, last) : TakenFrom(last, missed)
  BY DEF Plan
<1>1. PICK missed \in SUBSET UpTo(missing, last) : TakenFrom(last, missed)
  BY <1>0
<1>2. PICK new : new = Fit(current, found(last, missed))
  OBVIOUS
<1>3. new \subseteq found(last, missed) /\ found(last, missed) \subseteq missing
  BY <1>2, FitIs DEF UpTo
<1>4. missing \subseteq Track /\ current \subseteq Track /\ current = Matched /\ missing = pass.src \ Tracks(pass.read)
  BY Fields DEF Matched
<1>5. PICK replay : replay = theirs(new)
  OBVIOUS
<1>6. replay \subseteq current \cup new
  BY <1>5 DEF Replay
<1> DEFINE S == {e \in Entry : e.track \notin pass.src /\ ~Protected(e.track, missed)}
<1>7. pass.read \in Seq(Entry)
  BY Fields
<1>7a. PICK out : out = S
  OBVIOUS
<1> HIDE DEF S
<1>8. PICK goes \in Seq(Entry) : /\ goes = Kept(pass.read, out)
                                 /\ \A k \in DOMAIN goes : goes[k] \in out /\ goes[k].track \in Tracks(pass.read)
  <2>1. PICK goes \in Seq(Entry) : goes = Kept(pass.read, out)
    BY <1>7, KeptElements
  <2>2. \A x : (\E k \in 1..Len(goes) : goes[k] = x) <=> x \in out /\ \E i \in 1..Len(pass.read) : pass.read[i] = x
    BY <1>7, <2>1, KeptElements
  <2>3. DOMAIN goes = 1..Len(goes) /\ DOMAIN pass.read = 1..Len(pass.read)
    BY <1>7, <2>1
  <2>4. ASSUME NEW k \in DOMAIN goes PROVE goes[k] \in out /\ goes[k].track \in Tracks(pass.read)
    <3>1. PICK i \in 1..Len(pass.read) : pass.read[i] = goes[k]
      BY <2>2, <2>3
    <3>2. goes[k] \in out
      BY <2>2, <2>3
    <3>3. QED
      BY <2>3, <3>1, <3>2 DEF Tracks
  <2>5. QED
    BY <2>1, <2>4
<1>9. PICK all \in Seq(Track) :
        /\ all = drops(missed) /\ DOMAIN all = DOMAIN goes
        /\ \A k \in DOMAIN all : all[k] = goes[k].track /\ all[k] \in Tracks(pass.read) \ pass.src
  <2>1. DOMAIN goes = 1..Len(goes) /\ Len(goes) \in Nat
    OBVIOUS
  <2>2. \A k \in 1..Len(goes) : goes[k].track \in Track
    BY <2>1, EntryIs
  <2>3. [i \in 1..Len(goes) |-> goes[i].track] \in Seq(Track)
    BY <2>1, <2>2
  <2>4. goes = leaving(missed)
    BY <1>7a, <1>8 DEF S
  <2>5. \A k \in DOMAIN goes : goes[k].track \notin pass.src
    BY <1>7a, <1>8 DEF S
  <2>6. [i \in 1..Len(goes) |-> goes[i].track] = drops(missed)
    BY <2>1, <2>4
  <2>7. QED
    BY <1>8, <2>1, <2>3, <2>5, <2>6
<1>10. PICK some \in Seq(Track) : some = kept(missed)
  <2>1. <<>> \in Seq(Track) /\ Capped(all) \in Seq(Track)
    BY CappedIs
  <2>2. QED
    BY <1>9, <2>1
<1>11. /\ \A k \in DOMAIN some : k \in DOMAIN all /\ some[k] = all[k]
       /\ some # <<>> => ~pass.incomplete
       /\ Len(some) < Len(all) \/ some = all
  <2>1. CASE EmptyRead
    <3>1. some = <<>> /\ DOMAIN some = {} /\ Len(some) = 0
      BY <1>10, <2>1
    <3>2. Len(all) \in Nat /\ (Len(all) = 0 => all = <<>>)
      BY EmptySeq, LenProperties
    <3>3. QED
      BY <3>1, <3>2
  <2>2. CASE ~EmptyRead
    <3>1. some = Capped(all)
      BY <1>9, <1>10, <2>2
    <3>2. QED
      BY <3>1, CappedIs
  <2>3. QED
    BY <2>1, <2>2
<1>12. PICK adds \in Seq(Track) : adds = Sorted(IF replay = {} THEN new ELSE replay)
  BY <1>3, <1>4, <1>6, SortedIs
<1>13. PICK olds \in Seq(Track) : olds = Sorted(replay \ new)
  BY <1>3, <1>4, <1>6, SortedIs
<1>14. PICK hits \in SUBSET Track : hits = found(last, missed)
  BY <1>3, <1>4
<1>15. PICK at \in {"drop", "add", "stage"} : at = (IF new = {} THEN "drop" ELSE IF replay = {} THEN "add" ELSE "stage")
  OBVIOUS
<1>16. PICK guard \in BOOLEAN : guard = (new # missing \/ Len(some) < Len(all))
  OBVIOUS
<1>17. PICK r \in PassRecord : r = pass
  BY Fields
<1>18. PICK n \in PassRecord : n = [r EXCEPT !.at = at, !.adds = adds, !.olds = olds, !.drops = some,
                                          !.found = hits, !.guard = guard]
  BY DEF PassRecord
<1>19. pass' = n
  <2>1. pass' = [pass EXCEPT
          !.at = IF new = {} THEN "drop" ELSE IF replay = {} THEN "add" ELSE "stage",
          !.adds = Sorted(IF replay = {} THEN new ELSE replay), !.olds = Sorted(replay \ new),
          !.drops = kept(missed), !.found = found(last, missed),
          !.guard = new # missing \/ Len(kept(missed)) < Len(drops(missed))]
    BY <1>1, <1>2, <1>5
  <2>2. guard = (new # missing \/ Len(kept(missed)) < Len(drops(missed)))
    BY <1>9, <1>10, <1>16
  <2>3. pass' = [pass EXCEPT !.at = at, !.adds = adds, !.olds = olds, !.drops = some, !.found = hits, !.guard = guard]
    BY <1>10, <1>12, <1>13, <1>14, <1>15, <2>1, <2>2
  <2>4. QED
    BY <1>17, <1>18, <2>3
<1>20. /\ n.at = at /\ n.adds = adds /\ n.olds = olds /\ n.drops = some /\ n.guard = guard
       /\ n.version = r.version /\ n.src = r.src /\ n.wanted = r.wanted /\ n.incomplete = r.incomplete
       /\ n.read = r.read /\ n.refused = r.refused /\ n.keep = r.keep
  BY <1>18 DEF PassRecord
<1>21. ASSUME ~guard
       PROVE  /\ new = missing /\ some = all
              /\ \A t \in Track \ pass.src :
                   Cardinality(Places(pass.read, t)) <= Cardinality(Times(all, t))
  <2>1. new = missing /\ some = all
    BY <1>11, <1>16, <1>21
  <2>2. missed = {}
    BY <1>3, <2>1 DEF UpTo
  <2>3. ASSUME NEW t \in Track \ pass.src
        PROVE  Cardinality(Places(pass.read, t)) <= Cardinality(Times(all, t))
    <3>1. \A e \in Entry : e.track = t => e \in out
      BY <1>7a, <2>2 DEF Protected, S
    <3>2. DOMAIN all = DOMAIN Kept(pass.read, out) /\ \A k \in DOMAIN all : all[k] = Kept(pass.read, out)[k].track
      BY <1>8, <1>9
    <3>3. QED
      BY <1>7, <3>1, <3>2, LeavingCounted
  <2>4. QED
    BY <2>1, <2>3
<1>22. Carries
  BY <1>17, <1>19, <1>20 DEF Carries
<1>23. scarred' = (scarred \/ (replay # {} /\ Displaces(Matched, new)))
  BY <1>1, <1>2, <1>4, <1>5
<1>24. replay = IF job.replay THEN Replay(Matched, new) ELSE {}
  BY <1>4, <1>5
<1>25. \A k \in DOMAIN pass'.drops : pass'.drops[k] \in Tracks(pass.read) \ pass.src
  BY <1>9, <1>11, <1>19, <1>20
<1>26. ~pass'.guard => /\ new = pass.src \ Tracks(pass.read)
                       /\ \A t \in Track \ pass.src :
                            Cardinality(Places(pass.read, t))
                              <= Cardinality(Times(pass'.drops, t))
  BY <1>4, <1>19, <1>20, <1>21
<1>27. /\ pass' \in PassRecord /\ pass'.refused = pass.refused /\ pass'.keep = pass.keep /\ pass'.at = at
       /\ pass'.adds = adds /\ pass'.olds = olds /\ pass'.drops = some
  BY <1>17, <1>19, <1>20
<1>28. Planning(new, replay)
  BY <1>11, <1>12, <1>13, <1>15, <1>22, <1>23, <1>24, <1>25, <1>26, <1>27 DEF Planning
<1>29. QED
  BY <1>3, <1>4, <1>28

\* A plan of everything brings what is missing and takes what is foreign.
LEMMA PlanKeeps == ASSUME Content, Plan PROVE Content'
<1>1. /\ pass.at = "plan" /\ Engine /\ UNCHANGED <<target, ledger, saved>> /\ (Fine \/ Faulty)
  BY DEF Plan
<1>2. PICK new \in SUBSET (pass.src \ Tracks(pass.read)) : \E replay : Planning(new, replay)
  BY PlanIs DEF Content
<1>3. PICK replay : Planning(new, replay)
  BY <1>2
<1>4. /\ pass' \in PassRecord /\ Carries /\ pass'.refused = {}
      /\ pass'.at = (IF new = {} THEN "drop" ELSE IF replay = {} THEN "add" ELSE "stage")
      /\ pass'.drops # <<>> => ~pass.incomplete
      /\ \A k \in DOMAIN pass'.drops : pass'.drops[k] \in Tracks(pass.read) \ pass.src
  BY <1>1, <1>3 DEF Planning, Content, Begins, Early
<1>5. scarred' \in BOOLEAN
  BY <1>3 DEF Planning, Content, TypeOK
<1>6. replay \subseteq Matched \cup new
  BY <1>3 DEF Planning, Replay
<1>7. Matched \subseteq Track /\ new \subseteq Track /\ pass.src \subseteq Track /\ new \cap Matched = {}
  BY Fields DEF Content, Matched
<1>8. PICK added \in SUBSET Track : added = (IF replay = {} THEN new ELSE replay) /\ pass'.adds = Sorted(added)
  BY <1>3, <1>6, <1>7 DEF Planning
<1>9. PICK old \in SUBSET Track : old = replay \ new /\ pass'.olds = Sorted(old)
  BY <1>3, <1>6, <1>7 DEF Planning
<1>10. /\ pass'.adds \in Seq(Track) /\ Elements(pass'.adds) = added
       /\ \A i, k \in DOMAIN pass'.adds : i < k => pass'.adds[i] < pass'.adds[k]
  BY <1>8, SortedIs
<1>11. /\ pass'.olds \in Seq(Track) /\ Elements(pass'.olds) = old
       /\ \A i, k \in DOMAIN pass'.olds : i < k => pass'.olds[i] < pass'.olds[k]
  BY <1>9, SortedIs
<1>12. old \subseteq Matched /\ old \subseteq added /\ added \subseteq pass.src
  <2>1. old \subseteq Matched /\ added \subseteq Matched \cup new
    BY <1>6, <1>8, <1>9
  <2>2. old \subseteq added
    BY <1>8, <1>9
  <2>3. QED
    BY <2>1, <2>2 DEF Matched
<1>13. new \subseteq added
  <2>1. CASE replay = {}
    BY <1>8, <2>1
  <2>2. CASE replay # {}
    <3>1. replay = Replay(Matched, new)
      BY <1>3, <2>2 DEF Planning
    <3>2. new \subseteq replay
      BY <1>7, <2>2, <3>1, ReplayIs
    <3>3. QED
      BY <1>8, <2>2, <3>2
  <2>3. QED
    BY <2>1, <2>2
<1>14. pass'.at # "drop" => added # {}
  BY <1>4, <1>13
<1>15. TypeOK' /\ Versions' /\ ReadWhole' /\ SourceKnown' /\ Matched' = Matched
  <2>1. target' \in Seq(Entry) /\ UNCHANGED <<ledger, saved>>
    BY <1>1 DEF Content, TypeOK
  <2>2. pass'.drops # <<>> => ~pass'.incomplete
    BY <1>4 DEF Carries
  <2>3. \A k \in DOMAIN pass'.drops : pass'.drops[k] \notin pass'.src
    BY <1>4 DEF Carries
  <2>4. pass.at \notin {"idle", "read"} /\ pass'.at \notin {"idle", "read"}
    BY <1>1, <1>4
  <2>5. QED
    BY <1>1, <1>4, <1>5, <2>1, <2>2, <2>3, <2>4, Midway
<1>16. Begins'
  <2>1. pass'.at \in {"drop", "add", "stage"}
    BY <1>4
  <2>2. pass'.at # "drop" => pass'.adds # <<>>
    BY <1>10, <1>14 DEF Elements
  <2>3. QED
    BY <2>1, <2>2 DEF Begins, Early
<1>17. NoneStaged'
  BY <1>1 DEF Content, NoneStaged, Repairing
<1>18. Planned'
  <2>1. Elements(pass'.adds) \subseteq pass'.src /\ Elements(pass'.olds) \subseteq Matched'
    BY <1>4, <1>10, <1>11, <1>12, <1>15 DEF Carries
  <2>2. QED
    BY <1>10, <1>11, <2>1 DEF Planned
<1>19. OldKept'
  <2>1. SUFFICES ASSUME ~touched PROVE OldKept'
    BY <1>1 DEF OldKept, Engine
  <2>2. target = pass.read /\ target' = target
    BY <1>1, <2>1 DEF Content, OldKept
  <2>3. Matched \subseteq Tracks(target')
    BY <2>2 DEF Matched
  <2>4. ASSUME NEW t \in Matched PROVE On(t, FALSE)'
    <3>1. PICK i \in DOMAIN target : target[i].track = t
      BY <2>2, <2>3 DEF Tracks
    <3>2. ~target[i].staged /\ target[i].staged \in BOOLEAN
      BY <1>1, EntryIs, Fields DEF Content, NoneStaged, Repairing
    <3>3. QED
      BY <2>2, <3>1, <3>2 DEF On
  <2>5. \A t \in Elements(pass'.olds) : t \in Elements(pass'.adds)
    BY <1>10, <1>11, <1>12
  <2>6. QED
    BY <1>4, <1>15, <2>3, <2>4, <2>5 DEF OldKept
<1>20. AllBrought'
  <2>1. SUFFICES ASSUME ~touched, ~pass'.guard PROVE AllBrought'
    BY <1>1 DEF AllBrought, Engine
  <2>2. target' = pass.read
    BY <1>1, <2>1 DEF Content, OldKept
  <2>3. new = pass.src \ Tracks(pass.read)
    BY <1>3, <2>1 DEF Planning
  <2>4. pass.src \subseteq Tracks(target') \cup new
    BY <2>2, <2>3
  <2>5. new # {} => pass'.at \in {"add", "stage"}
    BY <1>4
  <2>6. new \subseteq Elements(pass'.adds)
    BY <1>10, <1>13
  <2>7. QED
    BY <1>4, <2>4, <2>5, <2>6 DEF AllBrought, Carries
<1>21. AllTaken'
  <2>1. SUFFICES ASSUME ~touched, ~pass'.guard, NEW t \in Track \ pass.src
                 PROVE  Count(t)' <= Cardinality(Times(pass'.drops, t))
    BY <1>1, <1>4 DEF AllTaken, Engine, Carries
  <2>2. target' = pass.read
    BY <1>1, <2>1 DEF Content, OldKept
  <2>3. Cardinality(Places(pass.read, t)) <= Cardinality(Times(pass'.drops, t))
    BY <1>3, <2>1 DEF Planning
  <2>4. QED
    BY <2>2, <2>3 DEF Count
<1>22. Settled'
  <2>1. SUFFICES ASSUME ~job.merge, ~touched, ledger.version = version
                 PROVE  /\ Tracks(target) = Wanted /\ pass'.at = "drop"
                        /\ pass'.adds = <<>> /\ pass'.olds = <<>> /\ pass'.drops = <<>>
    BY <1>1, EngineTypes DEF Content, Settled, Engine
  <2>2. Tracks(target) = Wanted
    BY <2>1 DEF Content, Settled
  <2>3. pass.version = version
    BY <1>1, <2>1, Fields DEF Content, Versions, Never
  <2>4. pass.src = Wanted
    BY <1>1, <2>1, <2>3 DEF Content, SourceKnown
  <2>5. target = pass.read
    BY <1>1, <2>1 DEF Content, OldKept
  <2>6. new = {}
    BY <2>2, <2>4, <2>5
  <2>7. replay = {}
    BY <1>3, <2>6 DEF Planning, Replay
  <2>8. Elements(pass'.adds) = {} /\ Elements(pass'.olds) = {}
    BY <1>8, <1>9, <1>10, <1>11, <2>6, <2>7
  <2>9. DOMAIN pass'.drops = {}
    BY <1>4, <2>2, <2>4, <2>5
  <2>10. pass'.drops \in Seq(Track)
    BY <1>4 DEF PassRecord
  <2>11. pass'.adds = <<>> /\ pass'.olds = <<>> /\ pass'.drops = <<>>
    <3>1. \A list \in Seq(Track) : DOMAIN list = {} => list = <<>>
      BY EmptySeq
    <3>2. DOMAIN pass'.adds = {} /\ DOMAIN pass'.olds = {}
      BY <2>8 DEF Elements
    <3>3. QED
      BY <1>10, <1>11, <2>9, <2>10, <3>1, <3>2
  <2>12. QED
    BY <1>4, <2>2, <2>6, <2>11
<1>23. QED
  BY <1>15, <1>16, <1>17, <1>18, <1>19, <1>20, <1>21, <1>22 DEF Content

-----------------------------------------------------------------------------
(* Writing. *)

\* While a pass adds or repairs, nothing that is recorded stands for what there is.
LEMMA Unsettled ==
  ASSUME Content, Engine, UNCHANGED ledger, pass.at \in {"add", "stage", "undo", "retire", "keep"}
  PROVE  Settled'
BY EngineTypes DEF Content, Settled, Engine, Early

\* A longer playlist has all that it had.
LEMMA OnStays ==
  ASSUME target \in Seq(Entry), NEW e \in Entry, target' = Append(target, e), NEW t, NEW staged, On(t, staged)
  PROVE  On(t, staged)'
BY AppendIs DEF On

\* The fields of a new entry.
LEMMA EntryMade ==
  ASSUME NEW t \in Track, NEW staged \in BOOLEAN
  PROVE  /\ [track |-> t, staged |-> staged] \in Entry /\ [track |-> t, staged |-> staged].track = t
         /\ [track |-> t, staged |-> staged].staged = staged
BY DEF Entry

\* A list in order still is when its first track is taken.
LEMMA TailOrdered ==
  ASSUME NEW list \in Seq(Track), list # <<>>, \A i, k \in DOMAIN list : i < k => list[i] < list[k]
  PROVE  /\ \A i, k \in DOMAIN Tail(list) : i < k => Tail(list)[i] < Tail(list)[k]
         /\ \A k \in DOMAIN Tail(list) : Head(list) < Tail(list)[k]
         /\ Head(list) \notin Elements(Tail(list))
<1>1. PICK n \in Nat : n = Len(list) /\ DOMAIN list = 1..n /\ n >= 1
  BY EmptySeq, LenProperties
<1>2. /\ Tail(list) \in Seq(Track) /\ DOMAIN Tail(list) = 1..(n - 1) /\ Head(list) = list[1] /\ list[1] \in Track
      /\ \A k \in 1..(n - 1) : Tail(list)[k] = list[k + 1] /\ list[k + 1] \in Track
  BY <1>1
<1>3. \A i, k \in 1..n : i < k => list[i] < list[k]
  BY <1>1
<1>4. ASSUME NEW i \in 1..(n - 1), NEW k \in 1..(n - 1), i < k PROVE Tail(list)[i] < Tail(list)[k]
  <2>1. i + 1 \in 1..n /\ k + 1 \in 1..n /\ i + 1 < k + 1
    BY <1>1, <1>4
  <2>2. list[i + 1] < list[k + 1]
    BY <1>3, <2>1
  <2>3. QED
    BY <1>2, <2>2
<1>5. ASSUME NEW k \in 1..(n - 1) PROVE Head(list) < Tail(list)[k]
  <2>1. k + 1 \in 1..n /\ 1 \in 1..n /\ 1 < k + 1
    BY <1>1
  <2>2. list[1] < list[k + 1]
    BY <1>3, <2>1
  <2>3. QED
    BY <1>2, <2>2
<1>6. Head(list) \notin Elements(Tail(list))
  <2>1. \A t \in Track : t \in Int
    BY MirrorAssumption DEF Track
  <2>2. \A k \in 1..(n - 1) : Tail(list)[k] \in Int /\ Head(list) \in Int
    BY <1>2, <2>1
  <2>3. ASSUME NEW k \in 1..(n - 1) PROVE Tail(list)[k] # Head(list)
    <3>1. Head(list) < Tail(list)[k]
      BY <1>5
    <3>2. PICK a \in Int, b \in Int : a = Head(list) /\ b = Tail(list)[k]
      BY <2>2
    <3>3. a < b
      BY <3>1, <3>2
    <3>4. a # b
      BY <3>3
    <3>5. QED
      BY <3>2, <3>4
  <2>4. QED
    BY <1>2, <2>3 DEF Elements
<1>7. QED
  BY <1>2, <1>4, <1>5, <1>6

\* The pass after one addition, whatever became of it.
AddFields ==
  /\ pass' \in PassRecord /\ Carries /\ pass'.adds = Tail(pass.adds) /\ pass'.olds = pass.olds
  /\ pass'.at = (IF Len(pass.adds) = 1 THEN "drop" ELSE "add")

\* An addition is made, declined, or ends the pass before or after it got there.
LEMMA AddIs ==
  ASSUME TypeOK, Add, pass.adds # <<>>
  PROVE  LET t == Head(pass.adds) IN
         \/ /\ AddFields /\ pass'.drops = pass.drops /\ pass'.guard = pass.guard /\ target' = Append1(t, FALSE)
         \/ /\ AddFields /\ pass'.drops = <<>> /\ pass'.guard /\ target' = target
         \/ /\ pass' = Idle
            /\ target' = Unstaged \/ target' = Append(Unstaged, [track |-> t, staged |-> FALSE])
<1> DEFINE t == Head(pass.adds)
           next == [pass EXCEPT !.adds = Tail(@), !.at = IF Len(pass.adds) = 1 THEN "drop" ELSE @]
<1>1. PICK r \in PassRecord : r = pass
  BY Fields
<1>2. PICK rest \in Seq(Track) : rest = Tail(pass.adds)
  BY Fields, HeadTail
<1>3. PICK at \in {"drop", "add"} : at = (IF Len(pass.adds) = 1 THEN "drop" ELSE pass.at)
  BY DEF Add
<1>4. PICK m \in PassRecord : m = [r EXCEPT !.adds = rest, !.at = at]
  BY DEF PassRecord
<1>5. m = next
  BY <1>1, <1>2, <1>3, <1>4
<1>6. /\ m.adds = rest /\ m.at = at /\ m.olds = r.olds /\ m.drops = r.drops /\ m.guard = r.guard
      /\ m.version = r.version /\ m.src = r.src /\ m.wanted = r.wanted /\ m.incomplete = r.incomplete
      /\ m.read = r.read /\ m.added \in Nat
  BY <1>4 DEF PassRecord
<1>7. pass.at = "add"
  BY DEF Add
<1>8. ASSUME pass' = [next EXCEPT !.added = @ + 1]
      PROVE  AddFields /\ pass'.drops = pass.drops /\ pass'.guard = pass.guard
  <2>1. PICK more \in Nat : more = m.added + 1
    BY <1>6
  <2>2. PICK n \in PassRecord : n = [m EXCEPT !.added = more]
    BY DEF PassRecord
  <2>3. pass' = n
    BY <1>5, <1>8, <2>1, <2>2
  <2>4. /\ n.adds = m.adds /\ n.at = m.at /\ n.olds = m.olds /\ n.drops = m.drops /\ n.guard = m.guard
        /\ n.version = m.version /\ n.src = m.src /\ n.wanted = m.wanted /\ n.incomplete = m.incomplete
        /\ n.read = m.read
    BY <2>2 DEF PassRecord
  <2>5. QED
    BY <1>1, <1>2, <1>3, <1>6, <1>7, <2>3, <2>4 DEF AddFields, Carries
<1>9. ASSUME pass' = [next EXCEPT !.guard = TRUE, !.drops = <<>>]
      PROVE  AddFields /\ pass'.drops = <<>> /\ pass'.guard
  <2>1. PICK none \in Seq(Track) : none = <<>>
    BY EmptySeq
  <2>2. PICK n \in PassRecord : n = [m EXCEPT !.guard = TRUE, !.drops = none]
    BY DEF PassRecord
  <2>3. pass' = n
    BY <1>5, <1>9, <2>1, <2>2
  <2>4. /\ n.adds = m.adds /\ n.at = m.at /\ n.olds = m.olds /\ n.drops = none /\ n.guard = TRUE
        /\ n.version = m.version /\ n.src = m.src /\ n.wanted = m.wanted /\ n.incomplete = m.incomplete
        /\ n.read = m.read
    BY <2>2 DEF PassRecord
  <2>5. QED
    BY <1>1, <1>2, <1>3, <1>6, <1>7, <2>1, <2>3, <2>4 DEF AddFields, Carries
<1>10. QED
  BY <1>8, <1>9 DEF Add

\* A declined addition holds every removal back and is not recorded.
LEMMA AddKeeps == ASSUME Content, Add PROVE Content'
<1> DEFINE t == Head(pass.adds)
<1>1. /\ pass.at = "add" /\ Engine /\ UNCHANGED <<ledger, saved, scarred>> /\ (Fine \/ Faulty)
      /\ TypeOK /\ target \in Seq(Entry) /\ pass.adds \in Seq(Track) /\ pass.adds # <<>>
  BY Fields DEF Add, Content, Begins
<1>2. scarred' \in BOOLEAN
  BY <1>1 DEF TypeOK
<1>3. t \in Track /\ Elements(pass.adds) = {t} \cup Elements(Tail(pass.adds)) /\ t \in pass.src
  <2>1. t \in Track /\ Elements(pass.adds) = {t} \cup Elements(Tail(pass.adds))
    BY <1>1, HeadTail
  <2>2. QED
    BY <2>1 DEF Content, Planned
<1>4. PICK e \in Entry : e = [track |-> t, staged |-> FALSE] /\ e.track = t /\ e.staged = FALSE
  BY <1>3, EntryMade
<1>5. Settled'
  BY <1>1, Unsettled
<1>6. ASSUME AddFields, target' \in Seq(Entry), Tracks(target) \subseteq Tracks(target'),
             \A i \in DOMAIN target' : ~target'[i].staged,
             \/ /\ pass'.drops = pass.drops /\ pass'.guard = pass.guard /\ t \in Tracks(target')
                /\ \A u \in Track : u # t => Places(target', u) = Places(target, u)
             \/ pass'.drops = <<>> /\ pass'.guard
      PROVE  Content'
  <2>1. pass'.at \in {"add", "drop"} /\ Carries /\ pass' \in PassRecord
    BY <1>6 DEF AddFields
  <2>2. TypeOK' /\ Versions' /\ ReadWhole' /\ SourceKnown' /\ Matched' = Matched
    <3>1. pass'.drops # <<>> => ~pass'.incomplete
      BY <1>6, <2>1 DEF Content, ReadWhole, Carries
    <3>2. DOMAIN <<>> = {}
      OBVIOUS
    <3>3. \A k \in DOMAIN pass'.drops : pass'.drops[k] \notin pass'.src
      BY <1>6, <2>1, <3>2 DEF Content, ReadWhole, Carries
    <3>4. pass.at \notin {"idle", "read"} /\ pass'.at \notin {"idle", "read"}
      BY <1>1, <2>1
    <3>5. QED
      BY <1>1, <1>2, <1>6, <2>1, <3>1, <3>3, <3>4, Midway
  <2>3. Begins'
    <3>1. pass'.at = "add" => pass'.adds # <<>>
      BY <1>1, <1>6, HeadTail DEF AddFields
    <3>2. QED
      BY <2>1, <3>1 DEF Begins, Early
  <2>4. NoneStaged'
    BY <1>6 DEF NoneStaged
  <2>5. Planned'
    <3>1. \A i, k \in DOMAIN Tail(pass.adds) : i < k => Tail(pass.adds)[i] < Tail(pass.adds)[k]
      BY <1>1, TailOrdered DEF Content, Planned
    <3>2. QED
      BY <1>3, <1>6, <2>2, <3>1 DEF Content, Planned, AddFields, Carries
  <2>6. OldKept'
    <3>1. ~touched => Matched \subseteq Tracks(target)
      BY <1>1 DEF Content, OldKept, Lacking
    <3>2. QED
      BY <1>1, <1>6, <2>1, <2>2, <3>1 DEF OldKept, Engine
  <2>7. AllBrought'
    <3>1. SUFFICES ASSUME ~touched, ~pass'.guard PROVE AllBrought'
      BY <1>1 DEF AllBrought, Engine
    <3>2. pass.src \subseteq Tracks(target) \cup Elements(pass.adds)
      BY <1>1, <1>6, <3>1 DEF Content, AllBrought, Early, Repairing, Lacking
    <3>3. pass.src \subseteq Tracks(target') \cup Elements(pass'.adds)
      BY <1>3, <1>6, <3>1, <3>2 DEF AddFields
    <3>4. pass'.at # "add" => Elements(pass'.adds) = {}
      BY <1>1, <1>6, HeadTail DEF AddFields
    <3>5. QED
      BY <2>1, <3>3, <3>4 DEF AllBrought, Carries
  <2>8. AllTaken'
    <3>1. SUFFICES ASSUME ~touched, ~pass'.guard, NEW u \in Track \ pass.src
                   PROVE  Count(u)' <= Cardinality(Times(pass'.drops, u))
      BY <1>1, <2>1 DEF AllTaken, Engine, Carries
    <3>2. Count(u) <= Cardinality(Times(pass.drops, u))
      BY <1>1, <1>6, <3>1 DEF Content, AllTaken, Early
    <3>3. Places(target', u) = Places(target, u) /\ pass'.drops = pass.drops
      BY <1>3, <1>6, <3>1
    <3>4. QED
      BY <3>2, <3>3 DEF Count
  <2>9. QED
    BY <1>5, <2>2, <2>3, <2>4, <2>5, <2>6, <2>7, <2>8 DEF Content
<1>7. ASSUME AddFields, pass'.drops = pass.drops, pass'.guard = pass.guard, target' = Append1(t, FALSE)
      PROVE  Content'
  <2>1. target' = Append(target, e)
    BY <1>4, <1>7 DEF Append1
  <2>2. /\ target' \in Seq(Entry) /\ Tracks(target') = Tracks(target) \cup {t}
        /\ \A u \in Track : u # t => Places(target', u) = Places(target, u)
    <3>1. /\ target' \in Seq(Entry) /\ Tracks(target') = Tracks(target) \cup {e.track}
          /\ \A u \in Track : u # e.track => Places(target', u) = Places(target, u)
      BY <1>1, <2>1, AppendIs
    <3>2. QED
      BY <1>4, <3>1
  <2>3. ASSUME NEW i \in DOMAIN target' PROVE ~target'[i].staged
    <3>1. (i \in DOMAIN target /\ target'[i] = target[i]) \/ target'[i] = e
      BY <1>1, <1>4, <2>1, AppendIs
    <3>2. QED
      BY <1>1, <1>4, <3>1 DEF Content, NoneStaged, Repairing
  <2>4. QED
    BY <1>6, <1>7, <2>2, <2>3
<1>8. ASSUME AddFields, pass'.drops = <<>>, pass'.guard, target' = target PROVE Content'
  <2>1. \A i \in DOMAIN target' : ~target'[i].staged
    BY <1>1, <1>8 DEF Content, NoneStaged, Repairing
  <2>2. QED
    BY <1>1, <1>6, <1>8, <2>1
<1>9. ASSUME pass' = Idle, target' = Unstaged \/ target' = Append(Unstaged, e) PROVE Content'
  <2>1. /\ Unstaged \in Seq(Entry) /\ \A i \in DOMAIN Unstaged : ~Unstaged[i].staged
    BY <1>1, UnstagedIs
  <2>2. target' \in Seq(Entry)
    BY <1>4, <1>9, <2>1, AppendIs
  <2>3. ASSUME NEW i \in DOMAIN target' PROVE ~target'[i].staged
    <3>1. (i \in DOMAIN Unstaged /\ target'[i] = Unstaged[i]) \/ target'[i] = e
      BY <1>4, <1>9, <2>1, AppendIs
    <3>2. QED
      BY <1>4, <2>1, <3>1
  <2>4. ledger' \in [version : 0..MaxEdits \cup {Never}, count : Int] /\ ledger'.version <= version
        /\ (job.merge => ledger'.version = Never)
    BY <1>1 DEF Content, TypeOK, Versions
  <2>5. QED
    BY <1>1, <1>2, <1>5, <1>9, <2>2, <2>3, <2>4, Ending
<1>10. QED
  BY <1>1, <1>4, <1>7, <1>8, <1>9, AddIs

\* The pass after one copy was staged or declined.
StageFields(refused) ==
  /\ pass' \in PassRecord /\ Carries /\ pass'.adds = Tail(pass.adds) /\ pass'.refused = refused
  /\ pass'.olds = pass.olds /\ pass'.drops = pass.drops /\ pass'.guard = pass.guard /\ pass'.keep = pass.keep
  /\ pass'.at = (IF Len(pass.adds) = 1 THEN AfterStaging(refused) ELSE "stage")

\* The pass after a staging that failed.
UndoFields ==
  /\ pass' \in PassRecord /\ Carries /\ pass'.adds = pass.adds /\ pass'.refused = pass.refused
  /\ pass'.olds = pass.olds /\ pass'.drops = pass.drops /\ pass'.guard = pass.guard /\ pass'.keep = pass.keep
  /\ pass'.at = "undo"

\* A copy is staged, refused, or fails and is taken back with the others.
LEMMA StageIs ==
  ASSUME TypeOK, Stage, pass.adds # <<>>
  PROVE  LET t == Head(pass.adds) IN
         \/ StageFields(pass.refused) /\ target' = Append1(t, TRUE)
         \/ StageFields(pass.refused \cup {t}) /\ target' = target
         \/ UndoFields /\ (target' = target \/ target' = Append1(t, TRUE))
<1> DEFINE t == Head(pass.adds)
           Moved(refused) == [pass EXCEPT !.adds = Tail(@), !.refused = refused,
                                !.added = IF t \in Elements(pass.olds) \cup refused THEN @ ELSE @ + 1,
                                !.at = IF Len(pass.adds) = 1 THEN AfterStaging(refused) ELSE @]
<1>1. PICK r \in PassRecord : r = pass
  BY Fields
<1>2. pass.at = "stage"
  BY DEF Stage
<1>3. PICK rest \in Seq(Track) : rest = Tail(pass.adds)
  BY Fields, HeadTail
<1>4. t \in Track
  BY Fields, HeadTail
<1>5. ASSUME NEW refused \in SUBSET Track, pass' = Moved(refused) PROVE StageFields(refused)
  <2>1. PICK more \in Nat : more = (IF t \in Elements(pass.olds) \cup refused THEN pass.added ELSE pass.added + 1)
    BY Fields
  <2>2. PICK at \in {"stage", "undo", "retire"} :
          at = (IF Len(pass.adds) = 1 THEN AfterStaging(refused) ELSE pass.at)
    BY <1>2 DEF AfterStaging
  <2>3. PICK n \in PassRecord : n = [r EXCEPT !.adds = rest, !.refused = refused, !.added = more, !.at = at]
    BY DEF PassRecord
  <2>4. pass' = n
    BY <1>1, <1>3, <1>5, <2>1, <2>2, <2>3
  <2>5. /\ n.adds = rest /\ n.refused = refused /\ n.at = at /\ n.olds = r.olds /\ n.drops = r.drops
        /\ n.guard = r.guard /\ n.keep = r.keep
        /\ n.version = r.version /\ n.src = r.src /\ n.wanted = r.wanted /\ n.incomplete = r.incomplete
        /\ n.read = r.read
    BY <2>3 DEF PassRecord
  <2>6. QED
    BY <1>1, <1>2, <1>3, <2>2, <2>4, <2>5 DEF StageFields, Carries
<1>6. ASSUME pass' = [pass EXCEPT !.at = "undo"] PROVE UndoFields
  <2>1. PICK n \in PassRecord : n = [r EXCEPT !.at = "undo"]
    BY DEF PassRecord
  <2>2. pass' = n
    BY <1>1, <1>6, <2>1
  <2>3. /\ n.adds = r.adds /\ n.refused = r.refused /\ n.at = "undo" /\ n.olds = r.olds /\ n.drops = r.drops
        /\ n.guard = r.guard /\ n.keep = r.keep
        /\ n.version = r.version /\ n.src = r.src /\ n.wanted = r.wanted /\ n.incomplete = r.incomplete
        /\ n.read = r.read
    BY <2>1 DEF PassRecord
  <2>4. QED
    BY <1>1, <2>2, <2>3 DEF UndoFields, Carries
<1>7. \/ pass' = Moved(pass.refused) /\ target' = Append1(t, TRUE)
      \/ pass' = Moved(pass.refused \cup {t}) /\ target' = target
      \/ pass' = [pass EXCEPT !.at = "undo"] /\ (target' = target \/ target' = Append1(t, TRUE))
  BY DEF Stage
<1>8. pass.refused \in SUBSET Track /\ pass.refused \cup {t} \in SUBSET Track
  BY <1>4, Fields
<1>9. QED
  BY <1>5, <1>6, <1>7, <1>8

\* Whether the copy of t landed (staged) or not, the rest of the playlist is as it was.
Landed(t) ==
  /\ target' \in Seq(Entry) /\ Tracks(target) \subseteq Tracks(target')
  /\ \A u \in Track : u # t => Places(target', u) = Places(target, u)
  /\ \A u, staged : On(u, staged) => On(u, staged)'

\* One more copy at most, and all that was there.
LEMMA LandedIs ==
  ASSUME target \in Seq(Entry), NEW t \in Track, target' = target \/ target' = Append1(t, TRUE)
  PROVE  Landed(t) /\ (target' # target => t \in Tracks(target') /\ On(t, TRUE)')
<1>1. PICK e \in Entry : e = [track |-> t, staged |-> TRUE] /\ e.track = t /\ e.staged = TRUE
  BY EntryMade
<1>2. CASE target' = target
  BY <1>2 DEF Landed, On
<1>3. CASE target' = Append(target, e)
  <2>1. /\ target' \in Seq(Entry) /\ Tracks(target') = Tracks(target) \cup {e.track}
        /\ \A u \in Track : u # e.track => Places(target', u) = Places(target, u)
    BY <1>3, AppendIs
  <2>2. \A u, staged : On(u, staged) => On(u, staged)'
    BY <1>3, OnStays
  <2>3. On(t, TRUE)'
    <3>1. Len(target) + 1 \in DOMAIN target' /\ target'[Len(target) + 1] = e
      BY <1>3, AppendIs
    <3>2. QED
      BY <1>1, <3>1 DEF On
  <2>4. QED
    BY <1>1, <2>1, <2>2, <2>3 DEF Landed
<1>4. QED
  BY <1>1, <1>2, <1>3 DEF Append1

\* Every original stays while copies are staged; they are retired only when all are there.
LEMMA StageKeeps == ASSUME Content, Stage PROVE Content'
<1>0. PICK t : t = Head(pass.adds)
  OBVIOUS
<1>1. /\ pass.at = "stage" /\ Engine /\ UNCHANGED <<ledger, saved, scarred>> /\ (Fine \/ Faulty)
      /\ TypeOK /\ target \in Seq(Entry) /\ pass.adds \in Seq(Track) /\ pass.adds # <<>>
  BY Fields DEF Stage, Content, Begins
<1>2. scarred' \in BOOLEAN
  BY <1>1 DEF TypeOK
<1>3. t \in Track /\ Elements(pass.adds) = {t} \cup Elements(Tail(pass.adds)) /\ t \in pass.src
  <2>1. t \in Track /\ Elements(pass.adds) = {t} \cup Elements(Tail(pass.adds))
    BY <1>0, <1>1, HeadTail
  <2>2. QED
    BY <2>1 DEF Content, Planned
<1>4. Settled'
  BY <1>1, Unsettled
<1>5. /\ \A i, k \in DOMAIN Tail(pass.adds) : i < k => Tail(pass.adds)[i] < Tail(pass.adds)[k]
      /\ Elements(Tail(pass.adds)) \subseteq pass.src
  BY <1>1, <1>3, TailOrdered DEF Content, Planned
<1>6. ~touched =>
        /\ \A u \in Matched : On(u, FALSE)
        /\ \A u \in Elements(pass.olds) : u \in Elements(pass.adds) \/ u \in pass.refused \/ On(u, TRUE)
  BY <1>1 DEF Content, OldKept
<1>7. ASSUME Landed(t), pass' \in PassRecord, Carries, pass'.at \in {"stage", "undo", "retire"},
             pass'.olds = pass.olds, pass'.drops = pass.drops, pass'.guard = pass.guard,
             pass'.adds = pass.adds \/ pass'.adds = Tail(pass.adds), pass'.at = "stage" => pass'.adds # <<>>,
             ~touched /\ pass'.at = "stage" => \A u \in Elements(pass.olds) :
                           u \in Elements(pass'.adds) \/ u \in pass'.refused \/ On(u, TRUE)',
             ~touched /\ pass'.at = "retire" => \A u \in Elements(pass.olds) : On(u, TRUE)',
             ~touched /\ ~pass.guard /\ pass'.at # "undo" =>
               pass.src \subseteq Tracks(target') \cup pass'.refused
                                    \cup (IF pass'.at = "stage" THEN Elements(pass'.adds) ELSE {})
      PROVE  Content'
  <2>1. TypeOK' /\ Versions' /\ ReadWhole' /\ SourceKnown' /\ Matched' = Matched
    <3>1. pass'.drops # <<>> => ~pass'.incomplete
      BY <1>7 DEF Content, ReadWhole, Carries
    <3>2. \A k \in DOMAIN pass'.drops : pass'.drops[k] \notin pass'.src
      BY <1>7 DEF Content, ReadWhole, Carries
    <3>3. pass.at \notin {"idle", "read"} /\ pass'.at \notin {"idle", "read"} /\ target' \in Seq(Entry)
      BY <1>1, <1>7 DEF Landed
    <3>4. QED
      BY <1>1, <1>2, <1>7, <3>1, <3>2, <3>3, Midway
  <2>2. Begins' /\ NoneStaged'
    BY <1>7 DEF Begins, Early, NoneStaged, Repairing
  <2>3. Planned'
    BY <1>5, <1>7, <2>1 DEF Content, Planned, Carries
  <2>4. Lacking' = {} /\ Left' = Elements(pass.olds) /\ Elements(pass.olds) \subseteq Matched
    BY <1>7 DEF Lacking, Left, Content, Planned
  <2>5. OldKept'
    <3>1. SUFFICES ASSUME ~touched PROVE OldKept'
      BY <1>1 DEF OldKept, Engine
    <3>2. \A u \in Matched : On(u, FALSE)'
      BY <1>6, <1>7, <3>1 DEF Landed
    <3>3. Matched \subseteq Tracks(target')
      BY <3>2 DEF On, Tracks
    <3>4. QED
      BY <1>7, <2>1, <2>4, <3>1, <3>2, <3>3 DEF OldKept
  <2>6. AllBrought'
    BY <1>1, <1>7 DEF AllBrought, Engine, Carries, Early, Repairing
  <2>7. AllTaken'
    <3>1. SUFFICES ASSUME ~touched, ~pass'.guard, NEW u \in Track \ pass.src
                   PROVE  Count(u)' <= Cardinality(Times(pass'.drops, u))
      BY <1>1, <1>7 DEF AllTaken, Engine, Carries
    <3>2. Count(u) <= Cardinality(Times(pass.drops, u))
      BY <1>1, <1>7, <3>1 DEF Content, AllTaken, Early
    <3>3. Places(target', u) = Places(target, u)
      BY <1>3, <1>7, <3>1 DEF Landed
    <3>4. QED
      BY <1>7, <3>2, <3>3 DEF Count
  <2>8. QED
    BY <1>4, <2>1, <2>2, <2>3, <2>5, <2>6, <2>7 DEF Content
<1>8. ~touched /\ ~pass.guard => pass.src \subseteq Tracks(target) \cup pass.refused \cup Elements(pass.adds)
  BY <1>1 DEF Content, AllBrought, Early, Repairing, Lacking
<1>9. ASSUME NEW refused \in SUBSET Track, StageFields(refused), Landed(t), pass.refused \subseteq refused,
             t \in refused \/ (t \in Tracks(target') /\ On(t, TRUE)')
      PROVE  Content'
  <2>1. /\ pass' \in PassRecord /\ Carries /\ pass'.olds = pass.olds /\ pass'.drops = pass.drops
        /\ pass'.guard = pass.guard /\ pass'.adds = Tail(pass.adds) /\ pass'.refused = refused
        /\ pass'.at \in {"stage", "undo", "retire"}
    BY <1>9 DEF StageFields, AfterStaging
  <2>2. pass'.at = "stage" => pass'.adds # <<>>
    BY <1>1, <1>9, HeadTail DEF StageFields, AfterStaging
  <2>3. pass'.at # "stage" => Elements(pass'.adds) = {}
    BY <1>1, <1>9, HeadTail DEF StageFields
  <2>4. ~touched => \A u \in Elements(pass.olds) : u \in Elements(pass'.adds) \/ u \in pass'.refused \/ On(u, TRUE)'
    <3>1. SUFFICES ASSUME ~touched, NEW u \in Elements(pass.olds)
                   PROVE  u \in Elements(pass'.adds) \/ u \in pass'.refused \/ On(u, TRUE)'
      OBVIOUS
    <3>2. u = t \/ u \in Elements(Tail(pass.adds)) \/ u \in pass.refused \/ On(u, TRUE)
      BY <1>3, <1>6, <3>1
    <3>3. On(u, TRUE) => On(u, TRUE)'
      BY <1>9 DEF Landed
    <3>4. u = t => u \in refused \/ On(u, TRUE)'
      BY <1>9
    <3>5. QED
      BY <1>9, <2>1, <3>2, <3>3, <3>4
  <2>5. ~touched /\ pass'.at = "retire" => \A u \in Elements(pass.olds) : On(u, TRUE)'
    <3>1. pass'.at = "retire" => refused \cap Elements(pass.olds) = {}
      BY <1>9 DEF StageFields, AfterStaging
    <3>2. QED
      BY <2>1, <2>3, <2>4, <3>1
  <2>6. ~touched /\ ~pass.guard /\ pass'.at # "undo" =>
               pass.src \subseteq Tracks(target') \cup pass'.refused
                                    \cup (IF pass'.at = "stage" THEN Elements(pass'.adds) ELSE {})
    BY <1>3, <1>8, <1>9, <2>1, <2>3 DEF Landed
  <2>7. QED
    BY <1>7, <1>9, <2>1, <2>2, <2>4, <2>5, <2>6
<1>10. ASSUME UndoFields, Landed(t) PROVE Content'
  BY <1>7, <1>10 DEF UndoFields
<1>11. pass.refused \in SUBSET Track /\ pass.refused \cup {t} \in SUBSET Track
  BY <1>1, <1>3, Fields
<1>12. ASSUME StageFields(pass.refused), target' = Append1(t, TRUE) PROVE Content'
  <2>1. Landed(t) /\ (target' # target => t \in Tracks(target') /\ On(t, TRUE)')
    BY <1>1, <1>3, <1>12, LandedIs
  <2>2. target' # target
    BY <1>1, <1>12 DEF Append1
  <2>3. QED
    BY <1>9, <1>11, <1>12, <2>1, <2>2
<1>13. ASSUME StageFields(pass.refused \cup {t}), target' = target PROVE Content'
  <2>1. Landed(t)
    BY <1>1, <1>3, <1>13, LandedIs
  <2>2. QED
    BY <1>9, <1>11, <1>13, <2>1
<1>14. ASSUME UndoFields, target' = target \/ target' = Append1(t, TRUE) PROVE Content'
  BY <1>1, <1>3, <1>10, <1>14, LandedIs
<1>15. QED
  BY <1>0, <1>1, <1>12, <1>13, <1>14, StageIs

\* What a rollback leaves of a playlist is one.
LEMMA UndoneIs ==
  ASSUME target \in Seq(Entry), NEW t \in Track
  PROVE  /\ Drop(t, TRUE) \o Repeat(t, Again(t, TRUE)) \in Seq(Entry)
         /\ ~job.all => Drop(t, TRUE) \o Repeat(t, Again(t, TRUE)) = Drop(t, TRUE)
<1>1. Again(t, TRUE) \in Nat
  <2>1. Len(target) \in Nat /\ DOMAIN target = 1..Len(target)
    OBVIOUS
  <2>2. IsFiniteSet(1..Len(target))
    BY <2>1, FS_Interval
  <2>3. {i \in Places(target, t) : target[i].staged # TRUE} \in SUBSET (1..Len(target))
    BY <2>1 DEF Places
  <2>4. Cardinality({i \in Places(target, t) : target[i].staged # TRUE}) \in Nat
    BY <2>2, <2>3, FS_Subset, FS_CardinalityType
  <2>5. QED
    BY <2>4 DEF Again
<1>2. \A m \in Nat : Repeat(t, m) \in Seq(Entry)
  <2>1. PICK e \in Entry : e = [track |-> t, staged |-> FALSE]
    BY EntryMade
  <2>2. \A m \in Nat : [i \in 1..m |-> e] \in Seq(Entry)
    OBVIOUS
  <2>3. QED
    BY <2>1, <2>2 DEF Repeat
<1>3. Drop(t, TRUE) \in Seq(Entry)
  BY DropIs
<1>4. Repeat(t, 0) = <<>>
  BY DEF Repeat
<1>5. ~job.all => Again(t, TRUE) = 0
  BY DEF Again
<1>6. PICK left \in Seq(Entry) : left = Drop(t, TRUE)
  BY <1>3
<1>7. PICK more \in Seq(Entry) : more = Repeat(t, Again(t, TRUE)) /\ (~job.all => more = <<>>)
  BY <1>1, <1>2, <1>4, <1>5
<1>8. left \o more \in Seq(Entry) /\ (~job.all => left \o more = left)
  BY <1>7, ConcatEmptySeq, ConcatProperties
<1>9. QED
  BY <1>6, <1>7, <1>8

\* Taking copies back one by one leaves the originals.
LEMMA UndoKeeps == ASSUME Content, Undo PROVE Content'
<1>1. /\ pass.at = "undo" /\ Engine /\ UNCHANGED <<ledger, saved>> /\ (Fine \/ Faulty)
      /\ TypeOK /\ target \in Seq(Entry)
  BY DEF Undo, Content, TypeOK
<1>2. scarred' \in BOOLEAN
  BY <1>1, Fields DEF TypeOK, Undo
<1>3. CASE Ends
  BY <1>1, <1>2, <1>3, EndsUnwritten
<1> DEFINE copies == {target[i].track : i \in {j \in DOMAIN target : target[j].staged}}
<1>4. copies \subseteq Track
  BY <1>1, EntryIs
<1>5. ASSUME pass' = pass, NEW t \in copies,
             target' = Drop(t, TRUE) \o Repeat(t, Again(t, TRUE)) \/ (job.all /\ target' = Drop(t, TRUE))
      PROVE  Content'
  <2>1. t \in Track /\ target' \in Seq(Entry) /\ (~job.all => target' = Drop(t, TRUE))
    <3>1. t \in Track /\ TRUE \in BOOLEAN
      BY <1>4
    <3>2. Drop(t, TRUE) \in Seq(Entry)
      BY <1>1, <3>1, DropIs
    <3>3. QED
      BY <1>1, <1>5, <3>1, <3>2, UndoneIs
  <2>2. /\ pass' \in PassRecord /\ Carries /\ pass'.at = "undo" /\ pass'.drops = pass.drops /\ pass'.adds = pass.adds
        /\ pass'.olds = pass.olds
    BY <1>1, <1>5, Fields DEF Carries
  <2>3. TypeOK' /\ Versions' /\ ReadWhole' /\ SourceKnown' /\ Matched' = Matched
    <3>1. pass'.drops # <<>> => ~pass'.incomplete
      BY <1>5 DEF Content, ReadWhole
    <3>2. \A k \in DOMAIN pass'.drops : pass'.drops[k] \notin pass'.src
      BY <1>5 DEF Content, ReadWhole
    <3>3. pass.at \notin {"idle", "read"} /\ pass'.at \notin {"idle", "read"}
      BY <1>1, <2>2
    <3>4. QED
      BY <1>1, <1>2, <2>1, <2>2, <3>1, <3>2, <3>3, Midway
  <2>4. Begins' /\ NoneStaged' /\ Planned'
    BY <1>5, <2>2, <2>3 DEF Content, Begins, Early, NoneStaged, Repairing, Planned
  <2>5. OldKept'
    <3>1. SUFFICES ASSUME ~touched, ~job.all, NEW u \in Matched PROVE On(u, FALSE)'
      BY <1>1, <2>2, <2>3 DEF OldKept, Engine
    <3>2. On(u, FALSE)
      BY <1>1, <3>1 DEF Content, OldKept
    <3>3. PICK i \in DOMAIN target : target[i].track = u /\ target[i].staged = FALSE
      BY <3>2 DEF On
    <3>4. PICK Out \in SUBSET Places(target, t) : /\ Trims(target', target, Out)
                                                  /\ \A j \in Out : target[j].staged = TRUE
      <4>1. PICK Out \in SUBSET Places(target, t) : /\ Trims(Drop(t, TRUE), target, Out)
                                                    /\ \A j \in Out : target[j].staged = TRUE
        BY <1>1, <2>1, <3>1, DropIs
      <4>2. target' = Drop(t, TRUE)
        BY <2>1, <3>1
      <4>3. Trims(target', target, Out)
        BY <4>1, <4>2
      <4>4. QED
        BY <4>1, <4>3
    <3>5. i \in DOMAIN target \ Out
      BY <3>3, <3>4
    <3>6. PICK k \in DOMAIN target' : target'[k] = target[i]
      BY <3>4, <3>5 DEF Trims
    <3>7. QED
      BY <3>3, <3>6 DEF On
  <2>6. AllBrought' /\ AllTaken'
    BY <2>2 DEF AllBrought, AllTaken
  <2>7. Settled'
    BY <1>1, Unsettled
  <2>8. QED
    BY <2>3, <2>4, <2>5, <2>6, <2>7 DEF Content
<1>6. QED
  BY <1>3, <1>5 DEF Undo

\* Only entries of the track that is removed go.
LEMMA OthersStay ==
  ASSUME target \in Seq(Entry), target' \in Seq(Entry), NEW t \in Track, NEW Out \in SUBSET Places(target, t),
         Trims(target', target, Out)
  PROVE  /\ \A u, staged : u # t /\ On(u, staged) => On(u, staged)'
         /\ \A u, staged : (\E i \in DOMAIN target \ Out : target[i].track = u /\ target[i].staged = staged)
                             => On(u, staged)'
         /\ Tracks(target) \ {t} \subseteq Tracks(target') /\ Tracks(target') \subseteq Tracks(target)
         /\ \A u \in Track : Count(u)' <= Count(u) /\ Count(u) \in Nat /\ Count(u)' \in Nat
<1>1. ASSUME NEW i \in DOMAIN target \ Out PROVE \E k \in DOMAIN target' : target'[k] = target[i]
  BY DEF Trims
<1>2. ASSUME NEW u, NEW staged, u # t, On(u, staged) PROVE On(u, staged)'
  <2>1. PICK i \in DOMAIN target : target[i].track = u /\ target[i].staged = staged
    BY <1>2 DEF On
  <2>2. i \notin Out
    BY <1>2, <2>1 DEF Places
  <2>3. QED
    BY <1>1, <2>1, <2>2 DEF On
<1>3. ASSUME NEW u, NEW staged, \E i \in DOMAIN target \ Out : target[i].track = u /\ target[i].staged = staged
      PROVE  On(u, staged)'
  BY <1>1, <1>3 DEF On
<1>4. ASSUME NEW u \in Tracks(target), u # t PROVE u \in Tracks(target')
  <2>1. PICK i \in DOMAIN target : target[i].track = u
    BY DEF Tracks
  <2>2. i \notin Out
    BY <1>4, <2>1 DEF Places
  <2>3. QED
    BY <1>1, <2>1, <2>2 DEF Tracks
<1>5. /\ Tracks(target') \subseteq Tracks(target)
      /\ \A u \in Track : Count(u)' <= Count(u) /\ Count(u) \in Nat /\ Count(u)' \in Nat
  BY TrimsIs DEF Count
<1>6. QED
  BY <1>2, <1>3, <1>4, <1>5

\* What a pass keeps while it retires.
RetireFields ==
  /\ pass' \in PassRecord /\ Carries /\ pass'.adds = pass.adds /\ pass'.refused = pass.refused

\* The repair is done, or one original goes, or the pass ends.
LEMMA RetireIs ==
  ASSUME TypeOK, Retire
  PROVE  \/ /\ pass.olds = <<>> /\ RetireFields /\ pass'.at = "drop" /\ pass'.olds = pass.olds
            /\ pass'.drops \in {pass.drops, <<>>} /\ target' = Unstaged
            /\ ~pass'.guard => ~pass.guard /\ pass.refused = {} /\ pass'.drops = pass.drops
         \/ /\ pass.olds # <<>> /\ ~job.all /\ RetireFields /\ pass'.at = "retire" /\ pass'.olds = Tail(pass.olds)
            /\ pass'.drops = pass.drops /\ pass'.guard = pass.guard /\ target' = Drop(Head(pass.olds), FALSE)
         \/ /\ pass.olds # <<>> /\ job.all /\ RetireFields /\ pass'.at = "keep" /\ pass'.olds = pass.olds
            /\ pass'.drops = pass.drops /\ pass'.guard = pass.guard /\ target' = Drop(Head(pass.olds), FALSE)
            /\ pass'.keep = Count(Head(pass.olds)) - 1 /\ pass'.keep > 0
         \/ Ends /\ (scarred' = TRUE \/ (pass.olds # <<>> /\ job.all /\ Count(Head(pass.olds)) < 2))
<1>1. PICK r \in PassRecord : r = pass
  BY Fields
<1>2. pass.at = "retire" /\ target \in Seq(Entry) /\ pass.olds \in Seq(Track)
  BY Fields DEF Retire
<1>3. ASSUME pass' = [pass EXCEPT !.at = "drop", !.guard = @ \/ pass.refused # {},
                        !.drops = IF pass.refused = {} THEN @ ELSE <<>>]
      PROVE  /\ RetireFields /\ pass'.at = "drop" /\ pass'.olds = pass.olds
             /\ pass'.drops \in {pass.drops, <<>>}
             /\ ~pass'.guard => ~pass.guard /\ pass.refused = {} /\ pass'.drops = pass.drops
  <2>1. PICK guard \in BOOLEAN : guard = (pass.guard \/ pass.refused # {})
    BY Fields
  <2>2. PICK drops \in Seq(Track) : drops = (IF pass.refused = {} THEN pass.drops ELSE <<>>)
    BY Fields, EmptySeq
  <2>3. PICK n \in PassRecord : n = [r EXCEPT !.at = "drop", !.guard = guard, !.drops = drops]
    BY DEF PassRecord
  <2>4. pass' = n
    BY <1>1, <1>3, <2>1, <2>2, <2>3
  <2>5. /\ n.at = "drop" /\ n.guard = guard /\ n.drops = drops /\ n.adds = r.adds /\ n.refused = r.refused
        /\ n.olds = r.olds /\ n.version = r.version /\ n.src = r.src /\ n.wanted = r.wanted
        /\ n.incomplete = r.incomplete /\ n.read = r.read
    BY <2>3 DEF PassRecord
  <2>6. /\ RetireFields /\ pass'.at = "drop" /\ pass'.olds = pass.olds /\ pass'.guard = guard /\ pass'.drops = drops
    BY <1>1, <2>4, <2>5 DEF RetireFields, Carries
  <2>7. drops \in {pass.drops, <<>>} /\ (~guard => ~pass.guard /\ pass.refused = {} /\ drops = pass.drops)
    BY <2>1, <2>2
  <2>8. QED
    BY <2>6, <2>7
<1>4. ASSUME pass.olds # <<>>, pass' = [pass EXCEPT !.olds = Tail(@)]
      PROVE  /\ RetireFields /\ pass'.at = "retire" /\ pass'.olds = Tail(pass.olds)
             /\ pass'.drops = pass.drops /\ pass'.guard = pass.guard
  <2>1. PICK rest \in Seq(Track) : rest = Tail(pass.olds)
    BY <1>2, <1>4, HeadTail
  <2>2. PICK n \in PassRecord : n = [r EXCEPT !.olds = rest]
    BY DEF PassRecord
  <2>3. pass' = n
    BY <1>1, <1>4, <2>1, <2>2
  <2>4. /\ n.at = r.at /\ n.guard = r.guard /\ n.drops = r.drops /\ n.adds = r.adds /\ n.refused = r.refused
        /\ n.olds = rest /\ n.version = r.version /\ n.src = r.src /\ n.wanted = r.wanted
        /\ n.incomplete = r.incomplete /\ n.read = r.read
    BY <2>2 DEF PassRecord
  <2>5. QED
    BY <1>1, <1>2, <2>1, <2>3, <2>4 DEF RetireFields, Carries
<1>5. ASSUME pass.olds # <<>>, Cardinality(Places(target, Head(pass.olds))) >= 2,
             pass' = [pass EXCEPT !.at = "keep", !.keep = Cardinality(Places(target, Head(pass.olds))) - 1]
      PROVE  /\ RetireFields /\ pass'.at = "keep" /\ pass'.olds = pass.olds
             /\ pass'.drops = pass.drops /\ pass'.guard = pass.guard
             /\ pass'.keep = Count(Head(pass.olds)) - 1 /\ pass'.keep > 0
  <2>1. Cardinality(Places(target, Head(pass.olds))) \in Nat
    <3>1. Len(target) \in Nat /\ DOMAIN target = 1..Len(target)
      BY <1>2
    <3>2. IsFiniteSet(1..Len(target))
      BY <3>1, FS_Interval
    <3>3. Places(target, Head(pass.olds)) \in SUBSET (1..Len(target))
      BY <3>1 DEF Places
    <3>4. QED
      BY <3>2, <3>3, FS_Subset, FS_CardinalityType
  <2>2. PICK more \in Nat : more = Cardinality(Places(target, Head(pass.olds))) - 1 /\ more > 0
    BY <1>5, <2>1
  <2>3. PICK n \in PassRecord : n = [r EXCEPT !.at = "keep", !.keep = more]
    BY DEF PassRecord
  <2>4. pass' = n
    BY <1>1, <1>5, <2>2, <2>3
  <2>5. /\ n.at = "keep" /\ n.keep = more /\ n.guard = r.guard /\ n.drops = r.drops /\ n.adds = r.adds
        /\ n.refused = r.refused /\ n.olds = r.olds /\ n.version = r.version /\ n.src = r.src /\ n.wanted = r.wanted
        /\ n.incomplete = r.incomplete /\ n.read = r.read
    BY <2>3 DEF PassRecord
  <2>6. QED
    BY <1>1, <2>2, <2>4, <2>5 DEF RetireFields, Carries, Count
<1>6. QED
  BY <1>3, <1>4, <1>5 DEF Retire, Count

\* How often a track is on a list, and on what is left when its first one is taken.
LEMMA TimesTail ==
  ASSUME NEW list \in Seq(Track), NEW t \in Track
  PROVE  /\ Cardinality(Times(list, t)) \in Nat
         /\ list # <<>> /\ Head(list) # t => Cardinality(Times(list, t)) <= Cardinality(Times(Tail(list), t))
         /\ list # <<>> => Cardinality(Times(list, t)) <= Cardinality(Times(Tail(list), t)) + 1
<1> DEFINE T == Times(list, t)
<1>1. PICK n \in Nat : n = Len(list) /\ DOMAIN list = 1..n
  BY LenProperties
<1>2. T \in SUBSET (1..n)
  BY <1>1 DEF Times
<1>3. IsFiniteSet(T) /\ Cardinality(T) \in Nat
  <2>1. IsFiniteSet(1..n)
    BY FS_Interval
  <2>2. QED
    BY <1>2, <2>1, FS_Subset, FS_CardinalityType
<1>4. ASSUME list # <<>>
      PROVE  /\ IsFiniteSet(T \ {1}) /\ Cardinality(T \ {1}) \in Nat /\ Cardinality(Times(Tail(list), t)) \in Nat
             /\ Cardinality(T \ {1}) <= Cardinality(Times(Tail(list), t))
  <2> DEFINE U == Times(Tail(list), t)
             f == [k \in T \ {1} |-> k - 1]
  <2>1. n >= 1
    BY <1>1, <1>4, EmptySeq
  <2>2. /\ DOMAIN Tail(list) = 1..(n - 1) /\ n - 1 \in Nat
        /\ \A k \in 1..(n - 1) : Tail(list)[k] = list[k + 1]
    BY <1>1, <1>4, <2>1
  <2>3. \A k \in T \ {1} : k - 1 \in 1..(n - 1) /\ (k - 1) + 1 = k
    BY <1>2
  <2>4. \A k \in T \ {1} : k - 1 \in U
    BY <2>2, <2>3 DEF Times
  <2>5. f \in Injection(T \ {1}, U)
    <3>1. f \in [T \ {1} -> U]
      BY <2>4
    <3>2. \A i, k \in T \ {1} : f[i] = f[k] => i = k
      BY <1>2
    <3>3. QED
      BY <3>1, <3>2 DEF Injection, IsInjective
  <2>6. IsFiniteSet(U)
    <3>1. U \in SUBSET (1..(n - 1))
      BY <2>2 DEF Times
    <3>2. QED
      BY <2>2, <3>1, FS_Interval, FS_Subset
  <2>7. QED
    BY <2>5, <2>6, FS_Injection, FS_CardinalityType
<1>5. Cardinality(T \ {1}) = IF 1 \in T THEN Cardinality(T) - 1 ELSE Cardinality(T)
  BY <1>3, FS_RemoveElement
<1>6. ASSUME list # <<>>, Head(list) # t PROVE 1 \notin T
  BY <1>1, <1>6 DEF Times
<1>7. QED
  BY <1>3, <1>4, <1>5, <1>6

\* What a repair has to preserve while it retires its originals.
LEMMA RetiringKeeps ==
  ASSUME Content, Engine, Fine \/ Faulty, UNCHANGED <<ledger, saved>>, scarred' \in BOOLEAN,
         pass.at \in {"retire", "keep"}, pass' \in PassRecord, Carries, target' \in Seq(Entry),
         pass'.at \in {"retire", "keep", "drop"}, pass'.at = "drop" => \A i \in DOMAIN target' : ~target'[i].staged,
         pass'.at = "keep" => job.all /\ pass'.olds # <<>>, pass'.adds = pass.adds,
         pass'.refused = pass.refused,
         pass'.olds = pass.olds \/ (pass.olds # <<>> /\ pass'.olds = Tail(pass.olds)),
         pass'.drops \in {pass.drops, <<>>},
         ~touched => Matched \subseteq Tracks(target') \cup Lacking',
         ~touched /\ pass'.at # "drop" => \A u \in Left' : On(u, TRUE)' /\ On(u, FALSE)' /\ u \notin Lacking',
         ~touched /\ ~pass'.guard =>
           /\ ~pass.guard /\ pass'.drops = pass.drops
           /\ pass.src \subseteq Tracks(target') \cup Lacking' \cup (IF pass'.at = "drop" THEN {} ELSE pass.refused)
           /\ \A u \in Track \ pass.src : Count(u)' <= Count(u) /\ Count(u)' \in Nat /\ Count(u) \in Nat
  PROVE  Content'
<1>1. TypeOK' /\ Versions' /\ ReadWhole' /\ SourceKnown' /\ Matched' = Matched
  <2>1. pass'.drops # <<>> => ~pass'.incomplete
    BY DEF Content, ReadWhole, Carries
  <2>2. DOMAIN <<>> = {}
    OBVIOUS
  <2>3. \A k \in DOMAIN pass'.drops : pass'.drops[k] \notin pass'.src
    BY <2>2 DEF Content, ReadWhole, Carries
  <2>4. pass.at \notin {"idle", "read"} /\ pass'.at \notin {"idle", "read"}
    OBVIOUS
  <2>5. QED
    BY <2>1, <2>3, <2>4, Midway
<1>2. Begins' /\ NoneStaged'
  BY DEF Begins, Early, NoneStaged, Repairing, Engine
<1>3. Planned'
  <2>1. pass.olds \in Seq(Track)
    BY Fields DEF Content
  <2>2. \A i, k \in DOMAIN pass'.olds : i < k => pass'.olds[i] < pass'.olds[k]
    BY <2>1, TailOrdered DEF Content, Planned
  <2>3. Elements(pass'.olds) \subseteq Elements(pass.olds)
    BY <2>1, HeadTail
  <2>4. QED
    BY <1>1, <2>2, <2>3 DEF Content, Planned, Carries
<1>4. OldKept'
  BY <1>1 DEF OldKept, Engine
<1>5. AllBrought'
  BY DEF AllBrought, Engine, Carries, Repairing
<1>6. AllTaken'
  <2>1. SUFFICES ASSUME ~touched, ~pass'.guard, NEW u \in Track \ pass.src
                 PROVE  Count(u)' <= Cardinality(Times(pass'.drops, u))
    BY DEF AllTaken, Engine, Carries
  <2>2. ~pass.guard /\ pass'.drops = pass.drops
    BY <2>1
  <2>3. Count(u) <= Cardinality(Times(pass.drops, u))
    BY <2>1, <2>2 DEF Content, AllTaken, Early
  <2>4. Count(u)' <= Count(u) /\ Count(u)' \in Nat /\ Count(u) \in Nat
    BY <2>1
  <2>5. Cardinality(Times(pass.drops, u)) \in Nat
    <3>1. pass.drops \in Seq(Track)
      BY Fields DEF Content
    <3>2. QED
      BY <3>1, TimesTail
  <2>6. QED
    BY <2>2, <2>3, <2>4, <2>5
<1>7. Settled'
  BY Unsettled
<1>8. QED
  BY <1>1, <1>2, <1>3, <1>4, <1>5, <1>6, <1>7 DEF Content

\* An original goes only when its copy is there, and its track stays.
LEMMA RetireKeeps == ASSUME Content, Retire PROVE Content'
<1>1. /\ pass.at = "retire" /\ Engine /\ UNCHANGED <<ledger, saved>> /\ (Fine \/ Faulty)
      /\ TypeOK /\ target \in Seq(Entry) /\ pass.olds \in Seq(Track) /\ pass.src \subseteq Track
  BY Fields DEF Retire, Content
<1>2. scarred' \in BOOLEAN
  BY <1>1 DEF TypeOK, Retire
<1>3. Lacking = {} /\ Left = Elements(pass.olds)
  BY <1>1 DEF Lacking, Left
<1>4. ~touched => Matched \subseteq Tracks(target) /\ \A u \in Elements(pass.olds) : On(u, TRUE) /\ On(u, FALSE)
  BY <1>1, <1>3 DEF Content, OldKept
<1>5. ~touched /\ ~pass.guard => pass.src \subseteq Tracks(target) \cup pass.refused
  BY <1>1, <1>3 DEF Content, AllBrought, Early, Repairing
<1>6. ASSUME pass.olds = <<>>, RetireFields, pass'.at = "drop", pass'.olds = pass.olds,
             pass'.drops \in {pass.drops, <<>>}, target' = Unstaged,
             ~pass'.guard => ~pass.guard /\ pass.refused = {} /\ pass'.drops = pass.drops
      PROVE  Content'
  <2>1. /\ target' \in Seq(Entry) /\ Tracks(target') = Tracks(target)
        /\ \A i \in DOMAIN target' : ~target'[i].staged
        /\ \A u \in Track : Places(target', u) = Places(target, u)
    BY <1>1, <1>6, UnstagedIs
  <2>2. Lacking' = {}
    BY <1>6 DEF Lacking
  <2>3. \A u \in Track : Count(u)' <= Count(u) /\ Count(u)' \in Nat /\ Count(u) \in Nat
    <3>1. IsFiniteSet(1..Len(target)) /\ Len(target) \in Nat /\ DOMAIN target = 1..Len(target)
      BY <1>1, FS_Interval
    <3>2. ASSUME NEW u \in Track PROVE Cardinality(Places(target, u)) \in Nat
      <4>1. Places(target, u) \in SUBSET (1..Len(target))
        BY <3>1 DEF Places
      <4>2. QED
        BY <3>1, <4>1, FS_Subset, FS_CardinalityType
    <3>3. \A u \in Track : Count(u)' = Count(u) /\ Count(u) \in Nat
      BY <2>1, <3>2 DEF Count
    <3>4. QED
      BY <3>3
  <2>4. ~touched => Matched \subseteq Tracks(target') \cup Lacking'
    BY <1>4, <2>1
  <2>5. ~touched /\ ~pass'.guard =>
           /\ ~pass.guard /\ pass'.drops = pass.drops
           /\ pass.src \subseteq Tracks(target') \cup Lacking' \cup (IF pass'.at = "drop" THEN {} ELSE pass.refused)
           /\ \A u \in Track \ pass.src : Count(u)' <= Count(u) /\ Count(u)' \in Nat /\ Count(u) \in Nat
    BY <1>5, <1>6, <2>1, <2>3
  <2>6. QED
    BY <1>1, <1>2, <1>6, <2>1, <2>4, <2>5, RetiringKeeps DEF RetireFields
<1>7. ASSUME pass.olds # <<>>, RetireFields, pass'.drops = pass.drops, pass'.guard = pass.guard,
             target' = Drop(Head(pass.olds), FALSE),
             \/ ~job.all /\ pass'.at = "retire" /\ pass'.olds = Tail(pass.olds)
             \/ job.all /\ pass'.at = "keep" /\ pass'.olds = pass.olds /\ pass'.keep > 0
      PROVE  Content'
  <2>1. PICK t : t = Head(pass.olds)
    OBVIOUS
  <2>2. t \in Track /\ Elements(pass.olds) = {t} \cup Elements(Tail(pass.olds)) /\ t \notin Elements(Tail(pass.olds))
    BY <1>1, <1>7, <2>1, HeadTail, TailOrdered DEF Content, Planned
  <2>3. t \in pass.src /\ Elements(pass.olds) \subseteq Matched /\ Matched \subseteq Track
    BY <1>1, <2>2 DEF Content, Planned, Matched
  <2>4. PICK new \in Seq(Entry) : new = target' /\ new = Drop(t, FALSE)
    BY <1>1, <1>7, <2>1, <2>2, DropIs
  <2>5. PICK Out \in SUBSET Places(target, t) :
          /\ Trims(new, target, Out)
          /\ ~job.all => \A i \in Out : target[i].staged = FALSE
    BY <1>1, <2>2, <2>4, DropIs
  <2>6. /\ \A u, staged : u # t /\ On(u, staged) => On(u, staged)'
        /\ \A u, staged : (\E i \in DOMAIN target \ Out : target[i].track = u /\ target[i].staged = staged)
                             => On(u, staged)'
        /\ Tracks(target) \ {t} \subseteq Tracks(target')
        /\ \A u \in Track : Count(u)' <= Count(u) /\ Count(u) \in Nat /\ Count(u)' \in Nat
    <3>1. target' \in Seq(Entry) /\ Trims(target', target, Out)
      BY <2>4, <2>5
    <3>2. QED
      BY <1>1, <2>2, <3>1, OthersStay
  <2>7. Left' = Elements(Tail(pass.olds))
    BY <1>7 DEF Left
  <2>8. t \in Tracks(target') \cup Lacking' \/ touched
    <3>1. SUFFICES ASSUME ~touched, ~job.all PROVE t \in Tracks(target')
      BY <1>7, <2>1 DEF Lacking
    <3>2. PICK i \in DOMAIN target : target[i].track = t /\ target[i].staged = TRUE
      BY <1>4, <2>2, <3>1 DEF On
    <3>3. i \notin Out
      BY <2>5, <3>1, <3>2
    <3>4. On(t, TRUE)'
      BY <2>6, <3>2, <3>3
    <3>5. QED
      BY <3>4 DEF On, Tracks
  <2>9. Lacking' \subseteq {t}
    BY <1>7, <2>1 DEF Lacking
  <2>10. ~touched => Matched \subseteq Tracks(target') \cup Lacking'
    BY <1>4, <2>6, <2>8
  <2>11. ~touched => \A u \in Left' : On(u, TRUE)' /\ On(u, FALSE)' /\ u \notin Lacking'
    <3>1. SUFFICES ASSUME ~touched, NEW u \in Elements(Tail(pass.olds))
                   PROVE  On(u, TRUE)' /\ On(u, FALSE)' /\ u \notin Lacking'
      BY <2>7
    <3>2. u # t /\ On(u, TRUE) /\ On(u, FALSE)
      BY <1>4, <2>2, <3>1
    <3>3. QED
      BY <2>6, <2>9, <3>2
  <2>12. ~touched /\ ~pass'.guard =>
           /\ ~pass.guard /\ pass'.drops = pass.drops
           /\ pass.src \subseteq Tracks(target') \cup Lacking' \cup (IF pass'.at = "drop" THEN {} ELSE pass.refused)
           /\ \A u \in Track \ pass.src : Count(u)' <= Count(u) /\ Count(u)' \in Nat /\ Count(u) \in Nat
    BY <1>5, <1>7, <2>6, <2>8
  <2>13. target' \in Seq(Entry)
    BY <2>4
  <2>14. pass'.at \in {"retire", "keep"} /\ (pass'.at = "keep" => job.all /\ pass'.olds # <<>>)
    BY <1>7
  <2>15. pass'.olds = pass.olds \/ (pass.olds # <<>> /\ pass'.olds = Tail(pass.olds))
    BY <1>7
  <2>16. QED
    BY <1>1, <1>2, <1>7, <2>10, <2>11, <2>12, <2>13, <2>14, <2>15, RetiringKeeps DEF RetireFields
<1>8. CASE Ends
  BY <1>1, <1>2, <1>8, EndsUnwritten
<1>9. QED
  BY <1>1, <1>6, <1>7, <1>8, RetireIs

\* One copy comes back, or enough of them have, or the pass ends.
LEMMA KeepIs ==
  ASSUME TypeOK, Keep, pass.olds # <<>>
  PROVE  \/ /\ pass.keep > 0 /\ RetireFields /\ pass'.at = "keep" /\ pass'.olds = pass.olds
            /\ pass'.drops = pass.drops /\ pass'.guard = pass.guard /\ pass'.keep = pass.keep - 1
            /\ target' = Append1(Head(pass.olds), TRUE)
         \/ /\ pass.keep = 0 /\ RetireFields /\ pass'.at = "retire" /\ pass'.olds = Tail(pass.olds)
            /\ pass'.drops = pass.drops /\ pass'.guard = pass.guard /\ target' = target
         \/ Ends /\ scarred' = TRUE
<1>1. PICK r \in PassRecord : r = pass
  BY Fields
<1>2. ASSUME pass.keep > 0, pass' = [pass EXCEPT !.keep = @ - 1]
      PROVE  /\ RetireFields /\ pass'.at = "keep" /\ pass'.olds = pass.olds
             /\ pass'.drops = pass.drops /\ pass'.guard = pass.guard /\ pass'.keep = pass.keep - 1
  <2>1. PICK less \in Nat : less = pass.keep - 1
    BY <1>2, Fields
  <2>2. PICK n \in PassRecord : n = [r EXCEPT !.keep = less]
    BY DEF PassRecord
  <2>3. pass' = n
    BY <1>1, <1>2, <2>1, <2>2
  <2>4. /\ n.at = r.at /\ n.keep = less /\ n.guard = r.guard /\ n.drops = r.drops /\ n.adds = r.adds
        /\ n.refused = r.refused /\ n.olds = r.olds /\ n.version = r.version /\ n.src = r.src /\ n.wanted = r.wanted
        /\ n.incomplete = r.incomplete /\ n.read = r.read
    BY <2>2 DEF PassRecord
  <2>5. QED
    BY <1>1, <2>1, <2>3, <2>4 DEF RetireFields, Carries, Keep
<1>3. ASSUME pass' = [pass EXCEPT !.at = "retire", !.olds = Tail(@)]
      PROVE  /\ RetireFields /\ pass'.at = "retire" /\ pass'.olds = Tail(pass.olds)
             /\ pass'.drops = pass.drops /\ pass'.guard = pass.guard
  <2>1. PICK rest \in Seq(Track) : rest = Tail(pass.olds)
    BY Fields, HeadTail
  <2>2. PICK n \in PassRecord : n = [r EXCEPT !.at = "retire", !.olds = rest]
    BY DEF PassRecord
  <2>3. pass' = n
    BY <1>1, <1>3, <2>1, <2>2
  <2>4. /\ n.at = "retire" /\ n.guard = r.guard /\ n.drops = r.drops /\ n.adds = r.adds /\ n.refused = r.refused
        /\ n.olds = rest /\ n.version = r.version /\ n.src = r.src /\ n.wanted = r.wanted
        /\ n.incomplete = r.incomplete /\ n.read = r.read
    BY <2>2 DEF PassRecord
  <2>5. QED
    BY <1>1, <2>1, <2>3, <2>4 DEF RetireFields, Carries
<1>4. QED
  BY <1>2, <1>3 DEF Keep

\* The one track that is lacking is the one that comes back.
LEMMA KeepKeeps == ASSUME Content, Keep PROVE Content'
<1>1. /\ pass.at = "keep" /\ Engine /\ UNCHANGED <<ledger, saved>> /\ (Fine \/ Faulty)
      /\ TypeOK /\ target \in Seq(Entry) /\ pass.olds \in Seq(Track) /\ pass.src \subseteq Track
      /\ pass.olds # <<>> /\ job.all
  BY Fields DEF Keep, Content, Begins
<1>2. scarred' \in BOOLEAN
  BY <1>1 DEF TypeOK, Keep
<1>3. PICK t : t = Head(pass.olds)
  OBVIOUS
<1>4. /\ t \in Track /\ Elements(pass.olds) = {t} \cup Elements(Tail(pass.olds))
      /\ t \notin Elements(Tail(pass.olds)) /\ t \in pass.src
  <2>1. /\ t \in Track /\ Elements(pass.olds) = {t} \cup Elements(Tail(pass.olds))
        /\ t \notin Elements(Tail(pass.olds))
    BY <1>1, <1>3, HeadTail, TailOrdered DEF Content, Planned
  <2>2. QED
    BY <2>1 DEF Content, Planned, Matched
<1>5. Left = Elements(Tail(pass.olds)) /\ Lacking = IF pass.keep > 0 THEN {t} ELSE {}
  BY <1>1, <1>3 DEF Lacking, Left
<1>6. ~touched => Matched \subseteq Tracks(target) \cup Lacking
                  /\ \A u \in Left : On(u, TRUE) /\ On(u, FALSE)
  BY <1>1 DEF Content, OldKept
<1>7. ~touched /\ ~pass.guard => pass.src \subseteq Tracks(target) \cup Lacking \cup pass.refused
  BY <1>1 DEF Content, AllBrought, Early, Repairing
<1>8. ASSUME Landed(t), RetireFields, pass'.drops = pass.drops, pass'.guard = pass.guard,
             t \in Tracks(target') \/ Lacking = {},
             \/ pass'.at = "keep" /\ pass'.olds = pass.olds
             \/ pass'.at = "retire" /\ pass'.olds = Tail(pass.olds)
      PROVE  Content'
  <2>1. Left' = Left
    BY <1>5, <1>8 DEF Left
  <2>2. Lacking' \subseteq {t}
    BY <1>3, <1>8 DEF Lacking
  <2>3. /\ target' \in Seq(Entry) /\ Tracks(target) \subseteq Tracks(target')
        /\ \A u \in Track : u # t => Places(target', u) = Places(target, u)
        /\ \A u, staged : On(u, staged) => On(u, staged)'
    BY <1>8 DEF Landed
  <2>4. \A u \in Track \ pass.src : Count(u)' <= Count(u) /\ Count(u)' \in Nat /\ Count(u) \in Nat
    <3>1. IsFiniteSet(1..Len(target)) /\ Len(target) \in Nat /\ DOMAIN target = 1..Len(target)
      BY <1>1, FS_Interval
    <3>2. ASSUME NEW u \in Track PROVE Cardinality(Places(target, u)) \in Nat
      <4>1. Places(target, u) \in SUBSET (1..Len(target))
        BY <3>1 DEF Places
      <4>2. QED
        BY <3>1, <4>1, FS_Subset, FS_CardinalityType
    <3>3. \A u \in Track \ pass.src : Count(u)' = Count(u) /\ Count(u) \in Nat
      BY <1>4, <2>3, <3>2 DEF Count
    <3>4. QED
      BY <3>3
  <2>5. Lacking \subseteq Tracks(target')
    BY <1>5, <1>8
  <2>6. ~touched => Matched \subseteq Tracks(target') \cup Lacking'
    BY <1>6, <2>3, <2>5
  <2>7. ~touched => \A u \in Left' : On(u, TRUE)' /\ On(u, FALSE)' /\ u \notin Lacking'
    <3>1. SUFFICES ASSUME ~touched, NEW u \in Left PROVE On(u, TRUE)' /\ On(u, FALSE)' /\ u \notin Lacking'
      BY <2>1
    <3>2. u # t /\ On(u, TRUE) /\ On(u, FALSE)
      BY <1>4, <1>5, <1>6, <3>1
    <3>3. QED
      BY <2>2, <2>3, <3>2
  <2>8. ~touched /\ ~pass'.guard =>
           /\ ~pass.guard /\ pass'.drops = pass.drops
           /\ pass.src \subseteq Tracks(target') \cup Lacking' \cup (IF pass'.at = "drop" THEN {} ELSE pass.refused)
           /\ \A u \in Track \ pass.src : Count(u)' <= Count(u) /\ Count(u)' \in Nat /\ Count(u) \in Nat
    BY <1>7, <1>8, <2>3, <2>4, <2>5
  <2>9. pass'.at \in {"retire", "keep"} /\ (pass'.at = "keep" => job.all /\ pass'.olds # <<>>)
    BY <1>1, <1>8
  <2>10. pass'.olds = pass.olds \/ (pass.olds # <<>> /\ pass'.olds = Tail(pass.olds))
    BY <1>1, <1>8
  <2>11. QED
    BY <1>1, <1>2, <1>8, <2>3, <2>6, <2>7, <2>8, <2>9, <2>10, RetiringKeeps DEF RetireFields
<1>9. ASSUME RetireFields, pass'.at = "keep", pass'.olds = pass.olds, pass'.drops = pass.drops,
             pass'.guard = pass.guard, target' = Append1(t, TRUE)
      PROVE  Content'
  <2>1. Landed(t) /\ (target' # target => t \in Tracks(target') /\ On(t, TRUE)')
    BY <1>1, <1>4, <1>9, LandedIs
  <2>2. target' # target
    BY <1>1, <1>9 DEF Append1
  <2>3. QED
    BY <1>8, <1>9, <2>1, <2>2
<1>10. ASSUME pass.keep = 0, RetireFields, pass'.at = "retire", pass'.olds = Tail(pass.olds),
              pass'.drops = pass.drops, pass'.guard = pass.guard, target' = target
       PROVE  Content'
  <2>1. Landed(t)
    BY <1>1, <1>4, <1>10, LandedIs
  <2>2. Lacking = {}
    BY <1>5, <1>10
  <2>3. QED
    BY <1>8, <1>10, <2>1, <2>2
<1>11. CASE Ends
  BY <1>1, <1>2, <1>11, EndsUnwritten
<1>12. QED
  BY <1>1, <1>3, <1>9, <1>10, <1>11, KeepIs

\* What a pass keeps while it removes.
RemoveFields ==
  /\ pass' \in PassRecord /\ Carries /\ pass'.adds = pass.adds /\ pass'.refused = pass.refused
  /\ pass'.olds = pass.olds

\* One entry goes, or is declined, or the pass ends; then there is nothing left to remove.
LEMMA RemoveIs ==
  ASSUME TypeOK, RemoveOne
  PROVE  \/ /\ pass.drops = <<>> /\ RemoveFields /\ pass'.at = "record" /\ pass'.drops = pass.drops
            /\ pass'.guard = pass.guard /\ target' = target
         \/ /\ pass.drops # <<>> /\ RemoveFields /\ pass'.at = "drop" /\ pass'.drops = Tail(pass.drops)
            /\ pass'.guard = pass.guard /\ target' = Drop(Head(pass.drops), FALSE)
         \/ /\ pass.drops # <<>> /\ RemoveFields /\ pass'.at = "drop" /\ pass'.drops = Tail(pass.drops)
            /\ pass'.guard /\ target' = target
         \/ pass.drops # <<>> /\ Ends
<1>1. PICK r \in PassRecord : r = pass
  BY Fields
<1>2. pass.at = "drop"
  BY DEF RemoveOne
<1>3. ASSUME pass' = [pass EXCEPT !.at = "record"]
      PROVE  RemoveFields /\ pass'.at = "record" /\ pass'.drops = pass.drops /\ pass'.guard = pass.guard
  <2>1. PICK n \in PassRecord : n = [r EXCEPT !.at = "record"]
    BY DEF PassRecord
  <2>2. pass' = n
    BY <1>1, <1>3, <2>1
  <2>3. /\ n.at = "record" /\ n.guard = r.guard /\ n.drops = r.drops /\ n.adds = r.adds
        /\ n.refused = r.refused /\ n.olds = r.olds /\ n.version = r.version /\ n.src = r.src /\ n.wanted = r.wanted
        /\ n.incomplete = r.incomplete /\ n.read = r.read
    BY <2>1 DEF PassRecord
  <2>4. QED
    BY <1>1, <2>2, <2>3 DEF RemoveFields, Carries
<1>4. ASSUME pass.drops # <<>> PROVE Tail(pass.drops) \in Seq(Track)
  BY <1>4, Fields, HeadTail
<1>5. ASSUME pass.drops # <<>>, pass' = [pass EXCEPT !.drops = Tail(@), !.removed = @ + 1]
      PROVE  RemoveFields /\ pass'.at = "drop" /\ pass'.drops = Tail(pass.drops) /\ pass'.guard = pass.guard
  <2>1. PICK rest \in Seq(Track) : rest = Tail(pass.drops)
    BY <1>4, <1>5
  <2>2. PICK more \in Nat : more = pass.removed + 1
    BY Fields
  <2>3. PICK n \in PassRecord : n = [r EXCEPT !.drops = rest, !.removed = more]
    BY DEF PassRecord
  <2>4. pass' = n
    BY <1>1, <1>5, <2>1, <2>2, <2>3
  <2>5. /\ n.at = r.at /\ n.guard = r.guard /\ n.drops = rest /\ n.adds = r.adds
        /\ n.refused = r.refused /\ n.olds = r.olds /\ n.version = r.version /\ n.src = r.src /\ n.wanted = r.wanted
        /\ n.incomplete = r.incomplete /\ n.read = r.read
    BY <2>3 DEF PassRecord
  <2>6. QED
    BY <1>1, <1>2, <2>1, <2>4, <2>5 DEF RemoveFields, Carries
<1>6. ASSUME pass.drops # <<>>, pass' = [pass EXCEPT !.drops = Tail(@), !.guard = TRUE]
      PROVE  RemoveFields /\ pass'.at = "drop" /\ pass'.drops = Tail(pass.drops) /\ pass'.guard
  <2>1. PICK rest \in Seq(Track) : rest = Tail(pass.drops)
    BY <1>4, <1>6
  <2>2. PICK n \in PassRecord : n = [r EXCEPT !.drops = rest, !.guard = TRUE]
    BY DEF PassRecord
  <2>3. pass' = n
    BY <1>1, <1>6, <2>1, <2>2
  <2>4. /\ n.at = r.at /\ n.guard = TRUE /\ n.drops = rest /\ n.adds = r.adds
        /\ n.refused = r.refused /\ n.olds = r.olds /\ n.version = r.version /\ n.src = r.src /\ n.wanted = r.wanted
        /\ n.incomplete = r.incomplete /\ n.read = r.read
    BY <2>2 DEF PassRecord
  <2>5. QED
    BY <1>1, <1>2, <2>1, <2>3, <2>4 DEF RemoveFields, Carries
<1>7. QED
  BY <1>3, <1>5, <1>6 DEF RemoveOne

\* What goes is foreign, and each removal takes one copy off the count.
LEMMA RemoveKeeps == ASSUME Content, RemoveOne PROVE Content'
<1>1. /\ pass.at = "drop" /\ Engine /\ UNCHANGED <<ledger, saved, scarred>> /\ (Fine \/ Faulty)
      /\ TypeOK /\ target \in Seq(Entry) /\ pass.drops \in Seq(Track) /\ pass.src \subseteq Track
  BY Fields DEF RemoveOne, Content
<1>2. scarred' \in BOOLEAN
  BY <1>1 DEF TypeOK
<1>3. \A i \in DOMAIN target : ~target[i].staged
  BY <1>1 DEF Content, NoneStaged, Repairing
<1>4. ~touched => Matched \subseteq Tracks(target)
  BY <1>1 DEF Content, OldKept, Lacking
<1>5. ~touched /\ ~pass.guard => /\ pass.src \subseteq Tracks(target)
                                 /\ \A u \in Track \ pass.src : Count(u) <= Cardinality(Times(pass.drops, u))
  BY <1>1 DEF Content, AllBrought, AllTaken, Early, Repairing, Lacking
<1>6. ASSUME RemoveFields, pass'.at \in {"drop", "record"}, target' \in Seq(Entry),
             \A i \in DOMAIN target' : ~target'[i].staged, pass'.at = "record" => pass'.drops = <<>>,
             pass'.drops = pass.drops \/ (pass.drops # <<>> /\ pass'.drops = Tail(pass.drops)),
             Tracks(target) \cap pass.src \subseteq Tracks(target'),
             ~touched /\ ~pass'.guard =>
               /\ ~pass.guard
               /\ \A u \in Track \ pass.src : Count(u)' <= Cardinality(Times(pass'.drops, u)),
             pass.drops = <<>> => target' = target
      PROVE  Content'
  <2>1. pass' \in PassRecord /\ Carries
    BY <1>6 DEF RemoveFields
  <2>2. TypeOK' /\ Versions' /\ ReadWhole' /\ SourceKnown' /\ Matched' = Matched
    <3>1. pass'.drops # <<>> => ~pass'.incomplete
      BY <1>6, <2>1 DEF Content, ReadWhole, Carries
    <3>2. \A k \in DOMAIN pass'.drops : pass'.drops[k] \notin pass'.src
      <4>1. CASE pass'.drops = pass.drops
        BY <2>1, <4>1 DEF Content, ReadWhole, Carries
      <4>2. CASE pass.drops # <<>> /\ pass'.drops = Tail(pass.drops)
        <5>1. \A k \in DOMAIN pass'.drops : k + 1 \in DOMAIN pass.drops /\ pass'.drops[k] = pass.drops[k + 1]
          BY <1>1, <4>2, HeadTail
        <5>2. QED
          BY <2>1, <5>1 DEF Content, ReadWhole, Carries
      <4>3. QED
        BY <1>6, <4>1, <4>2
    <3>3. pass.at \notin {"idle", "read"} /\ pass'.at \notin {"idle", "read"}
      BY <1>1, <1>6
    <3>4. QED
      BY <1>1, <1>2, <1>6, <2>1, <3>1, <3>2, <3>3, Midway
  <2>3. Begins' /\ NoneStaged'
    BY <1>6 DEF Begins, Early, NoneStaged
  <2>4. Planned'
    BY <1>6, <2>1, <2>2 DEF Content, Planned, RemoveFields, Carries
  <2>5. Matched \subseteq pass.src /\ Lacking' = {}
    BY <1>6 DEF Matched, Lacking
  <2>6. OldKept'
    BY <1>1, <1>4, <1>6, <2>2, <2>5 DEF OldKept, Engine
  <2>7. AllBrought'
    BY <1>1, <1>5, <1>6, <2>1, <2>5 DEF AllBrought, Engine, Carries, Repairing
  <2>8. AllTaken'
    BY <1>1, <1>6, <2>1 DEF AllTaken, Engine, Carries
  <2>9. Settled'
    <3>1. SUFFICES ASSUME ~job.merge, ~touched, ledger.version = version
                   PROVE  /\ Tracks(target') = Wanted /\ pass'.at \in {"drop", "record"}
                          /\ pass'.adds = <<>> /\ pass'.olds = <<>> /\ pass'.drops = <<>>
      BY <1>1, EngineTypes DEF Settled, Engine
    <3>2. /\ Tracks(target) = Wanted /\ pass.adds = <<>> /\ pass.olds = <<>> /\ pass.drops = <<>>
      BY <3>1 DEF Content, Settled
    <3>3. target' = target
      BY <1>6, <3>2
    <3>4. pass'.drops = <<>>
      BY <1>6, <3>2
    <3>5. QED
      BY <1>6, <3>2, <3>3, <3>4 DEF RemoveFields
  <2>10. QED
    BY <2>2, <2>3, <2>4, <2>6, <2>7, <2>8, <2>9 DEF Content
<1>7. ASSUME pass.drops = <<>>, RemoveFields, pass'.at = "record", pass'.drops = pass.drops,
             pass'.guard = pass.guard, target' = target
      PROVE  Content'
  <2>1. ~touched /\ ~pass'.guard =>
               /\ ~pass.guard
               /\ \A u \in Track \ pass.src : Count(u)' <= Cardinality(Times(pass'.drops, u))
    BY <1>5, <1>7 DEF Count
  <2>2. QED
    BY <1>1, <1>3, <1>6, <1>7, <2>1
<1>8. ASSUME pass.drops # <<>>, RemoveFields, pass'.at = "drop", pass'.drops = Tail(pass.drops),
             pass'.guard, target' = target
      PROVE  Content'
  BY <1>1, <1>3, <1>6, <1>8
<1>9. ASSUME pass.drops # <<>>, RemoveFields, pass'.at = "drop", pass'.drops = Tail(pass.drops),
             pass'.guard = pass.guard, target' = Drop(Head(pass.drops), FALSE)
      PROVE  Content'
  <2>1. PICK t : t = Head(pass.drops)
    OBVIOUS
  <2>2. t \in Track /\ t \notin pass.src
    BY <1>1, <1>9, <2>1, HeadTail DEF Content, ReadWhole
  <2>3. PICK new \in Seq(Entry) : new = target' /\ new = Drop(t, FALSE)
    BY <1>1, <1>9, <2>1, <2>2, DropIs
  <2>4. PICK Out \in SUBSET Places(target, t) :
          /\ Trims(new, target, Out)
          /\ job.all => Out = Places(target, t)
          /\ ~job.all /\ Out = {} => \A i \in Places(target, t) : target[i].staged # FALSE
    BY <1>1, <2>2, <2>3, DropIs
  <2>5. target' \in Seq(Entry) /\ Trims(target', target, Out)
    BY <2>3, <2>4
  <2>6. /\ Tracks(target) \ {t} \subseteq Tracks(target')
        /\ \A u \in Track : Count(u)' <= Count(u) /\ Count(u) \in Nat /\ Count(u)' \in Nat
    BY <1>1, <2>2, <2>5, OthersStay
  <2>7. \A i \in DOMAIN target' : ~target'[i].staged
    BY <1>3, <2>5 DEF Trims
  <2>8. ASSUME ~touched, ~pass'.guard, NEW u \in Track \ pass.src
        PROVE  Count(u)' <= Cardinality(Times(pass'.drops, u))
    <3>1. Count(u) <= Cardinality(Times(pass.drops, u)) /\ Count(u)' <= Count(u) /\ Count(u) \in Nat /\ Count(u)' \in Nat
      BY <1>5, <1>9, <2>6, <2>8
    <3>2. Cardinality(Times(pass.drops, u)) \in Nat /\ Cardinality(Times(pass'.drops, u)) \in Nat
      <4>1. pass.drops \in Seq(Track) /\ Tail(pass.drops) \in Seq(Track)
        BY <1>1, <1>9, HeadTail
      <4>2. QED
        BY <1>9, <4>1, TimesTail
    <3>3. CASE u # t
      <4>1. Cardinality(Times(pass.drops, u)) <= Cardinality(Times(pass'.drops, u))
        BY <1>1, <1>9, <2>1, <3>3, TimesTail
      <4>2. QED
        BY <3>1, <3>2, <4>1
    <3>4. CASE u = t
      <4>1. Cardinality(Times(pass.drops, t)) <= Cardinality(Times(pass'.drops, t)) + 1
        BY <1>1, <1>9, <2>2, TimesTail
      <4>2. Count(t)' <= Count(t) - 1 \/ Count(t)' = 0
        <5>1. /\ IsFiniteSet(Places(target, t)) /\ Cardinality(Places(target, t)) \in Nat
              /\ Cardinality(Places(target', t)) \in Nat
              /\ Cardinality(Places(target', t)) <= Cardinality(Places(target, t) \ Out)
          BY <1>1, <2>2, <2>5, TrimsIs
        <5>2. CASE Places(target, t) = {}
          <6>1. Cardinality(Places(target, t) \ Out) = 0
            BY <5>2, FS_EmptySet
          <6>2. QED
            BY <5>1, <6>1 DEF Count
        <5>3. CASE Places(target, t) # {}
          <6>1. Out # {}
            BY <1>3, <2>4, <5>3, EntryIs, <1>1 DEF Places
          <6>2. PICK p \in Out : p \in Places(target, t)
            BY <6>1
          <6>3. /\ IsFiniteSet(Places(target, t) \ {p})
                /\ Cardinality(Places(target, t) \ {p}) = Cardinality(Places(target, t)) - 1
            BY <5>1, <6>2, FS_RemoveElement
          <6>4. /\ Cardinality(Places(target, t) \ Out) <= Cardinality(Places(target, t) \ {p})
                /\ Cardinality(Places(target, t) \ Out) \in Nat
            <7>1. Places(target, t) \ Out \in SUBSET (Places(target, t) \ {p})
              OBVIOUS
            <7>2. QED
              BY <6>3, <7>1, FS_Subset, FS_CardinalityType
          <6>5. Cardinality(Places(target', t)) <= Cardinality(Places(target, t)) - 1
            BY <5>1, <6>3, <6>4
          <6>6. QED
            BY <6>5 DEF Count
        <5>4. QED
          BY <5>2, <5>3
      <4>3. Count(t) <= Cardinality(Times(pass.drops, t)) /\ Count(t) \in Nat /\ Count(t)' \in Nat
            /\ Cardinality(Times(pass.drops, t)) \in Nat /\ Cardinality(Times(pass'.drops, t)) \in Nat
        BY <3>1, <3>2, <3>4
      <4>4. Count(t)' <= Cardinality(Times(pass'.drops, t))
        BY <4>1, <4>2, <4>3
      <4>5. QED
        BY <3>4, <4>4
    <3>5. QED
      BY <3>3, <3>4
  <2>9. Tracks(target) \cap pass.src \subseteq Tracks(target')
    BY <2>2, <2>6
  <2>10. ~touched /\ ~pass'.guard =>
               /\ ~pass.guard
               /\ \A u \in Track \ pass.src : Count(u)' <= Cardinality(Times(pass'.drops, u))
    BY <1>9, <2>8
  <2>11. QED
    BY <1>6, <1>9, <2>5, <2>7, <2>9, <2>10
<1>10. CASE Ends
  BY <1>1, <1>2, <1>10, EndsUnwritten
<1>11. QED
  BY <1>1, <1>7, <1>8, <1>9, <1>10, RemoveIs

\* What is recorded after a clean pass is a playlist with exactly the tracks of its source.
LEMMA RecordKeeps == ASSUME Content, RecordState PROVE Content'
<1>1. /\ pass.at = "record" /\ Engine /\ UNCHANGED <<saved, scarred>> /\ Fine /\ Ends
      /\ TypeOK /\ target \in Seq(Entry) /\ pass.src \subseteq Track /\ pass.drops = <<>>
  BY Fields DEF RecordState, Content, Begins
<1>2. scarred' \in BOOLEAN
  BY <1>1 DEF TypeOK
<1>3. CASE ledger' = ledger
  BY <1>1, <1>2, <1>3, EndsUnwritten
<1>4. CASE ~pass.guard /\ ~job.merge /\ ledger' = [version |-> pass.version, count |-> TargetCount]
  <2>1. TargetCount \in Int
    <3>1. pass.read \in Seq(Entry) /\ pass.added \in Nat /\ pass.removed \in Nat
      BY <1>1, Fields
    <3>2. Len(pass.read) \in Nat
      BY <3>1, LenProperties
    <3>3. QED
      BY <3>1, <3>2 DEF TargetCount
  <2>2. pass.version \in 0..MaxEdits \cup {Never} /\ pass.version <= version
    BY <1>1, Fields DEF Content, Versions
  <2>3. /\ ledger' \in [version : 0..MaxEdits \cup {Never}, count : Int] /\ ledger'.version = pass.version
    BY <1>4, <2>1, <2>2
  <2>4. /\ target' \in Seq(Entry) /\ Tracks(target') = Tracks(target) /\ pass' = Idle
        /\ \A i \in DOMAIN target' : ~target'[i].staged
    BY <1>1, UnstagedIs DEF Ends
  <2>5. Settled'
    <3>1. SUFFICES ASSUME ~touched, pass.version = version PROVE Tracks(target) = Wanted
      BY <1>1, <2>3, <2>4, EngineTypes, IdleIs DEF Settled, Engine, Early
    <3>2. pass.src = Wanted
      BY <1>1, <1>4, <3>1 DEF Content, SourceKnown
    <3>3. pass.src \subseteq Tracks(target)
      BY <1>1, <1>4, <3>1 DEF Content, AllBrought, Early, Repairing, Lacking
    <3>4. ASSUME NEW u \in Tracks(target), u \notin pass.src PROVE FALSE
      <4>1. u \in Track
        BY <1>1, EntryIs DEF Tracks
      <4>2. Count(u) <= Cardinality(Times(pass.drops, u))
        BY <1>1, <1>4, <3>1, <3>4, <4>1 DEF Content, AllTaken, Early
      <4>3. Cardinality(Times(pass.drops, u)) = 0
        <5>1. Times(pass.drops, u) = {}
          BY <1>1 DEF Times
        <5>2. QED
          BY <5>1, FS_EmptySet
      <4>4. IsFiniteSet(Places(target, u)) /\ Places(target, u) # {}
        <5>1. IsFiniteSet(1..Len(target)) /\ Len(target) \in Nat /\ DOMAIN target = 1..Len(target)
          BY <1>1, FS_Interval
        <5>2. Places(target, u) \in SUBSET (1..Len(target)) /\ Places(target, u) # {}
          BY <3>4, <5>1 DEF Places, Tracks
        <5>3. QED
          BY <5>1, <5>2, FS_Subset
      <4>5. Cardinality(Places(target, u)) \in Nat /\ Cardinality(Places(target, u)) # 0
        BY <4>4, FS_EmptySet, FS_CardinalityType
      <4>6. QED
        BY <4>2, <4>3, <4>5 DEF Count
    <3>5. QED
      BY <3>2, <3>3, <3>4
  <2>6. ledger'.version <= version /\ (job.merge => ledger'.version = Never)
    BY <1>4, <2>2, <2>3
  <2>7. QED
    BY <1>1, <1>2, <2>3, <2>4, <2>5, <2>6, Ending
<1>5. QED
  BY <1>3, <1>4 DEF RecordState, Clean


-----------------------------------------------------------------------------
(* What a playlist holds. *)

\* Before anything runs, nothing is recorded and the destination may hold anything.
LEMMA ContentInit == Init => Content
<1> SUFFICES ASSUME Init PROVE Content
  OBVIOUS
<1>1. PICK tracks \in SUBSET Track :
        target = [i \in DOMAIN Sorted(tracks) |-> [track |-> Sorted(tracks)[i], staged |-> FALSE]]
  BY DEF Init
<1>2. PICK list \in Seq(Track) : list = Sorted(tracks)
  BY SortedIs
<1>3. target \in Seq(Entry) /\ \A i \in DOMAIN target : target[i].staged = FALSE
  <2>1. PICK n \in Nat : n = Len(list) /\ DOMAIN list = 1..n
    OBVIOUS
  <2>2. \A i \in 1..n : list[i] \in Track
    BY <2>1
  <2>3. \A i \in 1..n : [track |-> list[i], staged |-> FALSE] \in Entry
    BY <2>2, EntryMade
  <2>4. target = [i \in 1..n |-> [track |-> list[i], staged |-> FALSE]]
    BY <1>1, <1>2, <2>1
  <2>5. target \in Seq(Entry) /\ DOMAIN target = 1..n
    BY <2>3, <2>4
  <2>6. \A i \in 1..n : target[i].staged = FALSE
    BY <2>4
  <2>7. QED
    BY <2>5, <2>6
<1>4. /\ pass.at = "idle" /\ pass.version = Never /\ pass.src = {} /\ pass.incomplete = FALSE /\ pass.wanted = {}
      /\ pass.read = <<>> /\ pass.adds = <<>> /\ pass.olds = <<>> /\ pass.drops = <<>> /\ pass.refused = {}
  BY IdleIs DEF Init
<1>5. ledger.version = Never /\ saved.version = Never /\ saved.tracks = {} /\ version = 0 /\ edits = 0
  BY DEF Init
<1>6. TypeOK
  <2>1. ledger \in [version : 0..MaxEdits \cup {Never}, count : Int]
    BY DEF Init
  <2>2. saved \in [version : 0..MaxEdits \cup {Never}, tracks : SUBSET Track]
    BY DEF Init
  <2>3. pass \in PassRecord
    BY IdleIs DEF Init
  <2>4. MaxEdits \in Nat /\ MaxFaults \in Nat
    BY MirrorAssumption
  <2>5. version \in 0..MaxEdits /\ edits \in 0..MaxEdits
    BY <1>5, <2>4
  <2>6. faults \in 0..MaxFaults
    BY <2>4 DEF Init
  <2>7. /\ job \in Jobs /\ lists \in [Source -> SUBSET Track] /\ touched \in BOOLEAN /\ scarred \in BOOLEAN
    BY DEF Init
  <2>8. QED
    BY <1>3, <2>1, <2>2, <2>3, <2>5, <2>6, <2>7 DEF TypeOK
<1>7. Begins
  BY <1>4 DEF Begins, Early, Init
<1>8. NoneStaged /\ ReadWhole /\ Planned
  BY <1>3, <1>4 DEF NoneStaged, ReadWhole, Planned, Elements
<1>9. Versions /\ SourceKnown
  BY <1>4, <1>5 DEF Versions, SourceKnown, Never
<1>10. OldKept /\ AllBrought /\ AllTaken
  BY <1>4 DEF OldKept, AllBrought, AllTaken, Early
<1>11. Settled
  BY <1>5 DEF Settled, Never
<1>12. QED
  BY <1>6, <1>7, <1>8, <1>9, <1>10, <1>11 DEF Content

\* Every step keeps the part of the invariant that is about what a playlist holds.
LEMMA ContentKept == Content /\ [Next]_vars => Content'
<1> SUFFICES ASSUME Content, [Next]_vars PROVE Content'
  OBVIOUS
<1>1. ASSUME NEW s \in Source, NEW t \in Track, EditSource(s, t) PROVE Content'
  BY <1>1, EditSourceKeeps
<1>2. ASSUME NEW t \in Track, EditTarget(t) PROVE Content'
  BY <1>2, EditTargetKeeps
<1>3. ASSUME Pass PROVE Content'
  BY <1>3, BeginKeeps, ReadSourceKeeps, ReadUnionKeeps, ReadTargetKeeps, PlanKeeps, AddKeeps, StageKeeps,
     UndoKeeps, RetireKeeps, KeepKeeps, RemoveKeeps, RecordKeeps DEF Pass
<1>4. ASSUME UNCHANGED vars PROVE Content'
  <2>1. TypeOK' /\ Begins' /\ NoneStaged' /\ Versions' /\ ReadWhole'
    BY <1>4 DEF vars, Content, TypeOK, Begins, NoneStaged, Versions, ReadWhole
  <2>2. SourceKnown' /\ Planned'
    BY <1>4 DEF vars, Content, SourceKnown, Planned, Wanted, Of, Matched
  <2>3. OldKept' /\ AllBrought' /\ AllTaken' /\ Settled'
    BY <1>4 DEF vars, Content, OldKept, AllBrought, AllTaken, Settled, Wanted, Of, Matched, On, Left, Lacking, Count
  <2>4. QED
    BY <2>1, <2>2, <2>3 DEF Content
<1>5. QED
  BY <1>1, <1>2, <1>3, <1>4 DEF Next, People

\* What holds of every behaviour, whatever the order.
LEMMA ContentHolds == Spec => []Content
BY ContentInit, ContentKept, PTL DEF Spec

\* A repair never takes the last copy of a wanted track off the destination.
THEOREM OnlyCopyKeptHolds == Spec => []OnlyCopyKept
<1>1. ASSUME Content PROVE OnlyCopyKept
  <2>1. SUFFICES ASSUME pass.at # "idle", ~job.all, ~touched PROVE Matched \subseteq Tracks(target)
    BY DEF OnlyCopyKept
  <2>2. CASE pass.at \in {"read", "look"}
    <3>1. pass.read = <<>> /\ DOMAIN <<>> = {}
      BY <1>1, <2>2 DEF Content, Begins
    <3>2. QED
      BY <3>1 DEF Matched, Tracks
  <2>3. CASE pass.at = "plan"
    BY <1>1, <2>1, <2>3 DEF Content, OldKept, Matched
  <2>4. CASE pass.at \in {"stage", "undo"}
    BY <1>1, <2>1, <2>4 DEF Content, OldKept, On, Tracks
  <2>5. CASE pass.at \in {"add", "drop", "record", "retire", "keep"}
    <3>1. Lacking = {}
      BY <1>1, <2>1 DEF Content, Begins, Lacking
    <3>2. QED
      BY <1>1, <2>1, <2>5, <3>1 DEF Content, OldKept
  <2>6. QED
    BY <1>1, <2>1, <2>2, <2>3, <2>4, <2>5, Fields DEF Content
<1>2. QED
  BY <1>1, ContentHolds, PTL

\* A playlist that the next pass would skip has exactly the tracks of its source.
THEOREM SkipIsSafeHolds == Spec => []SkipIsSafe
<1>1. ASSUME Content PROVE SkipIsSafe
  <2>1. SUFFICES ASSUME Unchanged, ~touched PROVE Tracks(target) = Wanted
    BY DEF SkipIsSafe
  <2>2. ledger.version = version /\ ~job.merge
    BY <2>1 DEF Unchanged
  <2>3. QED
    BY <1>1, <2>1, <2>2 DEF Content, Settled
<1>2. QED
  BY <1>1, ContentHolds, PTL

\* A pass never removes a track that was on one of its sources when they were read.
THEOREM UnreadKeptHolds == Spec => UnreadKept
<1> DEFINE Keeps == pass.at = "drop" /\ Engine => (Tracks(target) \ Tracks(target')) \cap pass.wanted = {}
<1>1. ASSUME Content, [Next]_vars PROVE Keeps
  <2>1. SUFFICES ASSUME pass.at = "drop", Engine PROVE (Tracks(target) \ Tracks(target')) \cap pass.wanted = {}
    OBVIOUS
  <2>2. target \in Seq(Entry) /\ edits \in Int /\ pass.drops \in Seq(Track)
    BY <1>1, Fields DEF Content
  <2>3. ASSUME target' = target \/ target' = Unstaged
        PROVE  (Tracks(target) \ Tracks(target')) \cap pass.wanted = {}
    BY <2>2, <2>3, UnstagedIs
  <2>4. CASE RemoveOne
    <3>1. CASE pass.drops # <<>> /\ target' = Drop(Head(pass.drops), FALSE)
      <4>1. PICK t \in Track : t = Head(pass.drops)
        BY <2>2, <3>1, HeadTail
      <4>2. t \notin pass.wanted
        <5>1. 1 \in DOMAIN pass.drops /\ t = pass.drops[1]
          BY <2>2, <3>1, <4>1, HeadTail
        <5>2. QED
          BY <1>1, <3>1, <5>1 DEF Content, ReadWhole
      <4>3. PICK Out \in SUBSET Places(target, t) : Trims(target', target, Out)
        BY <2>2, <3>1, <4>1, DropIs
      <4>4. target' \in Seq(Entry)
        BY <2>2, <3>1, <4>1, DropIs
      <4>5. Tracks(target) \ {t} \subseteq Tracks(target')
        BY <2>2, <4>3, <4>4, OthersStay
      <4>6. QED
        BY <4>2, <4>5
    <3>2. CASE target' = target \/ Ends
      BY <2>3, <3>2 DEF Ends
    <3>3. QED
      BY <1>1, <2>4, <3>1, <3>2, RemoveIs DEF Content
  <2>5. CASE UNCHANGED vars
    BY <2>3, <2>5 DEF vars
  <2>6. CASE People
    <3>1. edits' = edits + 1
      BY <2>6 DEF People, EditSource, EditTarget, Edit
    <3>2. QED
      BY <2>1, <2>2, <3>1 DEF Engine
  <2>7. ~(Begin \/ ReadSource \/ ReadUnion \/ ReadTarget \/ Plan \/ Add \/ Stage \/ Undo \/ Retire \/ Keep \/ RecordState)
    BY <2>1 DEF Begin, ReadSource, ReadUnion, ReadTarget, Plan, Add, Stage, Undo, Retire, Keep, RecordState
  <2>8. QED
    BY <1>1, <2>4, <2>5, <2>6, <2>7 DEF Next, Pass
<1>2. ASSUME Content /\ [Next]_vars PROVE [Keeps]_vars
  BY <1>1, <1>2
<1>3. QED
  BY <1>2, ContentHolds, PTL DEF Spec, UnreadKept

-----------------------------------------------------------------------------
(* In which order a playlist holds it. *)

\* Two entries of what is left were there before, and stood as they stand.
LEMMA TrimsPair ==
  ASSUME NEW old \in Seq(Entry), NEW new \in Seq(Entry), NEW Out, Trims(new, old, Out),
         NEW i \in DOMAIN new, NEW j \in DOMAIN new
  PROVE  \E a, b \in DOMAIN old \ Out : new[i] = old[a] /\ new[j] = old[b] /\ (i < j <=> a < b)
<1>1. PICK from \in [DOMAIN new -> DOMAIN old \ Out] :
        /\ \A k \in DOMAIN new : new[k] = old[from[k]]
        /\ \A k, m \in DOMAIN new : k < m => from[k] < from[m]
  BY DEF Trims
<1>2. from[i] \in DOMAIN old \ Out /\ from[j] \in DOMAIN old \ Out /\ new[i] = old[from[i]] /\ new[j] = old[from[j]]
  BY <1>1
<1>3. i \in Int /\ j \in Int /\ from[i] \in Int /\ from[j] \in Int
  BY <1>2, EntryIs
<1>4. (i < j => from[i] < from[j]) /\ (j < i => from[j] < from[i]) /\ (i = j => from[i] = from[j])
  BY <1>1
<1>5. i < j <=> from[i] < from[j]
  BY <1>3, <1>4
<1>6. QED
  BY <1>2, <1>5

\* Two entries of a longer playlist were there before, in the same places, or are the new one.
LEMMA AppendPair ==
  ASSUME NEW list \in Seq(Entry), NEW e \in Entry, NEW i \in DOMAIN Append(list, e), NEW j \in DOMAIN Append(list, e)
  PROVE  \/ /\ i \in DOMAIN list /\ Append(list, e)[i] = list[i]
            /\ j \in DOMAIN list /\ Append(list, e)[j] = list[j]
         \/ i \in DOMAIN list /\ Append(list, e)[i] = list[i] /\ Append(list, e)[j] = e /\ i < j
         \/ j \in DOMAIN list /\ Append(list, e)[j] = list[j] /\ Append(list, e)[i] = e /\ ~(i < j)
         \/ Append(list, e)[i] = e /\ Append(list, e)[j] = e /\ ~(i < j)
<1>1. \A k \in DOMAIN Append(list, e) :
        \/ k \in DOMAIN list /\ Append(list, e)[k] = list[k] /\ k < Len(list) + 1
        \/ k = Len(list) + 1 /\ Append(list, e)[k] = e
  BY AppendIs
<1>2. i \in Int /\ j \in Int /\ Len(list) + 1 \in Int
  BY AppendIs, EntryIs
<1>3. QED
  BY <1>1, <1>2

\* Where nothing is being written, order is all that counts.
LEMMA Quiet ==
  ASSUME pass'.at \in Early \cup {"drop", "record"}
  PROVE  AppendsNewer' /\ OldOrder' /\ StagedOrder' /\ RetireOrder' /\ ComeBackOrder'
BY DEF Early, AppendsNewer, OldOrder, Repairing, StagedOrder, RetireOrder, ComeBackOrder

\* A pass that ends has the wanted tracks in order.
LEMMA Over ==
  ASSUME pass' = Idle, ~touched' /\ ~scarred' /\ job'.replay => Ordered(Wanted)'
  PROVE  OrderInv'
<1>1. pass'.at = "idle" /\ pass'.src = {}
  BY IdleIs
<1>2. Relevant' = Wanted' /\ Known'
  BY <1>1 DEF Relevant, Known, Cached
<1>3. ~touched' /\ ~scarred' /\ job'.replay => Ordered(Relevant)'
  BY <1>2 DEF Ordered
<1>4. AppendsNewer' /\ OldOrder' /\ StagedOrder' /\ RetireOrder' /\ ComeBackOrder'
  BY <1>1, Quiet DEF Early
<1>5. QED
  BY <1>1, <1>2, <1>3, <1>4 DEF OrderInv

\* What is in order, and all that is wanted of what is there, stays so when the pass ends.
LEMMA OverUnwritten ==
  ASSUME IInv, Engine, Ends, ~scarred' => ~scarred, pass.at \in Early \cup {"add", "drop", "record"}
  PROVE  OrderInv'
<1>1. target \in Seq(Entry)
  BY Fields DEF IInv, Content
<1>2. /\ DOMAIN target' = DOMAIN target /\ \A i \in DOMAIN target : target'[i].track = target[i].track
  BY <1>1, UnstagedIs DEF Ends
<1>3. ASSUME ~touched', ~scarred', job'.replay PROVE Ordered(Wanted)'
  <2>1. ~touched /\ ~scarred /\ job.replay
    BY <1>3 DEF Engine
  <2>2. Ordered(Wanted)
    <3>1. CASE pass.at \in Early
      BY <2>1, <3>1 DEF IInv, OrderInv, Ordered, Relevant
    <3>2. CASE pass.at \in {"add", "drop", "record"}
      <4>1. Ordered(pass.src) /\ Wanted \cap Tracks(target) \subseteq pass.src
        BY <2>1, <3>2 DEF IInv, OrderInv, Known
      <4>2. \A i \in DOMAIN target : target[i].track \in Tracks(target)
        BY DEF Tracks
      <4>3. QED
        BY <4>1, <4>2 DEF Ordered
    <3>3. QED
      BY <3>1, <3>2
  <2>3. Wanted' = Wanted
    BY DEF Engine, Wanted, Of
  <2>4. QED
    BY <1>2, <2>2, <2>3 DEF Ordered
<1>4. QED
  BY <1>3, Over DEF Ends

\* A destination starts in order.
LEMMA OrderInit == Init => OrderInv
<1> SUFFICES ASSUME Init PROVE OrderInv
  OBVIOUS
<1>1. PICK tracks \in SUBSET Track :
        target = [i \in DOMAIN Sorted(tracks) |-> [track |-> Sorted(tracks)[i], staged |-> FALSE]]
  BY DEF Init
<1>2. PICK list \in Seq(Track) : list = Sorted(tracks) /\ \A i, k \in DOMAIN list : i < k => list[i] < list[k]
  BY SortedIs
<1>3. DOMAIN target = DOMAIN list /\ \A i \in DOMAIN list : target[i].track = list[i]
  BY <1>1, <1>2
<1>4. pass.at = "idle"
  BY IdleIs DEF Init
<1>5. Known
  BY <1>4 DEF Known, Cached
<1>6. Ordered(Relevant)
  BY <1>2, <1>3 DEF Ordered
<1>7. AppendsNewer /\ OldOrder /\ StagedOrder /\ RetireOrder /\ ComeBackOrder
  BY <1>4 DEF AppendsNewer, OldOrder, Repairing, StagedOrder, RetireOrder, ComeBackOrder
<1>8. QED
  BY <1>4, <1>5, <1>6, <1>7 DEF OrderInv

\* A track that comes back on a source while its old entry is on the destination is a scar.
LEMMA EditSourceInOrder == ASSUME IInv, NEW s \in Source, NEW t \in Track, EditSource(s, t) PROVE OrderInv'
<1> SUFFICES ASSUME ~touched', ~scarred', job'.replay PROVE OrderInv'
  BY DEF OrderInv
<1>1. /\ job' = job /\ saved' = saved /\ pass' = pass /\ target' = target
      /\ lists' = [lists EXCEPT ![s] = IF t \in @ THEN @ \ {t} ELSE @ \cup {t}]
      /\ ~touched /\ ~scarred /\ t \notin Tracks(target) \ lists[s]
  BY DEF EditSource, Edit
<1>2. job.replay /\ Known /\ (pass.at \in Early => Ordered(Relevant))
  BY <1>1 DEF IInv, OrderInv
<1>3. \A u \in Source : lists'[u] \cap Tracks(target) \subseteq lists[u] \cap Tracks(target)
  BY <1>1 DEF IInv, Content, TypeOK
<1>4. Of' = Of /\ Of \subseteq Source
  BY <1>1, MirrorAssumption DEF Of
<1>5. Wanted' \cap Tracks(target) \subseteq Wanted \cap Tracks(target)
  BY <1>3, <1>4 DEF Wanted
<1>6. Cached' = Cached
  BY <1>1 DEF Cached
<1>7. Known'
  BY <1>1, <1>2, <1>3, <1>5, <1>6 DEF Known
<1>8. \A i \in DOMAIN target : target[i].track \in Tracks(target)
  BY DEF Tracks
<1>9. \A i \in DOMAIN target : target[i].track \in Relevant' => target[i].track \in Relevant
  BY <1>1, <1>5, <1>6, <1>8 DEF Relevant
<1>10. pass.at \in Early => Ordered(Relevant)'
  BY <1>1, <1>2, <1>9 DEF Ordered
<1>11. (pass.at \in {"add", "drop", "record"} => Ordered(pass.src)') /\ AppendsNewer' /\ OldOrder'
  BY <1>1, <1>2 DEF IInv, OrderInv, Ordered, AppendsNewer, OldOrder
<1>12. StagedOrder' /\ RetireOrder' /\ ComeBackOrder'
  BY <1>1, <1>2 DEF IInv, OrderInv, StagedOrder, RetireOrder, ComeBackOrder, Back, Left, Lacking, Coming
<1>13. QED
  BY <1>1, <1>7, <1>10, <1>11, <1>12 DEF OrderInv

\* Reading more does not disturb the order of what is known.
LEMMA StillEarly ==
  ASSUME IInv, Engine, target' = target, ~scarred' => ~scarred, pass.at \in Early, pass'.at \in Early,
         ~touched /\ ~scarred' /\ job.replay => Known' /\ Relevant' \subseteq Relevant
  PROVE  OrderInv'
<1> SUFFICES ASSUME ~touched', ~scarred', job'.replay PROVE OrderInv'
  BY DEF OrderInv
<1>1. ~touched /\ ~scarred /\ job.replay
  BY DEF Engine
<1>2. Known' /\ Relevant' \subseteq Relevant
  BY <1>1
<1>3. Ordered(Relevant)
  BY <1>1 DEF IInv, OrderInv
<1>4. Ordered(Relevant)'
  BY <1>2, <1>3 DEF Ordered
<1>5. AppendsNewer' /\ OldOrder' /\ StagedOrder' /\ RetireOrder' /\ ComeBackOrder'
  BY Quiet
<1>6. pass'.at \notin {"add", "drop", "record"}
  BY DEF Early
<1>7. QED
  BY <1>2, <1>4, <1>5, <1>6 DEF OrderInv

\* What is in order between passes is in order when one begins.
LEMMA BeginInOrder == ASSUME IInv, Begin PROVE OrderInv'
<1>1. /\ pass.at = "idle" /\ Engine /\ Fine /\ target' = target /\ saved' = saved /\ scarred' = scarred
      /\ TypeOK
  BY DEF Begin, IInv, Content
<1>2. PICK r \in PassRecord : r = Idle
  BY IdleIs
<1>3. Of \subseteq Source /\ version \in 0..MaxEdits
  BY <1>1, MirrorAssumption, Fields DEF Of
<1>4. PICK n \in PassRecord : n = [r EXCEPT !.at = "read", !.version = version, !.unread = Of]
  BY <1>3 DEF PassRecord
<1>5. pass' = n
  BY <1>2, <1>4 DEF Begin
<1>6. n.at = "read" /\ n.version = version /\ n.unread = Of /\ n.src = r.src
  BY <1>4 DEF PassRecord
<1>7. pass'.at = "read" /\ pass'.version = version /\ pass'.unread = Of /\ pass'.src = {}
  BY <1>2, <1>5, <1>6, IdleIs
<1>8. Of' = Of /\ Wanted' = Wanted /\ job' = job /\ version' = version /\ lists' = lists
  BY <1>1, EngineTypes DEF Engine
<1>9. Cached' => saved'.tracks = Wanted
  BY <1>1, <1>7, <1>8 DEF Cached, IInv, Content, SourceKnown
<1>10. Known'
  <2>1. pass'.at = "read" /\ job'.merge => Source \ pass'.unread = {}
    BY <1>7, <1>8 DEF Of
  <2>2. QED
    BY <1>7, <1>8, <1>9, <2>1 DEF Known
<1>11. Relevant' \subseteq Relevant
  BY <1>7, <1>8, <1>9 DEF Relevant
<1>12. pass.at \in Early /\ pass'.at \in Early
  BY <1>1, <1>7 DEF Early
<1>13. QED
  BY <1>1, <1>10, <1>11, <1>12, StillEarly

\* What the cache knows is all that is wanted on the destination.
LEMMA ReadSourceInOrder == ASSUME IInv, ReadSource PROVE OrderInv'
<1> DEFINE tracks == IF saved.version = pass.version THEN saved.tracks ELSE lists[Main]
<1>1. /\ pass.at = "read" /\ ~job.merge /\ Engine /\ scarred' = scarred /\ (Fine \/ Faulty) /\ TypeOK
      /\ pass.at \in Early
  BY DEF ReadSource, IInv, Content, Early
<1>2. ASSUME NEW some \in BOOLEAN, pass' = Read(Main, tracks, tracks, some), target' = target PROVE OrderInv'
  <2>1. Main \in Source /\ lists[Main] \subseteq Track
    BY <1>1, MirrorAssumption DEF TypeOK
  <2>2. PICK got \in SUBSET Track : got = tracks
    BY <1>1, <2>1, Fields
  <2>3. pass' = Read(Main, got, got, some)
    BY <1>2, <2>2
  <2>4. /\ pass'.src = pass.src \cup got /\ pass'.at = (IF pass.unread = {Main} THEN "look" ELSE "read")
    BY <1>1, <2>1, <2>3, ReadIs
  <2>5. pass'.src = got /\ pass'.at = "look"
    BY <1>1, <2>4 DEF IInv, Content, Begins
  <2>6. Wanted' = Wanted /\ Wanted = lists[Main]
    BY <1>1, EngineTypes DEF Wanted, Of
  <2>7. Cached <=> saved.version = pass.version
    BY <1>1 DEF Cached
  <2>8. ~Cached'
    BY <2>5 DEF Cached
  <2>9. ASSUME ~touched, ~scarred, job.replay PROVE Known' /\ Relevant' \subseteq Relevant
    <3>1. Wanted \cap Tracks(target) \subseteq got
      BY <2>2, <2>6, <2>7, <2>9 DEF IInv, OrderInv, Known
    <3>2. Known'
      BY <1>2, <2>5, <2>6, <2>8, <3>1 DEF Known
    <3>3. Relevant' \subseteq Relevant
      BY <2>2, <2>5, <2>6, <2>7, <2>8 DEF Relevant
    <3>4. QED
      BY <3>2, <3>3
  <2>10. pass'.at \in Early
    BY <2>5 DEF Early
  <2>11. QED
    BY <1>1, <1>2, <2>9, <2>10, StillEarly
<1>3. CASE Ends
  BY <1>1, <1>3, OverUnwritten
<1>4. QED
  BY <1>2, <1>3 DEF ReadSource

\* Of the sources that are read, all that is on the destination is known.
LEMMA ReadUnionInOrder == ASSUME IInv, ReadUnion PROVE OrderInv'
<1>1. /\ pass.at = "read" /\ job.merge /\ Engine /\ target' = target /\ saved' = saved /\ (Fine \/ Faulty) /\ TypeOK
      /\ pass.at \in Early
  BY DEF ReadUnion, IInv, Content, Early
<1>2. ASSUME scarred' = TRUE PROVE OrderInv'
  BY <1>2 DEF OrderInv
<1>3. ASSUME NEW s \in pass.unread, pass' = Read(s, lists[s], lists[s], FALSE), scarred' = scarred PROVE OrderInv'
  <2>1. s \in Source /\ lists[s] \in SUBSET Track
    BY <1>1, Fields DEF TypeOK
  <2>2. /\ pass'.src = pass.src \cup lists[s] /\ pass'.at = (IF pass.unread = {s} THEN "look" ELSE "read")
        /\ pass'.unread = pass.unread \ {s}
    BY <1>1, <1>3, <2>1, ReadIs
  <2>3. Wanted' = Wanted /\ Of = Source /\ job' = job /\ lists' = lists
    BY <1>1, EngineTypes DEF Of, Engine
  <2>4. lists[s] \subseteq Wanted
    BY <2>1, <2>3 DEF Wanted
  <2>5. ~Cached' /\ ~Cached
    BY <1>1, <2>3 DEF Cached
  <2>6. ASSUME ~touched, ~scarred, job.replay PROVE Known'
    <3>1. \A u \in Source \ pass.unread : lists[u] \cap Tracks(target) \subseteq pass.src
      BY <1>1, <2>6 DEF IInv, OrderInv, Known
    <3>2. \A u \in Source \ pass'.unread : lists[u] \cap Tracks(target) \subseteq pass'.src
      BY <2>2, <3>1
    <3>3. pass'.at = "look" => Wanted \cap Tracks(target) \subseteq pass'.src
      <4>1. pass'.at = "look" => pass'.unread = {}
        BY <2>2
      <4>2. QED
        BY <2>3, <3>2, <4>1 DEF Wanted
    <3>4. pass'.at \in {"read", "look"}
      BY <2>2
    <3>5. QED
      BY <1>1, <2>3, <2>5, <3>2, <3>3, <3>4 DEF Known
  <2>7. Relevant' \subseteq Relevant
    BY <2>2, <2>3, <2>4, <2>5 DEF Relevant
  <2>8. pass'.at \in Early
    BY <2>2 DEF Early
  <2>9. QED
    BY <1>1, <1>3, <2>6, <2>7, <2>8, StillEarly
<1>4. QED
  BY <1>2, <1>3 DEF ReadUnion

\* Reading the destination moves nothing.
LEMMA ReadTargetInOrder == ASSUME IInv, ReadTarget PROVE OrderInv'
<1>1. /\ pass.at = "look" /\ Engine /\ saved' = saved /\ scarred' = scarred /\ (Fine \/ Faulty)
      /\ target \in Seq(Entry) /\ TypeOK /\ pass.at \in Early
  BY DEF ReadTarget, IInv, Content, TypeOK, Early
<1>2. CASE pass' = [pass EXCEPT !.at = "plan", !.read = target] /\ target' = target
  <2>1. PICK r \in PassRecord : r = pass
    BY <1>1 DEF TypeOK
  <2>2. PICK n \in PassRecord : n = [r EXCEPT !.at = "plan", !.read = target]
    BY <1>1 DEF PassRecord
  <2>3. pass' = n
    BY <1>2, <2>1, <2>2
  <2>4. n.at = "plan" /\ n.src = r.src
    BY <2>2 DEF PassRecord
  <2>5. pass'.at = "plan" /\ pass'.src = pass.src
    BY <2>1, <2>3, <2>4
  <2>6. Wanted' = Wanted
    BY <1>1, EngineTypes
  <2>7. ASSUME ~touched, ~scarred, job.replay PROVE Known'
    BY <1>1, <1>2, <2>5, <2>6, <2>7 DEF IInv, OrderInv, Known, Cached
  <2>8. Relevant' \subseteq Relevant
    BY <1>1, <2>5, <2>6 DEF Relevant, Cached
  <2>9. pass'.at \in Early
    BY <2>5 DEF Early
  <2>10. QED
    BY <1>1, <1>2, <2>7, <2>8, <2>9, StillEarly
<1>3. CASE Ends
  BY <1>1, <1>3, OverUnwritten
<1>4. QED
  BY <1>2, <1>3 DEF ReadTarget

\* What is appended is newer than all that stays; otherwise all from the oldest new one on is replayed.
LEMMA PlanInOrder == ASSUME IInv, Plan PROVE OrderInv'
<1> SUFFICES ASSUME ~touched', ~scarred', job'.replay PROVE OrderInv'
  BY DEF OrderInv
<1>1. /\ pass.at = "plan" /\ Engine /\ target' = target /\ (Fine \/ Faulty) /\ TypeOK /\ target \in Seq(Entry)
  BY DEF Plan, IInv, Content, TypeOK
<1>2. PICK new \in SUBSET (pass.src \ Tracks(pass.read)) : \E replay : Planning(new, replay)
  BY <1>1, PlanIs
<1>3. PICK replay : Planning(new, replay)
  BY <1>2
<1>4. ~touched /\ ~scarred /\ job.replay
  BY <1>1, <1>3 DEF Planning, Engine
<1>5. target = pass.read /\ \A i \in DOMAIN target : ~target[i].staged
  BY <1>1, <1>4 DEF IInv, Content, OldKept, NoneStaged, Repairing
<1>6. Known /\ Ordered(pass.src)
  <2>1. Known /\ Ordered(Relevant)
    BY <1>1, <1>4 DEF IInv, OrderInv, Early
  <2>2. QED
    BY <2>1 DEF Ordered, Relevant
<1>7. pass'.src = pass.src /\ pass'.at \in {"drop", "add", "stage"}
  BY <1>3 DEF Planning, Carries
<1>8. Known'
  <2>1. Wanted' = Wanted
    BY <1>1, EngineTypes
  <2>2. QED
    BY <1>1, <1>6, <1>7, <2>1 DEF Known, Cached
<1>9. Ordered(pass.src)'
  BY <1>1, <1>6, <1>7 DEF Ordered
<1>10. Matched \in SUBSET Track /\ new \in SUBSET Track /\ new \cap Matched = {} /\ pass.src \subseteq Track
  BY <1>1, Fields DEF Matched
<1>11. \A i \in DOMAIN target : target[i].track \in pass.src => target[i].track \in Matched
  BY <1>5 DEF Matched, Tracks
<1>12. \A c \in Track : c \in Int
  BY MirrorAssumption DEF Track
<1>13. replay = Replay(Matched, new)
  BY <1>3, <1>4 DEF Planning
<1>14. CASE pass'.at = "drop"
  BY <1>7, <1>8, <1>9, <1>14, Quiet DEF OrderInv, Early
<1>15. CASE pass'.at = "add"
  <2>1. replay = {}
    BY <1>3, <1>15 DEF Planning
  <2>2. pass'.adds = Sorted(new) /\ Elements(pass'.adds) = new
    BY <1>3, <1>10, <2>1, SortedIs DEF Planning
  <2>3. ASSUME NEW c \in Matched, NEW n \in new PROVE c < n
    <3>1. c \in Int /\ n \in Int /\ c # n
      BY <1>10, <1>12
    <3>2. ~(n < c)
      BY <1>13, <2>1, <3>1 DEF Replay
    <3>3. QED
      BY <3>1, <3>2
  <2>4. \A k \in DOMAIN pass'.adds : pass'.adds[k] \in new
    BY <2>2 DEF Elements
  <2>5. AppendsNewer'
    BY <1>1, <1>7, <1>11, <2>3, <2>4 DEF AppendsNewer
  <2>6. OldOrder' /\ StagedOrder' /\ RetireOrder' /\ ComeBackOrder' /\ pass'.at \notin Early
    BY <1>15 DEF OldOrder, Repairing, StagedOrder, RetireOrder, ComeBackOrder, Early
  <2>7. QED
    BY <1>8, <1>9, <2>5, <2>6 DEF OrderInv
<1>16. CASE pass'.at = "stage"
  <2>1. replay # {}
    BY <1>3, <1>16 DEF Planning
  <2>2. /\ replay \subseteq Matched \cup new /\ new \subseteq replay
        /\ \A c \in Matched \ replay, t \in replay : c < t
    BY <1>10, <1>13, <2>1, ReplayIs
  <2>3. replay \subseteq Track /\ replay \ new \subseteq Track
    BY <1>10, <2>2
  <2>4. pass'.adds = Sorted(replay) /\ pass'.olds = Sorted(replay \ new)
    BY <1>3, <2>1 DEF Planning
  <2>5. Elements(pass'.adds) = replay /\ Elements(pass'.olds) = replay \ new
    BY <2>3, <2>4, SortedIs
  <2>6. \A k \in DOMAIN pass'.adds : pass'.adds[k] \in replay
    BY <2>5 DEF Elements
  <2>7. OldOrder'
    <3>1. \A i, j \in DOMAIN target :
            i < j /\ {target[i].track, target[j].track} \subseteq pass.src => target[i].track < target[j].track
      BY <1>6 DEF Ordered
    <3>2. \A j \in DOMAIN target' : ~target'[j].staged
      BY <1>1, <1>5
    <3>3. QED
      BY <1>1, <1>7, <3>1, <3>2 DEF OldOrder
  <2>8. ASSUME NEW i \in DOMAIN target, target[i].track \in pass.src \ (replay \ new), NEW k \in DOMAIN pass'.adds
        PROVE  target[i].track < pass'.adds[k]
    <3>1. target[i].track \in Matched \ replay
      BY <1>10, <1>11, <2>8
    <3>2. QED
      BY <2>2, <2>6, <3>1
  <2>9. ASSUME job.all, NEW u \in replay \ new, NEW k \in DOMAIN pass'.adds
        PROVE  pass'.adds[k] \in replay \ new \/ pass'.adds[k] < u
    <3>1. SUFFICES ASSUME NEW n \in new, n = pass'.adds[k] PROVE n < u
      BY <2>6
    <3>2. ~Displaces(Matched, new)
      BY <1>3, <2>1 DEF Planning
    <3>3. ~(u < n)
      BY <1>13, <2>9, <3>2 DEF Displaces
    <3>4. u \in Int /\ n \in Int /\ u # n
      BY <1>10, <1>12, <2>3
    <3>5. QED
      BY <3>3, <3>4
  <2>10. StagedOrder'
    <3>1. \A j \in DOMAIN target' : ~target'[j].staged
      BY <1>1, <1>5
    <3>2. job' = job
      BY <1>1 DEF Engine
    <3>3. QED
      BY <1>1, <1>7, <2>5, <2>8, <2>9, <3>1, <3>2 DEF StagedOrder
  <2>11. AppendsNewer' /\ RetireOrder' /\ ComeBackOrder' /\ pass'.at \notin Early
    BY <1>16 DEF AppendsNewer, RetireOrder, ComeBackOrder, Early
  <2>12. QED
    BY <1>8, <1>16, <2>7, <2>10, <2>11 DEF OrderInv
<1>17. QED
  BY <1>7, <1>14, <1>15, <1>16

\* Additions go oldest first, behind everything that is known.
LEMMA AddInOrder == ASSUME IInv, Add PROVE OrderInv'
<1> SUFFICES ASSUME ~touched', ~scarred', job'.replay PROVE OrderInv'
  BY DEF OrderInv
<1>1. /\ pass.at = "add" /\ Engine /\ scarred' = scarred /\ saved' = saved /\ (Fine \/ Faulty) /\ TypeOK
      /\ target \in Seq(Entry) /\ pass.adds \in Seq(Track) /\ pass.adds # <<>>
  BY Fields DEF Add, IInv, Content, Begins
<1>2. ~touched /\ ~scarred /\ job.replay
  BY <1>1 DEF Engine
<1>3. Known /\ Ordered(pass.src) /\ AppendsNewer
  BY <1>1, <1>2 DEF IInv, OrderInv
<1>4. PICK t \in Track : t = Head(pass.adds)
  BY <1>1, HeadTail
<1>5. /\ t \in pass.src /\ \A k \in DOMAIN Tail(pass.adds) : t < Tail(pass.adds)[k]
      /\ \A i \in DOMAIN target : target[i].track \in pass.src =>
           target[i].track < t /\ \A k \in DOMAIN Tail(pass.adds) : target[i].track < Tail(pass.adds)[k]
  <2>1. 1 \in DOMAIN pass.adds /\ t = pass.adds[1] /\ t \in Elements(pass.adds)
        /\ \A k \in DOMAIN Tail(pass.adds) : k + 1 \in DOMAIN pass.adds /\ Tail(pass.adds)[k] = pass.adds[k + 1]
    BY <1>1, <1>4, HeadTail
  <2>2. t \in pass.src
    BY <2>1 DEF IInv, Content, Planned
  <2>3. \A k \in DOMAIN Tail(pass.adds) : t < Tail(pass.adds)[k]
    BY <1>1, <1>4, TailOrdered DEF IInv, Content, Planned
  <2>4. \A i \in DOMAIN target : target[i].track \in pass.src => target[i].track < t
    BY <1>1, <1>3, <2>1 DEF AppendsNewer
  <2>5. \A i \in DOMAIN target : target[i].track \in pass.src =>
          \A k \in DOMAIN Tail(pass.adds) : target[i].track < Tail(pass.adds)[k]
    BY <1>1, <1>3, <2>1 DEF AppendsNewer
  <2>6. QED
    BY <2>2, <2>3, <2>4, <2>5
<1>6. PICK e \in Entry : e = [track |-> t, staged |-> FALSE] /\ e.track = t
  BY EntryMade
<1>7. Wanted' = Wanted
  BY <1>1, EngineTypes
<1>8. ASSUME NEW list \in Seq(Entry), DOMAIN list = DOMAIN target,
             \A i \in DOMAIN list : list[i].track = target[i].track, target' = Append(list, e)
      PROVE  Ordered(pass.src)' \/ pass'.src # pass.src
  <2>1. SUFFICES ASSUME pass'.src = pass.src, NEW i \in DOMAIN target', NEW j \in DOMAIN target', i < j,
                        target'[i].track \in pass.src, target'[j].track \in pass.src
                 PROVE  target'[i].track < target'[j].track
    BY DEF Ordered
  <2>2. \/ i \in DOMAIN list /\ target'[i] = list[i] /\ j \in DOMAIN list /\ target'[j] = list[j]
        \/ i \in DOMAIN list /\ target'[i] = list[i] /\ target'[j] = e
    BY <1>8, <2>1, AppendPair
  <2>3. QED
    BY <1>3, <1>5, <1>6, <1>8, <2>1, <2>2 DEF Ordered
<1>9. ASSUME AddFields, target' = target \/ target' = Append(target, e) PROVE OrderInv'
  <2>1. pass'.src = pass.src /\ pass'.at \in {"add", "drop"} /\ pass'.adds = Tail(pass.adds)
    BY <1>9 DEF AddFields, Carries
  <2>2. Ordered(pass.src)'
    BY <1>1, <1>3, <1>8, <1>9, <2>1 DEF Ordered
  <2>3. Tracks(target') \subseteq Tracks(target) \cup {t}
    <3>1. Tracks(Append(target, e)) = Tracks(target) \cup {e.track}
      BY <1>1, AppendIs
    <3>2. QED
      BY <1>6, <1>9, <3>1
  <2>4. Known'
    BY <1>1, <1>3, <1>5, <1>7, <2>1, <2>3 DEF Known, Cached
  <2>5. \A i \in DOMAIN target' : (i \in DOMAIN target /\ target'[i] = target[i]) \/ target'[i] = e
    BY <1>1, <1>9, AppendIs
  <2>6. AppendsNewer'
    BY <1>5, <1>6, <2>1, <2>5 DEF AppendsNewer
  <2>7. OldOrder' /\ StagedOrder' /\ RetireOrder' /\ ComeBackOrder' /\ pass'.at \notin Early
    BY <2>1 DEF OldOrder, Repairing, StagedOrder, RetireOrder, ComeBackOrder, Early
  <2>8. QED
    BY <2>2, <2>4, <2>6, <2>7 DEF OrderInv
<1>10. ASSUME pass' = Idle, target' = Append(Unstaged, e) PROVE OrderInv'
  <2>1. PICK list \in Seq(Entry) : list = Unstaged
    BY <1>1, UnstagedIs
  <2>2. /\ DOMAIN list = DOMAIN target /\ \A i \in DOMAIN list : list[i].track = target[i].track
        /\ \A i \in DOMAIN target : target[i].track \in Tracks(target)
    BY <1>1, <2>1, UnstagedIs DEF Tracks
  <2>3. SUFFICES ASSUME NEW i \in DOMAIN target', NEW j \in DOMAIN target', i < j,
                        target'[i].track \in Wanted, target'[j].track \in Wanted
                 PROVE  target'[i].track < target'[j].track
    BY <1>7, <1>10, Over DEF Ordered
  <2>4. \/ i \in DOMAIN list /\ target'[i] = list[i] /\ j \in DOMAIN list /\ target'[j] = list[j]
        \/ i \in DOMAIN list /\ target'[i] = list[i] /\ target'[j] = e
    BY <1>10, <2>1, <2>3, AppendPair
  <2>5. Wanted \cap Tracks(target) \subseteq pass.src
    BY <1>1, <1>3 DEF Known
  <2>6. QED
    BY <1>3, <1>5, <1>6, <2>2, <2>3, <2>4, <2>5 DEF Ordered
<1>11. ASSUME Ends PROVE OrderInv'
  BY <1>1, <1>11, OverUnwritten
<1>12. QED
  BY <1>1, <1>4, <1>6, <1>9, <1>10, <1>11, AddIs DEF Append1, Ends

\* Copies go oldest first, behind all that stays before them.
LEMMA StageInOrder == ASSUME IInv, Content', Stage PROVE OrderInv'
<1> SUFFICES ASSUME ~touched', ~scarred', job'.replay PROVE OrderInv'
  BY DEF OrderInv
<1>1. /\ pass.at = "stage" /\ Engine /\ scarred' = scarred /\ saved' = saved /\ (Fine \/ Faulty) /\ TypeOK
      /\ target \in Seq(Entry) /\ pass.adds \in Seq(Track) /\ pass.adds # <<>>
  BY Fields DEF Stage, IInv, Content, Begins
<1>2. ~touched /\ ~scarred /\ job.replay /\ job' = job
  BY <1>1 DEF Engine
<1>3. Known /\ OldOrder /\ StagedOrder
  BY <1>1, <1>2 DEF IInv, OrderInv
<1>4. PICK t \in Track : t = Head(pass.adds)
  BY <1>1, HeadTail
<1>5. PICK rest \in Seq(Track) : rest = Tail(pass.adds)
  BY <1>1, HeadTail
<1>6. PICK old : old = Elements(pass.olds)
  OBVIOUS
<1>7. /\ 1 \in DOMAIN pass.adds /\ t = pass.adds[1] /\ t \in pass.src
      /\ \A k \in DOMAIN rest : k + 1 \in DOMAIN pass.adds /\ rest[k] = pass.adds[k + 1] /\ t < rest[k]
  <2>1. 1 \in DOMAIN pass.adds /\ t = pass.adds[1] /\ t \in Elements(pass.adds)
        /\ \A k \in DOMAIN rest : k + 1 \in DOMAIN pass.adds /\ rest[k] = pass.adds[k + 1]
    BY <1>1, <1>4, <1>5, HeadTail
  <2>2. \A k \in DOMAIN rest : t < rest[k]
    BY <1>1, <1>4, <1>5, TailOrdered DEF IInv, Content, Planned
  <2>3. t \in pass.src
    BY <2>1 DEF IInv, Content, Planned
  <2>4. QED
    BY <2>1, <2>2, <2>3
\* What the new copy, and the tracks to come, have behind them.
<1>8. ASSUME NEW i \in DOMAIN target, target[i].staged
      PROVE  target[i].track \in pass.src /\ target[i].track < t /\ \A k \in DOMAIN rest : target[i].track < rest[k]
  BY <1>1, <1>3, <1>7, <1>8 DEF StagedOrder
<1>9. ASSUME NEW i \in DOMAIN target, ~target[i].staged, target[i].track \in pass.src \ old
      PROVE  /\ target[i].track < t /\ \A k \in DOMAIN rest : target[i].track < rest[k]
             /\ \A j \in DOMAIN target : target[j].staged => target[i].track < target[j].track
  <2>1. /\ \A j \in DOMAIN target : target[j].staged => target[i].track < target[j].track
        /\ \A k \in DOMAIN pass.adds : target[i].track < pass.adds[k]
    BY <1>1, <1>3, <1>6, <1>9 DEF StagedOrder
  <2>2. QED
    BY <1>7, <2>1
<1>10. ASSUME job.all, NEW u \in old
       PROVE  /\ t \in old \/ t < u
              /\ \A k \in DOMAIN rest : rest[k] \in old \/ rest[k] < u
              /\ \A j \in DOMAIN target : target[j].staged => target[j].track \in old \/ target[j].track < u
  <2>1. /\ \A k \in DOMAIN pass.adds : pass.adds[k] \in old \/ pass.adds[k] < u
        /\ \A j \in DOMAIN target : target[j].staged => target[j].track \in old \/ target[j].track < u
    BY <1>1, <1>3, <1>6, <1>10 DEF StagedOrder
  <2>2. QED
    BY <1>7, <2>1
<1>11. PICK e \in Entry : e = [track |-> t, staged |-> TRUE] /\ e.track = t /\ e.staged = TRUE
  BY EntryMade
<1>12. ASSUME target' = target \/ target' = Append(target, e), pass'.src = pass.src,
              pass'.olds = pass.olds, pass'.at \in {"stage", "undo", "retire"},
              pass'.at = "stage" => pass'.adds = rest
       PROVE  OrderInv'
  <2>1. \A i \in DOMAIN target' : (i \in DOMAIN target /\ target'[i] = target[i]) \/ target'[i] = e
    BY <1>1, <1>12, AppendIs
  <2>2. ASSUME NEW i \in DOMAIN target', NEW j \in DOMAIN target'
        PROVE  \/ i \in DOMAIN target /\ target'[i] = target[i] /\ j \in DOMAIN target /\ target'[j] = target[j]
               \/ i \in DOMAIN target /\ target'[i] = target[i] /\ target'[j] = e /\ i < j
               \/ j \in DOMAIN target /\ target'[j] = target[j] /\ target'[i] = e /\ ~(i < j)
               \/ target'[i] = e /\ target'[j] = e /\ ~(i < j)
    BY <1>1, <1>12, AppendPair
  <2>3. Known'
    <3>1. Tracks(Append(target, e)) = Tracks(target) \cup {e.track}
      BY <1>1, AppendIs
    <3>2. Tracks(target') \subseteq Tracks(target) \cup {t}
      BY <1>11, <1>12, <3>1
    <3>3. Wanted' = Wanted
      BY <1>1, EngineTypes
    <3>4. QED
      BY <1>1, <1>3, <1>7, <1>12, <3>2, <3>3 DEF Known, Cached
  <2>4. ASSUME NEW i \in DOMAIN target', target'[i].staged
        PROVE  target'[i].track \in pass.src /\ \A k \in DOMAIN rest : target'[i].track < rest[k]
    BY <1>7, <1>8, <1>11, <2>1, <2>4
  <2>5. ASSUME NEW i \in DOMAIN target', NEW j \in DOMAIN target', i < j, target'[i].staged, target'[j].staged
        PROVE  target'[i].track < target'[j].track
    <3>1. CASE i \in DOMAIN target /\ target'[i] = target[i] /\ j \in DOMAIN target /\ target'[j] = target[j]
      BY <1>1, <1>3, <2>5, <3>1 DEF StagedOrder
    <3>2. CASE i \in DOMAIN target /\ target'[i] = target[i] /\ target'[j] = e
      BY <1>8, <1>11, <2>5, <3>2
    <3>3. QED
      BY <2>2, <2>5, <3>1, <3>2
  <2>6. ASSUME NEW i \in DOMAIN target', ~target'[i].staged, target'[i].track \in pass.src \ old
        PROVE  /\ \A k \in DOMAIN rest : target'[i].track < rest[k]
               /\ \A j \in DOMAIN target' : target'[j].staged => target'[i].track < target'[j].track
    <3>1. i \in DOMAIN target /\ target'[i] = target[i]
      BY <1>11, <2>1, <2>6
    <3>2. \A j \in DOMAIN target' : target'[j].staged => target[i].track < target'[j].track
      BY <1>9, <1>11, <2>1, <2>6, <3>1
    <3>3. QED
      BY <1>9, <2>6, <3>1, <3>2
  <2>7. ASSUME job.all, NEW u \in old
        PROVE  /\ \A k \in DOMAIN rest : rest[k] \in old \/ rest[k] < u
               /\ \A j \in DOMAIN target' : target'[j].staged => target'[j].track \in old \/ target'[j].track < u
    BY <1>10, <1>11, <2>1, <2>7
  <2>8. OldOrder'
    <3>1. ASSUME NEW i \in DOMAIN target', NEW j \in DOMAIN target', i < j, ~target'[i].staged, ~target'[j].staged,
                 target'[i].track \in pass.src, target'[j].track \in pass.src
          PROVE  target'[i].track < target'[j].track
      <4>1. i \in DOMAIN target /\ target'[i] = target[i] /\ j \in DOMAIN target /\ target'[j] = target[j]
        BY <1>11, <2>1, <3>1
      <4>2. QED
        BY <1>1, <1>3, <3>1, <4>1 DEF OldOrder, Repairing
    <3>2. ASSUME NEW i \in DOMAIN target', NEW j \in DOMAIN target', target'[j].staged, ~target'[i].staged
          PROVE  i < j
      <4>1. CASE i \in DOMAIN target /\ target'[i] = target[i] /\ j \in DOMAIN target /\ target'[j] = target[j]
        BY <1>1, <1>3, <3>2, <4>1 DEF OldOrder, Repairing
      <4>2. QED
        BY <1>11, <2>2, <3>2, <4>1
    <3>3. QED
      BY <1>12, <3>1, <3>2 DEF OldOrder
  <2>9. StagedOrder'
    <3>1. SUFFICES ASSUME pass'.at = "stage" PROVE StagedOrder'
      BY DEF StagedOrder
    <3>2. pass'.adds = rest /\ Elements(pass'.olds) = old
      BY <1>6, <1>12, <3>1
    <3>3. QED
      BY <1>2, <1>12, <2>4, <2>5, <2>6, <2>7, <3>2 DEF StagedOrder
  <2>10. pass'.at = "retire" => Left' = old /\ Lacking' = {} /\ Coming' = old
    BY <1>6, <1>12 DEF Left, Lacking, Coming
  <2>11. RetireOrder'
    BY <1>12, <2>4, <2>5, <2>6, <2>10 DEF RetireOrder
  <2>12. ComeBackOrder'
    <3>1. SUFFICES ASSUME pass'.at = "retire", job.all PROVE ComeBackOrder'
      BY <1>2, <1>12 DEF ComeBackOrder
    <3>2. ASSUME NEW i \in DOMAIN target', ~target'[i].staged, target'[i].track \in pass.src \ old, NEW u \in old
          PROVE  target'[i].track < u
      <4>1. On(u, TRUE)'
        BY <2>10, <3>1, <3>2 DEF Content, OldKept
      <4>2. PICK j \in DOMAIN target' : target'[j].track = u /\ target'[j].staged
        BY <4>1 DEF On
      <4>3. QED
        BY <2>6, <3>2, <4>2
    <3>3. ASSUME NEW j \in DOMAIN target', Back(j)'
          PROVE  target'[j].staged /\ target'[j].track \notin old
      BY <2>10, <3>1, <3>3 DEF Back
    <3>4. \A j \in DOMAIN target' : Back(j)' => \A u \in old : target'[j].track < u
      BY <2>7, <3>1, <3>3
    <3>5. \A i, j \in DOMAIN target' : i < j /\ Back(i)' /\ Back(j)' => target'[i].track < target'[j].track
      BY <2>5, <3>3
    <3>6. \A i \in DOMAIN target' : ~target'[i].staged /\ target'[i].track \in pass.src \ old =>
            /\ \A j \in DOMAIN target' : Back(j)' => target'[i].track < target'[j].track
            /\ \A u \in old : target'[i].track < u
      BY <2>6, <3>2, <3>3
    <3>7. QED
      BY <1>12, <2>4, <2>5, <2>10, <3>1, <3>4, <3>5, <3>6 DEF ComeBackOrder
  <2>13. AppendsNewer' /\ pass'.at \notin Early \cup {"add", "drop", "record"}
    BY <1>12 DEF AppendsNewer, Early
  <2>14. QED
    BY <2>3, <2>8, <2>9, <2>11, <2>12, <2>13 DEF OrderInv
<1>13. ASSUME NEW refused, StageFields(refused), target' = target \/ target' = Append(target, e) PROVE OrderInv'
  <2>1. pass'.src = pass.src /\ pass'.olds = pass.olds /\ pass'.adds = rest /\ pass'.at \in {"stage", "undo", "retire"}
    BY <1>5, <1>13 DEF StageFields, Carries, AfterStaging
  <2>2. QED
    BY <1>12, <1>13, <2>1
<1>14. ASSUME UndoFields, target' = target \/ target' = Append(target, e) PROVE OrderInv'
  <2>1. pass'.src = pass.src /\ pass'.olds = pass.olds /\ pass'.at = "undo"
    BY <1>14 DEF UndoFields, Carries
  <2>2. QED
    BY <1>12, <1>14, <2>1
<1>15. QED
  BY <1>1, <1>4, <1>11, <1>13, <1>14, StageIs DEF Append1

\* What is known stays known when nothing but what is known was added.
LEMMA KnownStays ==
  ASSUME Known, Wanted' = Wanted, pass.at \notin {"idle", "read"}, pass'.at \notin {"idle", "read"},
         pass'.src = pass.src, Tracks(target') \subseteq Tracks(target) \cup pass.src
  PROVE  Known'
BY DEF Known, Cached

\* Taking entries off leaves the others in order, the originals before the copies.
LEMMA OldOrderTrimmed ==
  ASSUME OldOrder, target \in Seq(Entry), target' \in Seq(Entry), NEW Out, Trims(target', target, Out),
         pass.at \in Repairing, pass'.src = pass.src, pass.at = "undo" => pass'.at = "undo"
  PROVE  OldOrder'
<1>1. ASSUME NEW i \in DOMAIN target', NEW j \in DOMAIN target', i < j, ~target'[i].staged, ~target'[j].staged,
             target'[i].track \in pass.src, target'[j].track \in pass.src
      PROVE  target'[i].track < target'[j].track
  <2>1. PICK a \in DOMAIN target \ Out, b \in DOMAIN target \ Out :
          target'[i] = target[a] /\ target'[j] = target[b] /\ (i < j <=> a < b)
    BY TrimsPair
  <2>2. QED
    BY <1>1, <2>1 DEF OldOrder
<1>2. ASSUME NEW i \in DOMAIN target', NEW j \in DOMAIN target', target'[j].staged, ~target'[i].staged,
             pass'.at # "undo"
      PROVE  i < j
  <2>1. PICK a \in DOMAIN target \ Out, b \in DOMAIN target \ Out :
          target'[i] = target[a] /\ target'[j] = target[b] /\ (i < j <=> a < b)
    BY TrimsPair
  <2>2. a < b
    BY <1>2, <2>1 DEF OldOrder
  <2>3. QED
    BY <2>1, <2>2
<1>3. QED
  BY <1>1, <1>2 DEF OldOrder

\* Without its copies a playlist is in the order it had.
LEMMA UndoInOrder == ASSUME IInv, Undo PROVE OrderInv'
<1> SUFFICES ASSUME ~touched', ~scarred', job'.replay PROVE OrderInv'
  BY DEF OrderInv
<1>1. /\ pass.at = "undo" /\ Engine /\ (Fine \/ Faulty) /\ TypeOK /\ target \in Seq(Entry) /\ pass.at \in Repairing
  BY DEF Undo, IInv, Content, TypeOK, Repairing
<1>2. ~touched /\ ~scarred /\ job.replay
  <2>1. scarred \in BOOLEAN /\ job.all \in BOOLEAN
    BY <1>1, Fields DEF TypeOK
  <2>2. ~scarred
    BY <2>1 DEF Undo
  <2>3. QED
    BY <1>1, <2>2 DEF Engine
<1>3. Known /\ OldOrder
  BY <1>1, <1>2 DEF IInv, OrderInv
<1>4. Wanted' = Wanted
  BY <1>1, EngineTypes
<1> DEFINE copies == {target[i].track : i \in {j \in DOMAIN target : target[j].staged}}
<1>5. ASSUME copies = {}, Ends PROVE OrderInv'
  <2>1. \A i \in DOMAIN target : ~target[i].staged
    BY <1>5
  <2>2. Ordered(pass.src)
    BY <1>1, <1>3, <2>1 DEF OldOrder, Ordered
  <2>3. Wanted \cap Tracks(target) \subseteq pass.src /\ \A i \in DOMAIN target : target[i].track \in Tracks(target)
    BY <1>1, <1>3 DEF Known, Tracks
  <2>4. DOMAIN target' = DOMAIN target /\ \A i \in DOMAIN target : target'[i].track = target[i].track
    BY <1>1, <1>5, UnstagedIs DEF Ends
  <2>5. Ordered(Wanted)'
    BY <1>4, <2>2, <2>3, <2>4 DEF Ordered
  <2>6. QED
    BY <1>5, <2>5, Over DEF Ends
<1>6. ASSUME pass' = pass, ~job.all, NEW t \in copies, target' = Drop(t, TRUE) \o Repeat(t, Again(t, TRUE))
      PROVE  OrderInv'
  <2>1. t \in Track
    BY <1>1, EntryIs
  <2>2. target' = Drop(t, TRUE) /\ Drop(t, TRUE) \in Seq(Entry)
    BY <1>1, <1>6, <2>1, UndoneIs, DropIs
  <2>3. PICK Out \in SUBSET Places(target, t) : Trims(Drop(t, TRUE), target, Out)
    BY <1>1, <2>1, DropIs
  <2>4. Trims(target', target, Out) /\ target' \in Seq(Entry)
    BY <2>2, <2>3
  <2>5. OldOrder'
    BY <1>1, <1>3, <1>6, <2>4, OldOrderTrimmed
  <2>6. Tracks(target') \subseteq Tracks(target)
    BY <1>1, <2>1, <2>4, OthersStay
  <2>7. Known'
    BY <1>1, <1>3, <1>4, <1>6, <2>6, KnownStays
  <2>8. AppendsNewer' /\ StagedOrder' /\ RetireOrder' /\ ComeBackOrder' /\ pass'.at \notin Early \cup {"add", "drop", "record"}
    BY <1>1, <1>6 DEF AppendsNewer, StagedOrder, RetireOrder, ComeBackOrder, Early
  <2>9. QED
    BY <2>5, <2>7, <2>8 DEF OrderInv
<1>7. \/ copies = {} /\ Ends
      \/ /\ UNCHANGED pass /\ ~job.all
         /\ \E t \in copies : target' = Drop(t, TRUE) \o Repeat(t, Again(t, TRUE))
  BY DEF Undo
<1>8. QED
  BY <1>5, <1>6, <1>7

\* An original and its copy are two entries.
LEMMA BothAreThere ==
  ASSUME IInv, ~touched, ~scarred, job.replay, pass.at = "retire", NEW t \in Left
  PROVE  \E a, b \in DOMAIN target :
           /\ target[a].track = t /\ target[a].staged /\ target[b].track = t /\ ~target[b].staged
           /\ \A i \in Places(target, t) : ~target[i].staged => i = b
           /\ job.all => Places(target, t) = {a, b} /\ Count(t) = 2
<1>1. target \in Seq(Entry) /\ pass.at \in Repairing
  BY Fields DEF IInv, Content, Repairing
<1>2. On(t, TRUE) /\ On(t, FALSE)
  BY DEF IInv, Content, OldKept
<1>3. PICK a \in DOMAIN target, b \in DOMAIN target :
        target[a].track = t /\ target[a].staged /\ target[b].track = t /\ ~target[b].staged
  BY <1>2 DEF On
<1>4. t \in pass.src /\ t \in Int
  <2>1. t \in Matched
    BY DEF IInv, Content, Planned, Left
  <2>2. t \in Track
    BY <1>1, <1>3, EntryIs
  <2>3. QED
    BY <2>1, <2>2, MirrorAssumption DEF Matched, Track
<1>5. ASSUME NEW i \in Places(target, t), ~target[i].staged PROVE i = b
  <2>1. i \in DOMAIN target /\ target[i].track = t
    BY DEF Places
  <2>2. i < b => t < t
    BY <1>1, <1>3, <1>4, <1>5, <2>1 DEF IInv, OrderInv, OldOrder
  <2>3. b < i => t < t
    BY <1>1, <1>3, <1>4, <1>5, <2>1 DEF IInv, OrderInv, OldOrder
  <2>4. i \in Int /\ b \in Int
    BY <1>1, <1>3, <2>1, EntryIs
  <2>5. ~(t < t)
    BY <1>4
  <2>6. QED
    BY <2>2, <2>3, <2>4, <2>5
<1>6. ASSUME job.all PROVE Places(target, t) = {a, b} /\ Count(t) = 2
  <2>1. ASSUME NEW i \in Places(target, t), target[i].staged PROVE i = a
    <3>1. i \in DOMAIN target /\ target[i].track = t
      BY DEF Places
    <3>2. i < a => t < t
      BY <1>3, <1>6, <2>1, <3>1 DEF IInv, OrderInv, ComeBackOrder
    <3>3. a < i => t < t
      BY <1>3, <1>6, <2>1, <3>1 DEF IInv, OrderInv, ComeBackOrder
    <3>4. i \in Int /\ a \in Int
      BY <1>1, <1>3, <3>1, EntryIs
    <3>5. ~(t < t)
      BY <1>4
    <3>6. QED
      BY <3>2, <3>3, <3>4, <3>5
  <2>2. Places(target, t) = {a, b}
    BY <1>3, <1>5, <2>1 DEF Places
  <2>3. a # b
    BY <1>3
  <2>4. IsFiniteSet({a}) /\ Cardinality({a}) = 1
    BY FS_Singleton
  <2>5. Cardinality({a} \cup {b}) = 2
    <3>1. b \notin {a}
      BY <2>3
    <3>2. Cardinality({a} \cup {b}) = Cardinality({a}) + 1
      BY <2>4, <3>1, FS_AddElement
    <3>3. QED
      BY <2>4, <3>2
  <2>6. {a} \cup {b} = {a, b}
    OBVIOUS
  <2>7. QED
    BY <2>2, <2>5, <2>6 DEF Count
<1>7. QED
  BY <1>3, <1>5, <1>6

\* Originals go oldest first, and each leaves its copy in its place of the order.
LEMMA RetireInOrder == ASSUME IInv, Retire PROVE OrderInv'
<1> SUFFICES ASSUME ~touched', ~scarred', job'.replay PROVE OrderInv'
  BY DEF OrderInv
<1>1. /\ pass.at = "retire" /\ Engine /\ (Fine \/ Faulty) /\ TypeOK /\ target \in Seq(Entry) /\ pass.at \in Repairing
      /\ pass.olds \in Seq(Track)
  BY Fields DEF Retire, IInv, Content, TypeOK, Repairing
<1>2. ~touched /\ ~scarred /\ job.replay /\ job' = job
  <2>1. scarred' = scarred \/ scarred' = TRUE
    BY DEF Retire
  <2>2. QED
    BY <1>1, <2>1 DEF Engine
<1>3. Known /\ OldOrder /\ RetireOrder /\ ComeBackOrder
  BY <1>1, <1>2 DEF IInv, OrderInv
<1>4. Wanted' = Wanted
  BY <1>1, EngineTypes
<1>5. Left = Elements(pass.olds) /\ Lacking = {}
  BY <1>1 DEF Left, Lacking
\* There is nothing left to retire: the copies continue what stayed.
<1>6. ASSUME pass.olds = <<>>, RetireFields, pass'.at = "drop", target' = Unstaged PROVE OrderInv'
  <2>1. Left = {}
    BY <1>5, <1>6 DEF Elements
  <2>2. /\ DOMAIN target' = DOMAIN target /\ Tracks(target') = Tracks(target)
        /\ \A i \in DOMAIN target : target'[i].track = target[i].track
        /\ \A i \in DOMAIN target : i \in Int
    <3>1. \A i \in DOMAIN target : i \in Int
      BY <1>1, EntryIs
    <3>2. QED
      BY <1>1, <1>6, <3>1, UnstagedIs
  <2>3. ASSUME NEW i \in DOMAIN target, NEW j \in DOMAIN target, i < j,
               target[i].track \in pass.src, target[j].track \in pass.src
        PROVE  target[i].track < target[j].track
    <3>1. CASE ~target[i].staged /\ ~target[j].staged
      BY <1>1, <1>3, <2>3, <3>1 DEF OldOrder
    <3>2. CASE target[i].staged /\ ~target[j].staged
      <4>1. j < i
        BY <1>1, <1>3, <3>2 DEF OldOrder
      <4>2. QED
        BY <2>2, <2>3, <4>1
    <3>3. CASE ~job.all /\ target[j].staged
      BY <1>1, <1>3, <2>1, <2>3, <3>3 DEF RetireOrder
    <3>4. CASE job.all /\ target[j].staged
      BY <1>1, <1>3, <2>1, <2>3, <3>4 DEF ComeBackOrder, Back
    <3>5. QED
      BY <3>1, <3>2, <3>3, <3>4
  <2>4. pass'.src = pass.src
    BY <1>6 DEF RetireFields, Carries
  <2>5. Ordered(pass.src)'
    BY <2>2, <2>3, <2>4 DEF Ordered
  <2>6. Known'
    BY <1>1, <1>3, <1>4, <1>6, <2>2, <2>4, KnownStays
  <2>7. QED
    BY <1>6, <2>5, <2>6, Quiet DEF OrderInv, Early
<1>7. ASSUME pass.olds # <<>>, RetireFields, pass'.at \in {"retire", "keep"}, target' = Drop(Head(pass.olds), FALSE),
             NEW t \in Left, t = Head(pass.olds), NEW Out \in SUBSET Places(target, t), Trims(target', target, Out),
             target' \in Seq(Entry)
      PROVE  OldOrder' /\ Known' /\ pass'.src = pass.src
  <2>1. pass'.src = pass.src
    BY <1>7 DEF RetireFields, Carries
  <2>2. OldOrder'
    BY <1>1, <1>3, <1>7, <2>1, OldOrderTrimmed
  <2>3. t \in Track
    BY <1>1, <1>7, HeadTail
  <2>4. Tracks(target') \subseteq Tracks(target)
    BY <1>1, <1>7, <2>3, OthersStay
  <2>5. pass'.at \notin {"idle", "read"}
    BY <1>7
  <2>6. QED
    BY <1>1, <1>3, <1>4, <2>1, <2>2, <2>4, <2>5, KnownStays
\* The original of one track goes, and its copy takes its place in the order.
<1>8. ASSUME pass.olds # <<>>, ~job.all, RetireFields, pass'.at = "retire", pass'.olds = Tail(pass.olds),
             target' = Drop(Head(pass.olds), FALSE)
      PROVE  OrderInv'
  <2>1. PICK t \in Track : t = Head(pass.olds)
    BY <1>1, <1>8, HeadTail
  <2>2. t \in Left /\ Left = {t} \cup Elements(Tail(pass.olds)) /\ Left' = Elements(Tail(pass.olds))
    BY <1>1, <1>5, <1>8, <2>1, HeadTail DEF Left
  <2>3. PICK Out \in SUBSET Places(target, t) :
          /\ Trims(Drop(t, FALSE), target, Out) /\ \A i \in Out : target[i].staged = FALSE
          /\ Out = {} => \A i \in Places(target, t) : target[i].staged # FALSE
    BY <1>1, <1>8, <2>1, DropIs
  <2>4. Trims(target', target, Out) /\ target' \in Seq(Entry)
    BY <1>1, <1>8, <2>1, <2>3, DropIs
  <2>5. OldOrder' /\ Known' /\ pass'.src = pass.src
    BY <1>7, <1>8, <2>1, <2>2, <2>4
  <2>6. PICK b : \A i \in Places(target, t) : ~target[i].staged => i = b
    <3>1. \E a, b \in DOMAIN target :
            /\ target[a].track = t /\ target[a].staged /\ target[b].track = t /\ ~target[b].staged
            /\ \A i \in Places(target, t) : ~target[i].staged => i = b
            /\ job.all => Places(target, t) = {a, b} /\ Count(t) = 2
      BY <1>1, <1>2, <2>2, BothAreThere
    <3>2. QED
      BY <3>1
  <2>7. ASSUME NEW i \in DOMAIN target \ Out, target[i].track = t PROVE target[i].staged
    <3>1. SUFFICES ASSUME ~target[i].staged PROVE FALSE
      OBVIOUS
    <3>2. i \in Places(target, t) /\ target[i].staged \in BOOLEAN
      BY <1>1, <2>7, EntryIs DEF Places
    <3>3. Out # {}
      BY <2>3, <3>1, <3>2
    <3>4. PICK k \in Out : TRUE
      BY <3>3
    <3>5. k \in Places(target, t) /\ ~target[k].staged
      BY <2>3, <3>4
    <3>6. QED
      BY <2>6, <2>7, <3>1, <3>2, <3>5
  <2>8. ASSUME NEW i \in DOMAIN target', NEW j \in DOMAIN target'
        PROVE  /\ target'[i].staged => target'[i].track \in pass.src
               /\ i < j /\ target'[i].staged /\ target'[j].staged => target'[i].track < target'[j].track
               /\ ~target'[i].staged /\ target'[i].track \in pass.src \ Left' /\ target'[j].staged
                    => target'[i].track < target'[j].track
    <3>1. PICK a \in DOMAIN target \ Out, c \in DOMAIN target \ Out :
            target'[i] = target[a] /\ target'[j] = target[c] /\ (i < j <=> a < c)
      BY <1>1, <2>4, TrimsPair
    <3>2. /\ target[a].staged => target[a].track \in pass.src
          /\ a < c /\ target[a].staged /\ target[c].staged => target[a].track < target[c].track
          /\ ~target[a].staged /\ target[a].track \in pass.src \ Left /\ target[c].staged
               => target[a].track < target[c].track
      BY <1>1, <1>3, <1>8 DEF RetireOrder
    <3>3. ~target[a].staged => target[a].track # t
      BY <2>7
    <3>4. QED
      BY <2>2, <3>1, <3>2, <3>3
  <2>9. RetireOrder'
    BY <2>5, <2>8 DEF RetireOrder
  <2>10. AppendsNewer' /\ StagedOrder' /\ ComeBackOrder' /\ pass'.at \notin Early \cup {"add", "drop", "record"}
    BY <1>2, <1>8 DEF AppendsNewer, StagedOrder, ComeBackOrder, Early
  <2>11. QED
    BY <2>5, <2>9, <2>10 DEF OrderInv
\* Both entries of one track go, and one is to come back behind those that came back before.
<1>9. ASSUME pass.olds # <<>>, job.all, RetireFields, pass'.at = "keep", pass'.olds = pass.olds,
             target' = Drop(Head(pass.olds), FALSE), pass'.keep = Count(Head(pass.olds)) - 1
      PROVE  OrderInv'
  <2>1. PICK t \in Track : t = Head(pass.olds)
    BY <1>1, <1>9, HeadTail
  <2>2. t \in Left /\ Left = {t} \cup Elements(Tail(pass.olds)) /\ Left' = Elements(Tail(pass.olds))
    BY <1>1, <1>5, <1>9, <2>1, HeadTail DEF Left
  <2>3. Trims(Drop(t, FALSE), target, Places(target, t)) /\ Drop(t, FALSE) \in Seq(Entry)
    <3>1. PICK Out \in SUBSET Places(target, t) : Trims(Drop(t, FALSE), target, Out) /\ Out = Places(target, t)
      BY <1>1, <1>9, <2>1, DropIs
    <3>2. Drop(t, FALSE) \in Seq(Entry)
      BY <1>1, <2>1, DropIs
    <3>3. QED
      BY <3>1, <3>2
  <2>4. Trims(target', target, Places(target, t)) /\ target' \in Seq(Entry)
    BY <1>9, <2>1, <2>3
  <2>5. OldOrder' /\ Known' /\ pass'.src = pass.src
    BY <1>7, <1>9, <2>1, <2>2, <2>4
  <2>6. Count(t) = 2
    BY <1>1, <1>2, <1>9, <2>2, BothAreThere
  <2>7. pass'.keep = 1 /\ Lacking' = {t} /\ Coming' = Left /\ Coming = Left
    BY <1>5, <1>9, <2>1, <2>2, <2>6 DEF Lacking, Coming
  <2>8. t \notin Tracks(target')
    BY <1>1, <2>1, <2>4, TrimsIs
  <2>9. ASSUME NEW i \in DOMAIN target', NEW j \in DOMAIN target'
        PROVE  \E a, c \in DOMAIN target :
                 /\ target'[i] = target[a] /\ target'[j] = target[c] /\ (i < j <=> a < c)
                 /\ target[a].track # t /\ target[c].track # t
    <3>1. PICK a \in DOMAIN target \ Places(target, t), c \in DOMAIN target \ Places(target, t) :
            target'[i] = target[a] /\ target'[j] = target[c] /\ (i < j <=> a < c)
      BY <1>1, <2>4, <2>9, TrimsPair
    <3>2. QED
      BY <3>1 DEF Places
  <2>10. ASSUME NEW i \in DOMAIN target', NEW j \in DOMAIN target'
         PROVE  /\ target'[i].staged => target'[i].track \in pass.src
                /\ i < j /\ Back(i)' /\ Back(j)' => target'[i].track < target'[j].track
                /\ i < j /\ target'[i].staged /\ target'[j].staged /\ {target'[i].track, target'[j].track} \subseteq Left'
                     => target'[i].track < target'[j].track
                /\ Back(j)' => \A u \in Left : target'[j].track < u
                /\ ~target'[i].staged /\ target'[i].track \in pass.src \ Left' =>
                     /\ Back(j)' => target'[i].track < target'[j].track
                     /\ \A u \in Left : target'[i].track < u
    <3>1. PICK a \in DOMAIN target, c \in DOMAIN target :
            /\ target'[i] = target[a] /\ target'[j] = target[c] /\ (i < j <=> a < c)
            /\ target[a].track # t /\ target[c].track # t
      BY <2>9
    <3>2. /\ target[a].staged => target[a].track \in pass.src
          /\ a < c /\ Back(a) /\ Back(c) => target[a].track < target[c].track
          /\ a < c /\ target[a].staged /\ target[c].staged /\ {target[a].track, target[c].track} \subseteq Left
               => target[a].track < target[c].track
          /\ Back(c) => \A u \in Left : target[c].track < u
          /\ ~target[a].staged /\ target[a].track \in pass.src \ Left =>
               /\ Back(c) => target[a].track < target[c].track
               /\ \A u \in Left : target[a].track < u
      BY <1>1, <1>3, <1>9, <2>7 DEF ComeBackOrder
    <3>3. (Back(i)' => Back(a)) /\ (Back(j)' => Back(c))
      BY <2>2, <3>1 DEF Back
    <3>4. QED
      BY <2>2, <3>1, <3>2, <3>3
  <2>11. ComeBackOrder'
    BY <2>5, <2>7, <2>8, <2>10 DEF ComeBackOrder
  <2>12. AppendsNewer' /\ StagedOrder' /\ RetireOrder' /\ pass'.at \notin Early \cup {"add", "drop", "record"}
    BY <1>9 DEF AppendsNewer, StagedOrder, RetireOrder, Early
  <2>13. QED
    BY <2>5, <2>11, <2>12 DEF OrderInv
<1>10. ~(pass.olds # <<>> /\ job.all /\ Count(Head(pass.olds)) < 2)
  <2>1. SUFFICES ASSUME pass.olds # <<>>, job.all PROVE ~(Count(Head(pass.olds)) < 2)
    OBVIOUS
  <2>2. Head(pass.olds) \in Left
    BY <1>1, <1>5, <2>1, HeadTail
  <2>3. Count(Head(pass.olds)) = 2
    BY <1>1, <1>2, <2>1, <2>2, BothAreThere
  <2>4. QED
    BY <2>3
<1>11. QED
  BY <1>1, <1>6, <1>8, <1>9, <1>10, RetireIs

\* An entry that comes back stands behind those that came back before it.
LEMMA KeepInOrder == ASSUME IInv, Keep PROVE OrderInv'
<1> SUFFICES ASSUME ~touched', ~scarred', job'.replay PROVE OrderInv'
  BY DEF OrderInv
<1>1. /\ pass.at = "keep" /\ Engine /\ (Fine \/ Faulty) /\ TypeOK /\ target \in Seq(Entry) /\ pass.keep \in Nat
      /\ pass.olds \in Seq(Track) /\ pass.olds # <<>> /\ job.all
  BY Fields DEF Keep, IInv, Content, TypeOK, Begins
<1>2. ~touched /\ ~scarred /\ job.replay /\ job' = job
  <2>1. scarred' = scarred \/ scarred' = TRUE
    BY DEF Keep
  <2>2. QED
    BY <1>1, <2>1 DEF Engine
<1>3. Known /\ OldOrder /\ ComeBackOrder
  BY <1>1, <1>2 DEF IInv, OrderInv
<1>4. Wanted' = Wanted
  BY <1>1, EngineTypes
<1>5. PICK t \in Track : t = Head(pass.olds)
  BY <1>1, HeadTail
<1>6. PICK left : left = Elements(Tail(pass.olds))
  OBVIOUS
<1>7. Left = left /\ t \notin left /\ t \in pass.src
  <2>1. Left = left
    BY <1>1, <1>6 DEF Left
  <2>2. t \notin left
    BY <1>1, <1>5, <1>6, TailOrdered DEF IInv, Content, Planned
  <2>3. t \in Elements(pass.olds)
    BY <1>1, <1>5, HeadTail
  <2>4. t \in pass.src
    BY <2>3 DEF IInv, Content, Planned, Matched
  <2>5. QED
    BY <2>1, <2>2, <2>4
<1>8. PICK e \in Entry : e = [track |-> t, staged |-> TRUE] /\ e.track = t /\ e.staged = TRUE
  BY <1>5, EntryMade
\* The entry comes back behind those that came back, ahead of those that are left.
<1>9. ASSUME pass.keep > 0, RetireFields, pass'.at = "keep", pass'.olds = pass.olds, pass'.keep = pass.keep - 1,
             target' = Append(target, e)
      PROVE  OrderInv'
  <2>1. pass'.src = pass.src
    BY <1>9 DEF RetireFields, Carries
  <2>2. pass.keep \in {0, 1}
    BY <1>1, <1>3 DEF ComeBackOrder
  <2>3. pass'.keep = 0
    BY <1>1, <1>9, <2>2
  <2>4. Lacking = {t} /\ Lacking' = {} /\ Left' = left /\ Coming = left \cup {t} /\ Coming' = left
    BY <1>1, <1>5, <1>6, <1>7, <1>9, <2>3 DEF Lacking, Left, Coming
  <2>5. ASSUME NEW i \in DOMAIN target', NEW j \in DOMAIN target'
        PROVE  \/ i \in DOMAIN target /\ target'[i] = target[i] /\ j \in DOMAIN target /\ target'[j] = target[j]
               \/ i \in DOMAIN target /\ target'[i] = target[i] /\ target'[j] = e /\ i < j
               \/ j \in DOMAIN target /\ target'[j] = target[j] /\ target'[i] = e /\ ~(i < j)
               \/ target'[i] = e /\ target'[j] = e /\ ~(i < j)
    BY <1>1, <1>9, AppendPair
  <2>6. \A i \in DOMAIN target' : (i \in DOMAIN target /\ target'[i] = target[i]) \/ target'[i] = e
    BY <1>1, <1>9, AppendIs
  <2>7. ASSUME NEW i \in DOMAIN target, target'[i] = target[i] PROVE Back(i)' <=> Back(i)
    BY <1>7, <2>4, <2>7 DEF Back
  <2>8. ASSUME NEW i \in DOMAIN target, Back(i)
        PROVE  target[i].track < t /\ \A u \in left : target[i].track < u
    BY <1>1, <1>3, <2>4, <2>8 DEF ComeBackOrder
  <2>9. ASSUME NEW i \in DOMAIN target, ~target[i].staged, target[i].track \in pass.src \ left
        PROVE  /\ target[i].track < t /\ \A u \in left : target[i].track < u
               /\ \A j \in DOMAIN target : Back(j) => target[i].track < target[j].track
    BY <1>1, <1>3, <1>7, <2>4, <2>9 DEF ComeBackOrder
  <2>10. \A u \in left : t < u
    <3>1. \A k \in DOMAIN Tail(pass.olds) : Head(pass.olds) < Tail(pass.olds)[k]
      BY <1>1, TailOrdered DEF IInv, Content, Planned
    <3>2. QED
      BY <1>5, <1>6, <3>1 DEF Elements
  <2>11. OldOrder'
    <3>1. ASSUME NEW i \in DOMAIN target', NEW j \in DOMAIN target', i < j, ~target'[i].staged, ~target'[j].staged,
                 target'[i].track \in pass.src, target'[j].track \in pass.src
          PROVE  target'[i].track < target'[j].track
      <4>1. i \in DOMAIN target /\ target'[i] = target[i] /\ j \in DOMAIN target /\ target'[j] = target[j]
        BY <1>8, <2>6, <3>1
      <4>2. QED
        BY <1>1, <1>3, <3>1, <4>1 DEF OldOrder, Repairing
    <3>2. ASSUME NEW i \in DOMAIN target', NEW j \in DOMAIN target', target'[j].staged, ~target'[i].staged
          PROVE  i < j
      <4>1. CASE i \in DOMAIN target /\ target'[i] = target[i] /\ j \in DOMAIN target /\ target'[j] = target[j]
        BY <1>1, <1>3, <3>2, <4>1 DEF OldOrder, Repairing
      <4>2. QED
        BY <1>8, <2>5, <3>2, <4>1
    <3>3. QED
      BY <2>1, <3>1, <3>2 DEF OldOrder
  <2>12. ASSUME NEW i \in DOMAIN target', NEW j \in DOMAIN target', i < j, Back(i)', Back(j)'
         PROVE  target'[i].track < target'[j].track
    <3>1. CASE i \in DOMAIN target /\ target'[i] = target[i] /\ j \in DOMAIN target /\ target'[j] = target[j]
      <4>1. Back(i) /\ Back(j)
        BY <2>7, <2>12, <3>1
      <4>2. QED
        BY <1>1, <1>3, <2>12, <3>1, <4>1 DEF ComeBackOrder
    <3>2. CASE i \in DOMAIN target /\ target'[i] = target[i] /\ target'[j] = e
      <4>1. Back(i)
        BY <2>7, <2>12, <3>2
      <4>2. QED
        BY <1>8, <2>8, <3>2, <4>1
    <3>3. QED
      BY <2>5, <2>12, <3>1, <3>2
  <2>13. ASSUME NEW i \in DOMAIN target', NEW j \in DOMAIN target', i < j, target'[i].staged, target'[j].staged,
                target'[i].track \in left, target'[j].track \in left
         PROVE  target'[i].track < target'[j].track
    <3>1. target'[i] # e /\ target'[j] # e
      BY <1>7, <1>8, <2>13
    <3>2. i \in DOMAIN target /\ target'[i] = target[i] /\ j \in DOMAIN target /\ target'[j] = target[j]
      BY <2>6, <3>1
    <3>3. QED
      BY <1>1, <1>3, <1>7, <2>13, <3>2 DEF ComeBackOrder
  <2>14. ASSUME NEW j \in DOMAIN target', Back(j)' PROVE \A u \in left : target'[j].track < u
    BY <1>8, <2>6, <2>7, <2>8, <2>10, <2>14
  <2>15. ASSUME NEW i \in DOMAIN target', ~target'[i].staged, target'[i].track \in pass.src \ left
         PROVE  /\ \A j \in DOMAIN target' : Back(j)' => target'[i].track < target'[j].track
                /\ \A u \in left : target'[i].track < u
    <3>1. i \in DOMAIN target /\ target'[i] = target[i]
      BY <1>8, <2>6, <2>15
    <3>2. \A j \in DOMAIN target' : Back(j)' => target[i].track < target'[j].track
      BY <1>8, <2>6, <2>7, <2>9, <2>15, <3>1
    <3>3. QED
      BY <2>9, <2>15, <3>1, <3>2
  <2>16. \A i \in DOMAIN target' : target'[i].staged => target'[i].track \in pass.src
    BY <1>1, <1>3, <1>7, <1>8, <2>6 DEF ComeBackOrder
  <2>17. ComeBackOrder'
    BY <2>1, <2>3, <2>4, <2>12, <2>13, <2>14, <2>15, <2>16 DEF ComeBackOrder
  <2>18. Known'
    <3>1. Tracks(target') = Tracks(target) \cup {e.track}
      BY <1>1, <1>9, AppendIs
    <3>2. Tracks(target') \subseteq Tracks(target) \cup pass.src
      BY <1>7, <1>8, <3>1
    <3>3. QED
      BY <1>1, <1>3, <1>4, <1>9, <2>1, <3>2, KnownStays
  <2>19. AppendsNewer' /\ StagedOrder' /\ RetireOrder' /\ pass'.at \notin Early \cup {"add", "drop", "record"}
    BY <1>9 DEF AppendsNewer, StagedOrder, RetireOrder, Early
  <2>20. QED
    BY <2>11, <2>17, <2>18, <2>19 DEF OrderInv
<1>10. ASSUME pass.keep = 0, RetireFields, pass'.at = "retire", pass'.olds = Tail(pass.olds), target' = target
       PROVE  OrderInv'
  <2>1. pass'.src = pass.src
    BY <1>10 DEF RetireFields, Carries
  <2>2. Left' = left /\ Lacking = {} /\ Lacking' = {} /\ Coming = left /\ Coming' = left
    BY <1>6, <1>7, <1>10 DEF Left, Lacking, Coming
  <2>3. \A j : Back(j)' <=> Back(j)
    BY <1>7, <1>10, <2>2 DEF Back
  <2>4. ComeBackOrder'
    BY <1>1, <1>3, <1>7, <1>10, <2>1, <2>2, <2>3 DEF ComeBackOrder
  <2>5. OldOrder' /\ Known'
    BY <1>1, <1>3, <1>4, <1>10, <2>1, KnownStays DEF OldOrder, Repairing
  <2>6. AppendsNewer' /\ StagedOrder' /\ RetireOrder' /\ pass'.at \notin Early \cup {"add", "drop", "record"}
    BY <1>1, <1>2, <1>10 DEF AppendsNewer, StagedOrder, RetireOrder, Early
  <2>7. QED
    BY <2>4, <2>5, <2>6 DEF OrderInv
<1>11. QED
  BY <1>1, <1>5, <1>8, <1>9, <1>10, KeepIs DEF Append1

\* Removing what is foreign leaves the order of the rest.
LEMMA RemoveInOrder == ASSUME IInv, RemoveOne PROVE OrderInv'
<1> SUFFICES ASSUME ~touched', ~scarred', job'.replay PROVE OrderInv'
  BY DEF OrderInv
<1>1. /\ pass.at = "drop" /\ Engine /\ (Fine \/ Faulty) /\ scarred' = scarred /\ TypeOK /\ target \in Seq(Entry)
      /\ pass.drops \in Seq(Track)
  BY Fields DEF RemoveOne, IInv, Content, TypeOK
<1>2. ~touched /\ ~scarred /\ job.replay
  BY <1>1 DEF Engine
<1>3. Known /\ Ordered(pass.src)
  BY <1>1, <1>2 DEF IInv, OrderInv
<1>4. Wanted' = Wanted
  BY <1>1, EngineTypes
<1>5. ASSUME RemoveFields, pass'.at \in {"drop", "record"}, Ordered(pass.src)', Tracks(target') \subseteq Tracks(target)
      PROVE  OrderInv'
  <2>1. pass'.src = pass.src
    BY <1>5 DEF RemoveFields, Carries
  <2>2. pass'.at \notin {"idle", "read"} /\ pass.at \notin {"idle", "read"}
    BY <1>1, <1>5
  <2>3. Tracks(target') \subseteq Tracks(target) \cup pass.src
    BY <1>5
  <2>4. Known'
    BY <1>3, <1>4, <2>1, <2>2, <2>3, KnownStays
  <2>5. AppendsNewer' /\ OldOrder' /\ StagedOrder' /\ RetireOrder' /\ ComeBackOrder'
    BY <1>5, Quiet
  <2>6. pass'.at \notin Early
    BY <1>5 DEF Early
  <2>7. QED
    BY <1>5, <2>1, <2>4, <2>5, <2>6 DEF OrderInv
<1>6. ASSUME RemoveFields, pass'.at \in {"drop", "record"}, target' = target PROVE OrderInv'
  <2>1. Ordered(pass.src)'
    BY <1>3, <1>6 DEF Ordered, RemoveFields, Carries
  <2>2. QED
    BY <1>5, <1>6, <2>1
<1>7. ASSUME pass.drops # <<>>, RemoveFields, pass'.at = "drop", target' = Drop(Head(pass.drops), FALSE)
      PROVE  OrderInv'
  <2>1. PICK t \in Track : t = Head(pass.drops)
    BY <1>1, <1>7, HeadTail
  <2>2. PICK Out \in SUBSET Places(target, t) : Trims(Drop(t, FALSE), target, Out)
    BY <1>1, <2>1, DropIs
  <2>3. target' \in Seq(Entry) /\ Trims(target', target, Out)
    <3>1. Drop(t, FALSE) \in Seq(Entry)
      BY <1>1, <2>1, DropIs
    <3>2. QED
      BY <1>7, <2>1, <2>2, <3>1
  <2>4. Tracks(target') \subseteq Tracks(target)
    BY <1>1, <2>1, <2>3, OthersStay
  <2>5. pass'.src = pass.src
    BY <1>7 DEF RemoveFields, Carries
  <2>6. ASSUME NEW i \in DOMAIN target', NEW j \in DOMAIN target', i < j,
               target'[i].track \in pass.src, target'[j].track \in pass.src
        PROVE  target'[i].track < target'[j].track
    <3>1. PICK a \in DOMAIN target \ Out, b \in DOMAIN target \ Out :
            target'[i] = target[a] /\ target'[j] = target[b] /\ (i < j <=> a < b)
      BY <1>1, <2>3, TrimsPair
    <3>2. QED
      BY <1>3, <2>6, <3>1 DEF Ordered
  <2>7. Ordered(pass.src)'
    BY <2>5, <2>6 DEF Ordered
  <2>8. QED
    BY <1>5, <1>7, <2>4, <2>7
<1>8. ASSUME Ends PROVE OrderInv'
  BY <1>1, <1>8, OverUnwritten
<1>9. QED
  BY <1>1, <1>6, <1>7, <1>8, RemoveIs

\* Recording moves nothing.
LEMMA RecordInOrder == ASSUME IInv, RecordState PROVE OrderInv'
<1>1. Engine /\ Ends /\ scarred' = scarred /\ pass.at = "record"
  BY DEF RecordState
<1>2. QED
  BY <1>1, OverUnwritten

\* The invariant, of content and of order, holds of every behaviour.
LEMMA OrderHolds == Spec => []IInv
<1>1. Init => IInv
  BY ContentInit, OrderInit DEF IInv
<1>2. ASSUME IInv, [Next]_vars PROVE IInv'
  <2>1. Content'
    BY <1>2, ContentKept DEF IInv
  <2>2. ASSUME NEW s \in Source, NEW t \in Track, EditSource(s, t) PROVE OrderInv'
    BY <1>2, <2>2, EditSourceInOrder
  <2>3. ASSUME NEW t \in Track, EditTarget(t) PROVE OrderInv'
    BY <2>3 DEF EditTarget, OrderInv
  <2>4. ASSUME Pass PROVE OrderInv'
    BY <1>2, <2>1, <2>4, BeginInOrder, ReadSourceInOrder, ReadUnionInOrder, ReadTargetInOrder, PlanInOrder, AddInOrder,
       StageInOrder, UndoInOrder, RetireInOrder, KeepInOrder, RemoveInOrder, RecordInOrder DEF Pass
  <2>5. ASSUME UNCHANGED vars PROVE OrderInv'
    <3>1. UNCHANGED <<Wanted, Relevant>>
      BY <2>5 DEF vars, Wanted, Of, Relevant, Cached
    <3>2. SUFFICES ASSUME ~touched', ~scarred', job'.replay PROVE OrderInv'
      BY DEF OrderInv
    <3>3. Known' /\ (pass'.at \in Early => Ordered(Relevant)') /\ (pass'.at \in {"add", "drop", "record"} => Ordered(pass.src)')
      BY <1>2, <2>5, <3>1, <3>2 DEF vars, IInv, OrderInv, Known, Cached, Ordered
    <3>4. AppendsNewer' /\ OldOrder' /\ StagedOrder'
      BY <1>2, <2>5, <3>2 DEF vars, IInv, OrderInv, AppendsNewer, OldOrder, StagedOrder
    <3>5. RetireOrder' /\ ComeBackOrder'
      BY <1>2, <2>5, <3>2 DEF vars, IInv, OrderInv, RetireOrder, ComeBackOrder, Back, Left, Lacking, Coming
    <3>6. QED
      BY <3>3, <3>4, <3>5 DEF OrderInv
  <2>6. QED
    BY <1>2, <2>1, <2>2, <2>3, <2>4, <2>5 DEF Next, People, IInv
<1>3. QED
  BY <1>1, <1>2, PTL DEF Spec

\* Between passes the destination has every wanted track once and in the order of its source,
\* unless people moved it or the order is known to be lost.
THEOREM OrderKeptHolds == Spec => []OrderKept
<1>1. ASSUME IInv PROVE OrderKept
  <2>1. TypeOK
    BY <1>1 DEF IInv, Content
  <2>2. ASSUME pass.at = "idle", job.replay, ~touched, ~scarred PROVE InOrder
    <3>1. Ordered(Relevant) /\ Wanted \subseteq Relevant
      BY <1>1, <2>2 DEF IInv, OrderInv, Early, Relevant
    <3>2. QED
      BY <3>1 DEF Ordered, InOrder
  <2>3. QED
    BY <2>1, <2>2 DEF OrderKept
<1>2. QED
  BY <1>1, OrderHolds, PTL
=============================================================================
