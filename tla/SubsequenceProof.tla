-------------------------- MODULE SubsequenceProof --------------------------
(***************************************************************************)
(* What Kept returns, for every sequence, and how many elements of a kind  *)
(* a sequence has.                                                         *)
(***************************************************************************)
EXTENDS Subsequence, FiniteSetTheorems, SequenceTheorems, TLAPS

\* The rank numbers a finite set of positions from 1, and tells them apart.
LEMMA RankIsBijection ==
  ASSUME NEW n \in Nat, NEW P \in SUBSET (1..n)
  PROVE  /\ IsFiniteSet(P) /\ Cardinality(P) \in Nat
         /\ \A i \in P : Rank(P, i) \in 1..Cardinality(P)
         /\ \A i, j \in P : i < j => Rank(P, i) < Rank(P, j)
         /\ \A k \in 1..Cardinality(P) : \E i \in P : Rank(P, i) = k
<1>0. \A i \in P : i \in Int
  OBVIOUS
<1>1. IsFiniteSet(P) /\ Cardinality(P) \in Nat
  <2>1. IsFiniteSet(1..n)
    BY FS_Interval
  <2>2. IsFiniteSet(P)
    BY <2>1, FS_Subset
  <2>3. QED
    BY <2>2, FS_CardinalityType
<1> DEFINE Upto(i) == {m \in P : m <= i}
<1>2. ASSUME NEW i \in P PROVE IsFiniteSet(Upto(i)) /\ Rank(P, i) \in 1..Cardinality(P)
  <2>1. Upto(i) \in SUBSET P /\ Upto(i) # {}
    OBVIOUS
  <2>2. IsFiniteSet(Upto(i)) /\ Cardinality(Upto(i)) <= Cardinality(P)
    BY <1>1, <2>1, FS_Subset
  <2>3. Cardinality(Upto(i)) \in Nat /\ Cardinality(Upto(i)) # 0
    BY <2>1, <2>2, FS_CardinalityType, FS_EmptySet
  <2>4. QED
    BY <1>1, <2>2, <2>3 DEF Rank
<1>3. ASSUME NEW i \in P, NEW j \in P, i < j PROVE Rank(P, i) < Rank(P, j)
  <2>1. Upto(i) \subseteq Upto(j)
    <3>1. \A m \in P : m <= i => m <= j
      BY <1>0, <1>3
    <3>2. QED
      BY <3>1
  <2>2. j \in Upto(j) /\ j \notin Upto(i)
    BY <1>0, <1>3
  <2>3. Cardinality(Upto(i)) <= Cardinality(Upto(j)) /\ Cardinality(Upto(i)) # Cardinality(Upto(j))
    BY <1>2, <2>1, <2>2, FS_Subset
  <2>4. QED
    BY <1>1, <1>2, <2>3 DEF Rank
<1>4. ASSUME NEW k \in 1..Cardinality(P) PROVE \E i \in P : Rank(P, i) = k
  <2> DEFINE T == 1..Cardinality(P)
             rank == [i \in P |-> Rank(P, i)]
  <2>1. rank \in Injection(P, T)
    <3>1. rank \in [P -> T]
      BY <1>2
    <3>2. ASSUME NEW i \in P, NEW j \in P, Rank(P, i) = Rank(P, j) PROVE i = j
      <4>1. i \in Int /\ j \in Int /\ Rank(P, i) \in Int
        <5>1. i \in Int /\ j \in Int
          BY <1>0
        <5>2. Rank(P, i) \in 1..Cardinality(P)
          BY <1>2
        <5>3. QED
          BY <1>1, <5>1, <5>2
      <4>2. ~(i < j) /\ ~(j < i)
        BY <1>3, <3>2, <4>1
      <4>3. QED
        BY <4>1, <4>2
    <3>3. QED
      BY <3>1, <3>2 DEF Injection, IsInjective
  <2>2. IsFiniteSet(T) /\ Cardinality(T) = Cardinality(P)
    BY <1>1, FS_Interval
  <2>3. rank \in Surjection(P, T)
    BY <2>1, <2>2, FS_Injection
  <2>4. QED
    BY <2>3 DEF Surjection
<1>5. QED
  BY <1>1, <1>2, <1>3, <1>4

\* The position in s that each kept element comes from.
Enumerates(s, S, at) ==
  /\ \A k \in 1..Len(Kept(s, S)) : Kept(s, S)[k] = s[at[k]]
  /\ \A k, m \in 1..Len(Kept(s, S)) : k < m => at[k] < at[m]
  /\ \A i \in Positions(s, S) : \E k \in 1..Len(Kept(s, S)) : at[k] = i

\* The kept elements are a sequence of elements of both, each from a position of its own and
\* all positions in order.
LEMMA KeptPositions ==
  ASSUME NEW T, NEW s \in Seq(T), NEW S
  PROVE  /\ Kept(s, S) \in Seq(T \cap S)
         /\ \E at \in [1..Len(Kept(s, S)) -> Positions(s, S)] : Enumerates(s, S, at)
<1> DEFINE P == Positions(s, S)
           at == [k \in 1..Cardinality(P) |-> CHOOSE i \in P : Rank(P, i) = k]
<1>1. Len(s) \in Nat /\ DOMAIN s = 1..Len(s) /\ \A i \in 1..Len(s) : s[i] \in T
  OBVIOUS
<1>2. P \in SUBSET (1..Len(s))
  BY <1>1 DEF Positions
<1>2a. \A i \in P : i \in Int
  BY <1>1, <1>2
<1> HIDE DEF P
<1>3. /\ Cardinality(P) \in Nat
      /\ \A i \in P : Rank(P, i) \in 1..Cardinality(P)
      /\ \A i, j \in P : i < j => Rank(P, i) < Rank(P, j)
      /\ \A k \in 1..Cardinality(P) : \E i \in P : Rank(P, i) = k
  BY <1>1, <1>2, RankIsBijection
<1>4. \A k \in 1..Cardinality(P) : at[k] \in P /\ Rank(P, at[k]) = k
  BY <1>3
<1>5. Kept(s, S) = [k \in 1..Cardinality(P) |-> s[at[k]]]
  BY DEF Kept, P
<1> HIDE DEF at
<1>6. \A k \in 1..Cardinality(P) : s[at[k]] \in T \cap S
  BY <1>1, <1>4 DEF P, Positions
<1>7. Kept(s, S) \in Seq(T \cap S) /\ Len(Kept(s, S)) = Cardinality(P)
  BY <1>3, <1>5, <1>6
<1>8. ASSUME NEW i \in P, NEW j \in P, Rank(P, i) = Rank(P, j) PROVE i = j
  BY <1>2a, <1>3, <1>8
<1>9. ASSUME NEW k \in 1..Cardinality(P), NEW m \in 1..Cardinality(P), k < m PROVE at[k] < at[m]
  <2>1. at[k] \in Int /\ at[m] \in Int
    BY <1>2a, <1>4
  <2>2. ~(at[m] < at[k]) /\ at[m] # at[k]
    BY <1>3, <1>4, <1>9
  <2>3. QED
    BY <2>1, <2>2
<1>10. ASSUME NEW i \in P PROVE \E k \in 1..Cardinality(P) : at[k] = i
  BY <1>3, <1>4, <1>8
<1>11. at \in [1..Cardinality(P) -> P]
  BY <1>4 DEF at
<1>12. QED
  BY <1>5, <1>7, <1>9, <1>10, <1>11 DEF P, Enumerates

\* Exactly the elements of s that are in S are left.
LEMMA KeptElements ==
  ASSUME NEW T, NEW s \in Seq(T), NEW S
  PROVE  /\ Kept(s, S) \in Seq(T)
         /\ \A x : (\E k \in 1..Len(Kept(s, S)) : Kept(s, S)[k] = x)
                     <=> x \in S /\ \E i \in 1..Len(s) : s[i] = x
<1>1. Positions(s, S) = {i \in 1..Len(s) : s[i] \in S}
  BY DEF Positions
<1>2. PICK at \in [1..Len(Kept(s, S)) -> Positions(s, S)] : Enumerates(s, S, at)
  BY KeptPositions
<1>3. Kept(s, S) \in Seq(T)
  <2>1. Kept(s, S) \in Seq(T \cap S)
    BY KeptPositions
  <2>2. QED
    BY <2>1, SeqMonotonic
<1>4. ASSUME NEW k \in 1..Len(Kept(s, S))
      PROVE  Kept(s, S)[k] \in S /\ \E i \in 1..Len(s) : s[i] = Kept(s, S)[k]
  BY <1>1, <1>2 DEF Enumerates
<1>5. ASSUME NEW i \in 1..Len(s), s[i] \in S
      PROVE  \E k \in 1..Len(Kept(s, S)) : Kept(s, S)[k] = s[i]
  <2>1. i \in Positions(s, S)
    BY <1>1, <1>5
  <2>2. QED
    BY <1>2, <2>1 DEF Enumerates
<1>6. QED
  BY <1>3, <1>4, <1>5

\* What was in s once is left once.
LEMMA KeptDistinct ==
  ASSUME NEW T, NEW s \in Seq(T), NEW S, \A i, j \in 1..Len(s) : s[i] = s[j] => i = j
  PROVE  \A k, m \in 1..Len(Kept(s, S)) : Kept(s, S)[k] = Kept(s, S)[m] => k = m
<1>1. Positions(s, S) = {i \in 1..Len(s) : s[i] \in S}
  BY DEF Positions
<1>2. PICK at \in [1..Len(Kept(s, S)) -> Positions(s, S)] : Enumerates(s, S, at)
  BY KeptPositions
<1>3. Len(Kept(s, S)) \in Nat
  BY KeptElements, LenProperties
<1>4. ASSUME NEW k \in 1..Len(Kept(s, S)), NEW m \in 1..Len(Kept(s, S)), k < m
      PROVE  Kept(s, S)[k] # Kept(s, S)[m]
  <2>1. at[k] \in 1..Len(s) /\ at[m] \in 1..Len(s) /\ at[k] < at[m]
    BY <1>1, <1>2, <1>4 DEF Enumerates
  <2>2. s[at[k]] # s[at[m]]
    BY <2>1
  <2>3. QED
    BY <1>2, <2>2 DEF Enumerates
<1>5. QED
  BY <1>3, <1>4

\* Only what S says of the elements of s counts.
LEMMA KeptAgrees ==
  ASSUME NEW T, NEW s \in Seq(T), NEW S, NEW R,
         \A i \in 1..Len(s) : s[i] \in S <=> s[i] \in R
  PROVE  Kept(s, S) = Kept(s, R)
<1>1. Positions(s, S) = Positions(s, R)
  BY DEF Positions
<1>2. QED
  BY <1>1 DEF Kept

\* No more elements are kept than there were.
LEMMA KeptNoLonger ==
  ASSUME NEW T, NEW s \in Seq(T), NEW S
  PROVE  Len(Kept(s, S)) \in Nat /\ Len(Kept(s, S)) <= Len(s)
<1>1. PICK n \in Nat : n = Len(s) /\ DOMAIN s = 1..n
  OBVIOUS
<1>2. PICK P \in SUBSET (1..n) : P = Positions(s, S)
  BY <1>1 DEF Positions
<1>3. IsFiniteSet(1..n) /\ Cardinality(1..n) = n
  BY FS_Interval
<1>4. Cardinality(P) <= n
  BY <1>3, FS_Subset
<1>5. Cardinality(P) \in Nat
  BY RankIsBijection
<1>6. Len(Kept(s, S)) = Cardinality(P)
  BY <1>2, <1>5 DEF Kept
<1>7. QED
  BY <1>1, <1>4, <1>5, <1>6

\* How many elements of a sequence are in a set.
CountIn(s, E) == Cardinality(Positions(s, E))

\* A count is a number.
LEMMA CountFacts ==
  ASSUME NEW T, NEW s \in Seq(T), NEW E
  PROVE  /\ Positions(s, E) = {i \in 1..Len(s) : s[i] \in E} /\ Len(s) \in Nat
         /\ IsFiniteSet(Positions(s, E)) /\ CountIn(s, E) \in Nat
<1>1. Positions(s, E) = {i \in 1..Len(s) : s[i] \in E} /\ Len(s) \in Nat
  BY DEF Positions
<1>2. IsFiniteSet(1..Len(s))
  <2>1. 1 \in Int /\ Len(s) \in Int
    BY <1>1
  <2>2. QED
    BY <2>1, FS_Interval
<1>3. IsFiniteSet(Positions(s, E))
  BY <1>1, <1>2, FS_Subset
<1>4. QED
  BY <1>1, <1>3, FS_CardinalityType DEF CountIn

\* Of more elements there are more.
LEMMA CountPart ==
  ASSUME NEW T, NEW s \in Seq(T), NEW E, NEW D, \A i \in 1..Len(s) : s[i] \in E => s[i] \in D
  PROVE  CountIn(s, E) <= CountIn(s, D)
<1>1. Positions(s, E) \in SUBSET Positions(s, D)
  BY CountFacts
<1>2. QED
  BY <1>1, CountFacts, FS_Subset DEF CountIn

\* One position after another that is in step with it.
LEMMA CountInjected ==
  ASSUME NEW T, NEW s \in Seq(T), NEW t \in Seq(T), NEW E, NEW f \in [Positions(s, E) -> Positions(t, E)],
         \A i, j \in Positions(s, E) : f[i] = f[j] => i = j
  PROVE  CountIn(s, E) <= CountIn(t, E)
<1>1. f \in Injection(Positions(s, E), Positions(t, E))
  BY DEF Injection, IsInjective
<1>2. QED
  BY <1>1, CountFacts, FS_Injection DEF CountIn

\* An element more.
LEMMA CountAppend ==
  ASSUME NEW T, NEW s \in Seq(T), NEW x \in T, NEW E
  PROVE  CountIn(Append(s, x), E) = CountIn(s, E) + IF x \in E THEN 1 ELSE 0
<1> DEFINE n == Len(s)  t == Append(s, x)
<1>1. n \in Nat /\ t \in Seq(T) /\ Len(t) = n + 1 /\ t[n + 1] = x /\ \A i \in 1..n : t[i] = s[i]
  OBVIOUS
<1>2. /\ Positions(s, E) = {i \in 1..n : s[i] \in E} /\ IsFiniteSet(Positions(s, E))
      /\ CountIn(s, E) \in Nat
  BY CountFacts
<1>3. Positions(t, E) = {i \in 1..(n + 1) : t[i] \in E}
  BY <1>1, CountFacts, ZenonT(40)
<1> HIDE DEF n, t
<1>4. CASE x \in E
  <2>1. Positions(t, E) = Positions(s, E) \cup {n + 1} /\ n + 1 \notin Positions(s, E)
    BY <1>1, <1>2, <1>3, <1>4
  <2>2. QED
    BY <1>2, <1>4, <2>1, FS_AddElement DEF CountIn, t
<1>5. CASE x \notin E
  <2>1. Positions(t, E) = Positions(s, E)
    BY <1>1, <1>2, <1>3, <1>5
  <2>2. QED
    BY <1>2, <1>5, <2>1 DEF CountIn, t
<1>6. QED
  BY <1>4, <1>5

\* A sequence that lost some elements, and the positions the others come from.
Shrinks(s, t, place) ==
  /\ \A k \in 1..Len(t) : t[k] = s[place[k]]
  /\ \A j, k \in 1..Len(t) : j < k => place[j] < place[k]

\* Keeping some elements keeps their number.
LEMMA KeptShrinks ==
  ASSUME NEW T, NEW s \in Seq(T), NEW S, NEW E
  PROVE  /\ Kept(s, S) \in Seq(T)
         /\ \E place \in [1..Len(Kept(s, S)) -> 1..Len(s)] : Shrinks(s, Kept(s, S), place)
         /\ (\A i \in 1..Len(s) : s[i] \in E => s[i] \in S) => CountIn(Kept(s, S), E) = CountIn(s, E)
<1> DEFINE t == Kept(s, S)  m == Len(t)  n == Len(s)
<1>1. /\ t \in Seq(T) /\ m \in Nat /\ n \in Nat /\ \A k \in 1..m : t[k] \in S
  <2>1. t \in Seq(T \cap S)
    BY KeptPositions
  <2>2. QED
    BY <2>1
<1>0. PICK place \in [1..Len(Kept(s, S)) -> Positions(s, S)] : Enumerates(s, S, place)
  BY KeptPositions
<1>2. /\ place \in [1..m -> Positions(s, S)]
      /\ \A k \in 1..m : t[k] = s[place[k]]
      /\ \A j, k \in 1..m : j < k => place[j] < place[k]
      /\ \A i \in Positions(s, S) : \E k \in 1..m : place[k] = i
  BY <1>0 DEF Enumerates
<1>3. /\ Positions(s, S) = {i \in 1..n : s[i] \in S} /\ Positions(s, E) = {i \in 1..n : s[i] \in E}
      /\ IsFiniteSet(Positions(s, E))
      /\ Positions(t, E) = {i \in 1..m : t[i] \in E} /\ IsFiniteSet(Positions(t, E))
  BY <1>1, CountFacts
<1> HIDE DEF t, m, n
<1>4. place \in [1..m -> 1..n]
  BY <1>2, <1>3
<1>5. Shrinks(s, t, place)
  BY <1>2 DEF Shrinks, m
<1>6. ASSUME \A i \in 1..n : s[i] \in E => s[i] \in S
      PROVE  CountIn(t, E) = CountIn(s, E)
  <2> DEFINE g == [j \in Positions(t, E) |-> place[j]]
  <2>1. g \in [Positions(t, E) -> Positions(s, E)]
    BY <1>2, <1>3, <1>4
  <2>2. \A i, j \in Positions(t, E) : g[i] = g[j] => i = j
    <3>1. ASSUME NEW i \in Positions(t, E), NEW j \in Positions(t, E), g[i] = g[j] PROVE i = j
      <4>1. i \in 1..m /\ j \in 1..m /\ place[i] = place[j]
        BY <1>3, <3>1
      <4>2. ~(i < j) /\ ~(j < i)
        BY <1>1, <1>2, <1>4, <4>1
      <4>3. QED
        BY <1>1, <4>1, <4>2
    <3>2. QED
      BY <3>1
  <2>3. \A i \in Positions(s, E) : \E j \in Positions(t, E) : g[j] = i
    <3>1. ASSUME NEW i \in Positions(s, E) PROVE \E j \in Positions(t, E) : g[j] = i
      <4>1. i \in Positions(s, S) /\ s[i] \in E
        BY <1>3, <1>6
      <4>2. PICK j \in 1..m : place[j] = i
        BY <1>2, <4>1
      <4>3. j \in Positions(t, E)
        BY <1>2, <1>3, <4>1, <4>2
      <4>4. QED
        BY <4>2, <4>3
    <3>2. QED
      BY <3>1
  <2>4. g \in Bijection(Positions(t, E), Positions(s, E))
    BY <2>1, <2>2, <2>3 DEF Bijection, Injection, Surjection, IsInjective
  <2>5. QED
    BY <1>3, <2>4, FS_Bijection DEF ExistsBijection, CountIn
<1>7. QED
  BY <1>1, <1>4, <1>5, <1>6 DEF t, m, n

\* One sequence after another.
LEMMA CountJoined ==
  ASSUME NEW T, NEW s \in Seq(T), NEW t \in Seq(T), NEW E
  PROVE  /\ CountIn(s \o t, E) >= CountIn(t, E)
         /\ (\A i \in 1..Len(s) : s[i] \in E) => CountIn(s \o t, E) >= Len(s)
<1> DEFINE n == Len(s)  m == Len(t)  u == s \o t
<1>1. n \in Nat /\ m \in Nat
  OBVIOUS
<1>2. /\ u \in Seq(T) /\ Len(u) = n + m
      /\ \A i \in 1..(n + m) : u[i] = IF i <= n THEN s[i] ELSE t[i - n]
  BY ConcatProperties
<1>3. /\ Positions(u, E) = {i \in 1..(n + m) : u[i] \in E} /\ IsFiniteSet(Positions(u, E))
      /\ Positions(t, E) = {i \in 1..m : t[i] \in E} /\ IsFiniteSet(Positions(t, E))
      /\ CountIn(u, E) \in Nat /\ CountIn(t, E) \in Nat
  BY <1>2, CountFacts, ZenonT(40)
<1> HIDE DEF n, m, u
<1>4. CountIn(t, E) <= CountIn(u, E)
  <2> DEFINE f == [i \in Positions(t, E) |-> n + i]
  <2>1. \A i \in 1..m : n + i \in 1..(n + m) /\ ~(n + i <= n) /\ (n + i) - n = i
    BY <1>1
  <2>2. f \in [Positions(t, E) -> Positions(u, E)]
    BY <1>2, <1>3, <2>1
  <2>3. \A i, j \in Positions(t, E) : f[i] = f[j] => i = j
    BY <1>1, <1>3
  <2>4. QED
    BY <1>2, <2>2, <2>3, CountInjected
<1>5. ASSUME \A i \in 1..n : s[i] \in E PROVE n <= CountIn(u, E)
  <2>1. 1..n \in SUBSET Positions(u, E)
    <3>1. ASSUME NEW i \in 1..n PROVE i \in Positions(u, E)
      <4>1. i \in 1..(n + m) /\ i <= n
        BY <1>1
      <4>2. u[i] = s[i] /\ s[i] \in E
        BY <1>2, <1>5, <4>1
      <4>3. QED
        BY <1>3, <4>1, <4>2
    <3>2. QED
      BY <3>1
  <2>2. Cardinality(1..n) = n
    <3>1. 1 \in Int /\ n \in Int
      BY <1>1
    <3>2. Cardinality(1..n) = IF 1 > n THEN 0 ELSE n - 1 + 1
      BY <3>1, FS_Interval
    <3>3. QED
      BY <1>1, <3>2
  <2>3. QED
    BY <1>3, <2>1, <2>2, FS_Subset DEF CountIn
<1>6. QED
  BY <1>1, <1>3, <1>4, <1>5 DEF n, u
=============================================================================
