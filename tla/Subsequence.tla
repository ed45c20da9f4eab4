----------------------------- MODULE Subsequence -----------------------------
(***************************************************************************)
(* What is left of a sequence when only some of its elements are kept, in  *)
(* their order: SelectSeq, without the recursion that the provers cannot   *)
(* see through.                                                            *)
(***************************************************************************)
EXTENDS Integers, FiniteSets, Sequences

\* The positions of s that hold an element of S.
Positions(s, S) == {i \in DOMAIN s : s[i] \in S}

\* How many of the positions P come no later than i.
Rank(P, i) == Cardinality({m \in P : m <= i})

Kept(s, S) ==
  LET P == Positions(s, S)
  IN [k \in 1..Cardinality(P) |-> s[CHOOSE i \in P : Rank(P, i) = k]]
=============================================================================
