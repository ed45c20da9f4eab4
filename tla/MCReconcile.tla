----------------------------- MODULE MCReconcile -----------------------------
(***************************************************************************)
(* Values for model-checking Reconcile.                                    *)
(***************************************************************************)
EXTENDS Reconcile, TLC
CONSTANTS a, k

FullCatalog == [p \in Peers |-> Track]
InSync == {[p \in Peers |-> Track]}
\* In sync, or a mirror that holds a track no authority has.
GroupStarts == InSync \cup {[p \in Peers |-> IF p \in Authorities THEN {k} ELSE Track]}
\* Either track may be the older one.
BothOrders == {a :> 0 @@ k :> 1, a :> 1 @@ k :> 0}
\* The last peer only appends, as a favorites list does; the first deletes every copy of a
\* song at once, as Apple does, and so writes each entry twice.
Prices == [p \in Peers |-> IF p = 1 THEN 2 ELSE IF p = NumPeers THEN 0 ELSE 1]
AnyStart == [Peers -> SUBSET Track]
=============================================================================
