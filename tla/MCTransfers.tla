----------------------------- MODULE MCTransfers -----------------------------
(***************************************************************************)
(* Model-checking Transfers.                                               *)
(***************************************************************************)
EXTENDS Transfers

\* The first track is found, the second as an id that is declined, others not at all.
FirstTwo == [t \in Track |-> CASE t = 1 -> 1 [] t = 2 -> 3 [] OTHER -> NoId]
=============================================================================
