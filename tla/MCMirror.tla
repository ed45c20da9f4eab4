------------------------------- MODULE MCMirror ------------------------------
(***************************************************************************)
(* Model-checking Mirror.                                                  *)
(***************************************************************************)
EXTENDS Mirror

Job(merge, drain, all, adds) ==
  [merge |-> merge, drain |-> drain, replay |-> TRUE, all |-> all, adds |-> adds]

\* Draining from one source, with a delete call that takes every copy, from the union of
\* several sources, and unable to repair the order; with caps that allow every repair and with
\* caps that some repairs exceed for good.
AllJobs == {Job(FALSE, TRUE, FALSE, 2), Job(FALSE, TRUE, FALSE, 3),
            Job(FALSE, FALSE, TRUE, 4), Job(FALSE, FALSE, TRUE, 5),
            Job(TRUE, TRUE, FALSE, 3), [Job(FALSE, TRUE, FALSE, 1) EXCEPT !.replay = FALSE]}
AppleOnly == {Job(FALSE, FALSE, TRUE, 4)}
Draining == {Job(FALSE, TRUE, FALSE, 3)}
DrainingLess == {Job(FALSE, TRUE, FALSE, 2)}

OneAlikeThree == {<<1, 3>>}
=============================================================================
