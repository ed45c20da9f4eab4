------------------------------ MODULE EngineSlot ------------------------------
(***************************************************************************)
(* What the shared engine lock promises to everyone who runs the engine:   *)
(* sync jobs, transfers, imports and backup reads (run_job, engine_slot    *)
(* and run_exclusive of services/sync_service.py).  One client holds the   *)
(* slot, the others wait in the order they asked, and nobody overtakes.    *)
(***************************************************************************)
EXTENDS Sequences, Subsequence

CONSTANTS
  Client,   \* the tasks that may ask for the slot
  NoOne     \* not a client

VARIABLES
  holder,   \* the client inside the slot
  waiting   \* the clients that asked, in order

vars == <<holder, waiting>>

Init == holder = NoOne /\ waiting = <<>>

Waits(c) == \E i \in DOMAIN waiting : waiting[i] = c

Ask(c) ==
  /\ c # holder /\ ~Waits(c)
  /\ IF holder = NoOne /\ waiting = <<>>
     THEN holder' = c /\ UNCHANGED waiting
     ELSE waiting' = Append(waiting, c) /\ UNCHANGED holder

\* A free slot goes to the client that has waited longest.
Grant ==
  /\ holder = NoOne /\ waiting # <<>>
  /\ holder' = Head(waiting) /\ waiting' = Tail(waiting)

Release == holder # NoOne /\ holder' = NoOne /\ UNCHANGED waiting

\* The holder leaves and asks again in one go: those who wait come first.
ReleaseAndAsk ==
  /\ holder # NoOne /\ waiting # <<>>
  /\ holder' = NoOne /\ waiting' = Append(waiting, holder)

\* Clients that were cancelled while they waited.
Withdraw(some) ==
  /\ \A c \in some : Waits(c)
  /\ waiting' = Kept(waiting, Client \ some)
  /\ UNCHANGED holder

\* The process ends.
Reset == holder' = NoOne /\ waiting' = <<>>

Next ==
  \/ Grant \/ Release \/ ReleaseAndAsk \/ Reset
  \/ \E c \in Client : Ask(c)
  \/ \E some \in SUBSET Client : Withdraw(some)

Spec == Init /\ [][Next]_vars
=============================================================================
