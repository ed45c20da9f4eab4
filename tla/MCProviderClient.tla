--------------------------- MODULE MCProviderClient ---------------------------
(***************************************************************************)
(* One provider client at work: its session, its reads or its writes.  The *)
(* three share no state, so a behaviour exercises one of them and the      *)
(* other two rest.                                                         *)
(***************************************************************************)
EXTENDS TargetWrites, PlaylistReads, Sessions

\* A search finds one release for every id.
MCOneRelease == [i \in Id |-> "b"]

VARIABLE part   \* what this behaviour exercises, frozen

clientVars == <<part, vars, readVars, sessionVars>>

\* Three ids: one the provider has dropped, for which a search finds another of them.
MCNewId == [i \in Id |-> IF i = "c" THEN "a" ELSE i]

ClientInit ==
  /\ part \in {"writes", "reads", "session"}
  /\ Init /\ ReadInit /\ SessionInit
  /\ part # "writes" => target = "apple" /\ list = <<>>
  /\ part # "reads" => reader = SpotifyLikes /\ shelf = <<>>
  /\ part # "session" => kind = "tidal"

ClientNext ==
  /\ UNCHANGED part
  /\ \/ part = "writes" /\ Next /\ UNCHANGED <<readVars, sessionVars>>
     \/ part = "reads" /\ ReadNext /\ UNCHANGED <<vars, sessionVars>>
     \/ part = "session" /\ SessionNext /\ UNCHANGED <<vars, readVars>>

ClientSpec == ClientInit /\ [][ClientNext]_clientVars /\ WF_readVars(part = "reads" /\ AnswerPage)
=============================================================================
