------------------------------- MODULE MCEvidence -------------------------------
(***************************************************************************)
(* What a pass goes by: the names of tracks and the catalog ids they        *)
(* resolve to.  The two share no state, so a behaviour exercises one.       *)
(***************************************************************************)
EXTENDS ResolveCache, Identity, TLC

VARIABLE part   \* what this behaviour exercises, frozen

evidenceVars == <<part, vars, identityVars>>

\* Two releases of a song on one provider, once taken for one Spotify track, and a third on
\* another, read with its right title or as another recording.
MCPeerOf == [t \in Track |-> t \div 10]
MCSongOf == [t \in Track |-> "song"]
MCProofOf == [s \in Spotify |-> 1]
Showing(i, k) == [id |-> i, key |-> k, clash |-> FALSE]
MCShows == [t \in Track |->
  CASE t = 11 -> [good |-> Showing(1, 4), poor |-> Showing(3, 4)]
    [] t = 12 -> [good |-> Showing(2, 4), poor |-> Showing(3, 4)]
    [] t = 21 -> [good |-> Showing(None, 4), poor |-> [id |-> None, key |-> 5, clash |-> TRUE]]]

\* One session is like another.
Sessions == Permutations(Session)

EvidenceInit ==
  /\ part \in {"names", "cache"}
  /\ Init /\ IdentityInit
  /\ part # "cache" => provider = "apple" /\ \A a \in Account : file[a].search = Absent
  /\ part # "names" => on = [l \in Playlist |-> {}]

EvidenceNext ==
  /\ UNCHANGED part
  /\ \/ part = "cache" /\ Next /\ UNCHANGED identityVars
     \/ part = "names" /\ IdentityNext /\ UNCHANGED vars

EvidenceSpec == EvidenceInit /\ [][EvidenceNext]_evidenceVars
=============================================================================
