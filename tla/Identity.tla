-------------------------------- MODULE Identity --------------------------------
(***************************************************************************)
(* One identity per song: how an N-way pass (engine/targets/base.py        *)
(* reconcile, _entry_cids, _unify_aliases) names the entries it reads on    *)
(* each peer, repairs recorded baselines when names change, and takes from  *)
(* both which entries went missing.                                         *)
(*                                                                          *)
(* What a provider shows of an entry changes from read to read: its ISRC,   *)
(* a link to Spotify, or only a title and an artist.  Names earned are      *)
(* remembered per provider track, for all playlists; baselines are kept     *)
(* per playlist.  Module Reconcile has the reads that fail, the edits       *)
(* during a pass and the caps; here reads are complete and names vary.      *)
(***************************************************************************)
EXTENDS Integers, FiniteSets, FiniteSetsExt

CONSTANTS
  Playlist,   \* logical playlists
  Peer,       \* providers
  Track,      \* provider tracks (ids of one provider each)
  PeerOf,     \* PeerOf[t]: its provider
  SongOf,     \* SongOf[t]: the recording it is
  Isrc, Spotify, Key,   \* names: "i:", "s:" and "k:" ids; numbers, in sorted order
  ProofOf,    \* ProofOf[s]: the ISRC of a Spotify track
  Alike,      \* pairs of keys the fuzzy comparison takes for one
  Aspect, Shows,   \* Shows[t][a]: what a read may show of t
  Others,     \* entries of every playlist that never change
  MaxPasses, MaxEdits   \* bounds

Hard == Isrc \cup Spotify
Cid == Hard \cup Key
None == 0

ASSUME IdentityAssumption ==
  /\ Cid \subseteq Nat \ {None} /\ \A i \in Isrc, s \in Spotify, k \in Key : i < s /\ s < k
  /\ IsFiniteSet(Track) /\ PeerOf \in [Track -> Peer] /\ DOMAIN SongOf = Track
  /\ Shows \in [Track -> [Aspect -> [id : Hard \cup {None}, key : Key, clash : BOOLEAN]]]
  /\ ProofOf \in [Spotify -> Isrc]
  /\ {Others, MaxPasses, MaxEdits} \subseteq Nat

VARIABLES
  on,        \* on[l]: the tracks of playlist l, on all peers
  memory,    \* memory[t]: track_identity
  past,      \* past[t]: track_identity_history
  proven,    \* proven[s]: the ISRC the archive has for a Spotify id
  base,      \* base[l][p]: the recorded baseline, ready[l][p]: whether there is one
  ready,
  pending,   \* pending[l][p]: names missed once
  pass,      \* the pass in progress, after its reads
  \* history: what tracks were called when a baseline was recorded, and the songs people
  \* took from a playlist
  bore, taken,
  passes, edits

identityVars == <<on, memory, past, proven, base, ready, pending, pass, bore, taken, passes, edits>>

Idle == [of |-> None]
Tracks(p) == {t \in Track : PeerOf[t] = p}

IdentityTypeOK ==
  /\ on \in [Playlist -> SUBSET Track]
  /\ memory \in [Track -> Hard \cup {None}] /\ past \in [Track -> SUBSET Hard]
  /\ proven \in [Spotify -> Isrc \cup {None}]
  /\ {base, pending} \subseteq [Playlist -> [Peer -> SUBSET Cid]]
  /\ ready \in [Playlist -> [Peer -> BOOLEAN]]
  /\ \A l \in Playlist : bore[l] \subseteq Track \X Cid
  /\ pass # Idle => pass.of \in Playlist /\ pass.left \subseteq Peer

------------------------------------------------------------------------------
(* Naming the entries of one pass; seen[t] is what the read shows of t.     *)

Direct(seen, t) == seen[t].id \in Isrc
(* The Spotify track t is linked to, now or when it was remembered.         *)
Link(seen, t) == IF seen[t].id \in Spotify THEN seen[t].id
                 ELSE IF memory[t] \in Spotify THEN memory[t] ELSE None
Inferable(seen, t) == {seen[d].id : d \in {d \in DOMAIN seen : Direct(seen, d) /\ seen[d].key = seen[t].key}}
Inferred(seen, t) == IF Cardinality(Inferable(seen, t)) = 1
                     THEN CHOOSE i \in Inferable(seen, t) : TRUE ELSE None

(* Proof first, then the link, then a neighbour with the same key.          *)
Claim(seen, t) ==
  CASE Direct(seen, t) -> seen[t].id
    [] ~Direct(seen, t) /\ Link(seen, t) # None ->
         IF proven[Link(seen, t)] # None THEN proven[Link(seen, t)] ELSE Link(seen, t)
    [] ~Direct(seen, t) /\ Link(seen, t) = None ->
         IF Inferred(seen, t) # None THEN Inferred(seen, t) ELSE seen[t].key
Trusted(seen, t) == Direct(seen, t) \/ Link(seen, t) # None

(* What the read shows cannot be the recording the archive knows.           *)
Conflicts(seen, t) ==
  ~Direct(seen, t) /\ seen[t].clash /\ (Link(seen, t) # None \/ memory[t] # None)

(* A name remembered yields to proof only.                                  *)
Sticks(seen, t) ==
  memory[t] # None /\ (Conflicts(seen, t) \/ Claim(seen, t) \in Key \/ ~Trusted(seen, t))
Named(seen, t) == IF Sticks(seen, t) THEN memory[t] ELSE Claim(seen, t)

Learned(seen, t) ==
  IF ~Conflicts(seen, t) /\ Named(seen, t) \in Hard THEN Named(seen, t) ELSE memory[t]

(* The names t gave up for the one it has: each playlist that still records *)
(* an old one has to follow, even if another pass learned the new one.      *)
GaveUp(seen, t) ==
  IF ~Conflicts(seen, t) /\ Named(seen, t) \in Hard /\ (Trusted(seen, t) \/ Named(seen, t) = memory[t])
  THEN past[t] \ {Named(seen, t)} ELSE {}

------------------------------------------------------------------------------
(* Folding the keys of one song into one name, over all peers.              *)

Sound(seen) == {t \in DOMAIN seen : ~Conflicts(seen, t)}
Names(seen) == {Named(seen, t) : t \in Sound(seen)}
KeysOf(seen, c) == {seen[t].key : t \in {t \in Sound(seen) : Named(seen, t) = c}}
Alikes(seen, c, d) == \E k \in KeysOf(seen, c), m \in KeysOf(seen, d) : k = m \/ <<k, m>> \in Alike

(* A hard name with an equal key, one with a similar key, or the first of   *)
(* the similar soft ones that is not itself folded.                         *)
Fold(seen, c) ==
  LET equal == {h \in Names(seen) \cap Hard : KeysOf(seen, h) \cap KeysOf(seen, c) # {}}
      similar == {h \in Names(seen) \cap Hard : Alikes(seen, c, h)}
      softer == {k \in Names(seen) \cap Key : /\ k < c /\ Alikes(seen, c, k)
                                             /\ ~\E h \in Names(seen) \cap Hard : Alikes(seen, k, h)}
  IN IF c \in Hard \/ c \notin Names(seen) THEN c
     ELSE IF equal # {} THEN Min(equal)
     ELSE IF similar # {} THEN Min(similar)
     ELSE IF softer # {} THEN Min(softer) ELSE c

Final(seen, t) == Fold(seen, Named(seen, t))
Current(seen, p) == {Final(seen, t) : t \in DOMAIN seen \cap Tracks(p)}
Disputed(seen) == {Final(seen, t) : t \in DOMAIN seen \ Sound(seen)}

(* What each name is looked up and compared as: one sound entry that has it, *)
(* on whichever peer comes first.                                           *)
Representing(seen) ==
  LET named == {Final(seen, t) : t \in Sound(seen)}
  IN {r \in [named -> Sound(seen)] : \A c \in named : Final(seen, r[c]) = c}

------------------------------------------------------------------------------
(* The baseline, brought to the names of this pass.                         *)

Before(l, p, seen) == {Fold(seen, c) : c \in base[l][p]}
Retired(l, p, seen) == Before(l, p, seen) \ Current(seen, p)
NewNames(p, seen, old) ==
  {Named(seen, t) : t \in {t \in DOMAIN seen \cap Tracks(p) : old \in GaveUp(seen, t)}}

(* A read of less than 40 % of the baseline, or a name that became several. *)
Shrunk(l, p, seen) ==
  /\ ready[l][p]
  /\ 5 * (Cardinality(Current(seen, p)) + Others) < 2 * (Cardinality(Before(l, p, seen)) + Others)
SplitFine(l, p, seen) == FALSE   \* mutant
Split(l, p, seen) == \E old \in Retired(l, p, seen) : Cardinality(NewNames(p, seen, old)) > 1
Untrusted(l, seen) == {p \in Peer : Shrunk(l, p, seen) \/ (ready[l][p] /\ Split(l, p, seen))}

Moves(l, p, seen, old) ==
  /\ p \notin Untrusted(l, seen) /\ ready[l][p]
  /\ old \in Retired(l, p, seen) \ Disputed(seen)
  /\ Cardinality(NewNames(p, seen, old)) = 1 /\ NewNames(p, seen, old) \cap Disputed(seen) = {}
Repaired(l, p, seen) ==
  UNION {IF Moves(l, p, seen, c) THEN NewNames(p, seen, c) ELSE {c} : c \in Before(l, p, seen)}
Repairs(l, p, seen) == \E old \in Before(l, p, seen) : Moves(l, p, seen, old)

------------------------------------------------------------------------------
(* A pass reads all peers of a playlist, names their entries, and commits   *)
(* repaired baselines and learned names in one transaction.                 *)

Readings(l) == {[t \in on[l] |-> Shows[t][as[t]]] : as \in [on[l] -> Aspect]}

Recognise(l, seen) ==
  /\ pass = Idle /\ passes > 0 /\ passes' = passes - 1
  /\ LET heard == {t \in DOMAIN seen : PeerOf[t] \notin Untrusted(l, seen)}
         awaited == [p \in Peer |-> IF Repairs(l, p, seen) THEN pending[l][p] \cap Disputed(seen)
                                    ELSE pending[l][p]]
     IN /\ memory' = [t \in Track |-> IF t \in heard THEN Learned(seen, t) ELSE memory[t]]
        /\ past' = [t \in Track |-> past[t] \cup ({memory'[t]} \ {None})]
        /\ base' = [base EXCEPT ![l] = [p \in Peer |->
             IF Repairs(l, p, seen) THEN Repaired(l, p, seen) ELSE @[p]]]
        /\ pending' = [pending EXCEPT ![l] = awaited]
        /\ bore' = [bore EXCEPT ![l] =
             {e \in @ \cup {<<t, Named(seen, t)>> : t \in heard \cap Sound(seen)} :
                e[2] \in base'[l][PeerOf[e[1]]]}]
        /\ \E repr \in Representing(seen) :
             pass' = [of |-> l, seen |-> seen, own |-> [t \in Sound(seen) |-> Named(seen, t)],
                      name |-> [t \in DOMAIN seen |-> Final(seen, t)], repr |-> repr,
                      disputed |-> Disputed(seen), untrusted |-> Untrusted(l, seen),
                      before |-> [p \in Peer |-> Repaired(l, p, seen)],
                      awaited |-> [p \in Peer |-> {Fold(seen, c) : c \in awaited[p]}],
                      left |-> Peer \ Untrusted(l, seen), blocked |-> FALSE,
                      gone |-> [p \in Peer |-> {}]]
  /\ UNCHANGED <<on, proven, ready, taken, edits>>

------------------------------------------------------------------------------
(* What the pass makes of it: _merge over what is missing and what is new.  *)
(* An absence counts once it has been seen on two passes.                   *)

On(p) == {t \in DOMAIN pass.seen : PeerOf[t] = p}
Cur(p) == {pass.name[t] : t \in On(p)}
Known == {p \in Peer \ pass.untrusted : ready[pass.of][p]}
Missing(p) == IF p \in Known THEN pass.before[p] \ (Cur(p) \cup pass.disputed) ELSE {}
Held(p) == Cur(p) \cup (Missing(p) \ pass.awaited[p])
Recorded(p) == IF ready[pass.of][p] THEN pass.before[p] ELSE {}

Added == UNION {Held(p) \ Recorded(p) : p \in Known}
First == UNION {Cur(p) : p \in {p \in Peer \ pass.untrusted : ~ready[pass.of][p]}}
Removed == UNION {Recorded(p) \ Held(p) : p \in Known} \ Added
Desired == ((UNION {Recorded(p) : p \in Peer} \cup Added \cup First) \ Removed) \cup pass.disputed

ToAdd(p) == Desired \ (Held(p) \cup pass.disputed)
ToRemove(p) == Held(p) \ (Desired \cup pass.disputed)
Awaiting == \E p \in Peer : ~(Missing(p) \subseteq pass.awaited[p])

(* Two entries may be the same recording under two names.                  *)
Same(t, u) == pass.seen[t].key = pass.seen[u].key \/ <<pass.seen[t].key, pass.seen[u].key>> \in Alike

(* The entries of p that keep c from being added a second time.            *)
Shown(p) == ToAdd(p) \cap DOMAIN pass.repr
Satisfy(p, c) == {u \in On(p) : Same(pass.repr[c], u)}
Satisfied(p) == {c \in Shown(p) : Satisfy(p, c) # {}}

(* The additions of one peer, in any order of resolving: a track of the    *)
(* song, or none.  found maps the names looked up to the tracks they got.  *)
LookedUp(p) == Shown(p) \ Satisfied(p)
Offers(p, c) == {t \in Tracks(p) : SongOf[t] = SongOf[pass.repr[c]]} \cup {None}

(* What a satisfied addition rests on is an entry of its own: not the first *)
(* of a name that is wanted, nor one another addition rests on.            *)
Claims(p, first) ==
  LET free == On(p) \ {first[c] : c \in Cur(p) \cap Desired}
  IN {claim \in [Satisfied(p) -> free \cup {None}] :
        \A c \in Satisfied(p) :
          /\ claim[c] # None => /\ claim[c] \in Satisfy(p, c)
                               /\ \A d \in Satisfied(p) \ {c} : claim[d] # claim[c]
          /\ claim[c] = None =>
               Satisfy(p, c) \cap free \subseteq {claim[d] : d \in Satisfied(p)}}

(* Why nothing may be removed: an addition nobody shows, one that has no    *)
(* entry of its own to rest on, one that was not found or found on a track  *)
(* that is there as something else, two that were found on one track.       *)
BlocksNever(p, found, claim) == FALSE   \* mutant
Blocks(p, found, claim) ==
  \/ ToAdd(p) \ DOMAIN pass.repr # {}
  \/ \E c \in DOMAIN claim : claim[c] = None
  \/ \E c \in DOMAIN found : found[c] = None \/ found[c] \in On(p)
  \/ \E c, d \in DOMAIN found :
       c # d /\ found[c] = found[d] /\ ~Same(pass.repr[c], pass.repr[d])

(* The entries a satisfied addition rests on stay.                         *)
Protected(p, found) ==
  UNION {{pass.name[u] : u \in Satisfy(p, c)} : c \in Satisfied(p)}
    \cup {pass.name[t] : t \in {found[c] : c \in DOMAIN found} \cap On(p)}
Equivalent(p, c) ==
  \E u \in On(p), t \in DOMAIN pass.own :
    pass.name[u] = c /\ pass.name[t] \in Desired \ {c} /\ Same(t, u)
Going(p, found, claim) ==
  IF Blocks(p, found, claim) THEN {}
  ELSE {c \in (ToRemove(p) \cap Cur(p)) \ Protected(p, found) : ~Equivalent(p, c)}

(* One peer is written: its additions, then one entry of each name that    *)
(* goes.  Interrupted or refused removals are in module Reconcile.         *)
Write(p) ==
  /\ pass # Idle /\ p \in pass.left
  /\ \E found \in [LookedUp(p) -> Track \cup {None}], first \in [Cur(p) -> On(p)] :
       /\ \A c \in LookedUp(p) : found[c] \in Offers(p, c)
       /\ \A c \in Cur(p) : pass.name[first[c]] = c
       /\ \E claim \in Claims(p, first) :
            LET new == {found[c] : c \in LookedUp(p)} \ ({None} \cup On(p))
                going == Going(p, found, claim)
            IN /\ on' = [on EXCEPT ![pass.of] = (@ \cup new) \ {first[c] : c \in going}]
               /\ pass' = [pass EXCEPT !.left = @ \ {p}, !.blocked = @ \/ Blocks(p, found, claim),
                                       !.gone[p] = going]
  /\ UNCHANGED <<memory, past, proven, base, ready, pending, bore, taken, passes, edits>>

------------------------------------------------------------------------------
(* The pass is over.  Nothing of it is recorded when a read was not        *)
(* trusted; what was held back keeps its evidence.                         *)

Freezes == pass.blocked \/ Awaiting
Kept(p) == Recorded(p) \cap pass.disputed
Records(p) ==
  (((IF Freezes THEN Recorded(p) ELSE {}) \cup (Cur(p) \ pass.gone[p])) \ pass.disputed) \cup Kept(p)
Awaits(p) ==
  IF ~ready[pass.of][p] THEN pending[pass.of][p]
  ELSE (IF Freezes THEN Missing(p) \cup pass.gone[p] ELSE {}) \cup (pending[pass.of][p] \cap pass.disputed)

Commit ==
  /\ pass # Idle /\ pass.left = {}
  /\ pass' = Idle
  /\ IF pass.untrusted = {}
     THEN /\ base' = [base EXCEPT ![pass.of] = [p \in Peer |-> Records(p)]]
          /\ pending' = [pending EXCEPT ![pass.of] = [p \in Peer |-> Awaits(p)]]
          /\ ready' = [ready EXCEPT ![pass.of] = [p \in Peer |-> TRUE]]
          /\ bore' = [bore EXCEPT ![pass.of] =
               (IF Freezes THEN @ ELSE {}) \cup {<<t, pass.own[t]>> : t \in DOMAIN pass.own}]
     ELSE UNCHANGED <<base, pending, ready, bore>>
  /\ UNCHANGED <<on, memory, past, proven, taken, passes, edits>>

(* Stopped, failed or crashed between the writes: only names are kept.     *)
Interrupt ==
  /\ pass # Idle /\ pass' = Idle
  /\ UNCHANGED <<on, memory, past, proven, base, ready, pending, bore, taken, passes, edits>>

------------------------------------------------------------------------------
(* The world between passes.                                               *)

Take(l, t) ==
  /\ pass = Idle /\ edits > 0 /\ edits' = edits - 1
  /\ t \in on[l] /\ on' = [on EXCEPT ![l] = @ \ {t}]
  /\ taken' = [taken EXCEPT ![l] = @ \cup {SongOf[t]}]
  /\ UNCHANGED <<memory, past, proven, base, ready, pending, pass, bore, passes>>

Put(l, t) ==
  /\ pass = Idle /\ edits > 0 /\ edits' = edits - 1
  /\ t \notin on[l] /\ on' = [on EXCEPT ![l] = @ \cup {t}]
  /\ UNCHANGED <<memory, past, proven, base, ready, pending, pass, bore, taken, passes>>

(* The archive learns the ISRC of a Spotify id (a backfill, another read). *)
Prove(s) ==
  /\ pass = Idle /\ proven[s] = None
  /\ proven' = [proven EXCEPT ![s] = ProofOf[s]]
  /\ UNCHANGED <<on, memory, past, base, ready, pending, pass, bore, taken, passes, edits>>

IdentityInit ==
  /\ on \in [Playlist -> SUBSET Track]
  /\ memory = [t \in Track |-> None] /\ past = [t \in Track |-> {}]
  /\ proven = [s \in Spotify |-> None]
  /\ base = [l \in Playlist |-> [p \in Peer |-> {}]]
  /\ ready = [l \in Playlist |-> [p \in Peer |-> FALSE]]
  /\ pending = [l \in Playlist |-> [p \in Peer |-> {}]]
  /\ pass = Idle
  /\ bore = [l \in Playlist |-> {}] /\ taken = [l \in Playlist |-> {}]
  /\ passes = MaxPasses /\ edits = MaxEdits

IdentityNext ==
  \/ \E l \in Playlist : \/ \E seen \in Readings(l) : Recognise(l, seen)
                         \/ \E t \in Track : Take(l, t) \/ Put(l, t)
  \/ \E p \in Peer : Write(p)
  \/ Commit \/ Interrupt
  \/ \E s \in Spotify : Prove(s)

IdentitySpec == IdentityInit /\ [][IdentityNext]_identityVars

------------------------------------------------------------------------------
(* A name of proof counts as missing from a provider only when every entry  *)
(* that bore it at the recorded baseline has left the read: an entry whose  *)
(* name changes with what the provider shows of it is not a deletion        *)
(* (_entry_cids' docstring; the correction rule in reconcile).              *)
EvidenceIsReal ==
  IdentityTypeOK /\ (pass # Idle =>
    \A p \in Peer : \A c \in Missing(p) \cap Hard : \A t \in On(p) \cap DOMAIN pass.own :
      pass.own[t] \notin pass.disputed => <<t, c>> \notin bore[pass.of])

(* No song leaves a playlist on a provider by a pass unless a person took   *)
(* it from that playlist somewhere, whatever the reads showed of it.        *)
SongsOn(l, p) == {SongOf[t] : t \in on[l] \cap Tracks(p)}
Doubted == IF pass = Idle THEN {} ELSE {SongOf[t] : t \in DOMAIN pass.seen \ DOMAIN pass.own}
SongStays ==
  [][\A l \in Playlist, p \in Peer :
       SongsOn(l, p) \ SongsOn(l, p)' \subseteq taken'[l] \cup Doubted]_identityVars
=============================================================================
