------------------------------- MODULE Sessions -------------------------------
(***************************************************************************)
(* The credentials of one connected account: what the settings keep of the *)
(* session a person pasted, what the token file keeps of its renewals, and *)
(* the copies that the clients of running passes and of library requests   *)
(* hold in memory.  Access tokens expire; a renewal spends a refresh token *)
(* and may rotate it.  Connector requests and the calls of a target run    *)
(* one at a time (AccountProfileStore.activate takes a process-wide lock), *)
(* but a client lives across many of them, and a person may connect        *)
(* another account in between.                                             *)
(*                                                                         *)
(*   spotify  one provider object for the process, made from the sp_dc file*)
(*   tidal    the file is read again for every call, under a lock, and     *)
(*            bears the fingerprint of the paste it comes from             *)
(*   deezer   the client keeps its tokens and writes them after a renewal  *)
(*   amazon   the same, and a connection proves a renewal before it counts *)
(*   youtube  Data API OAuth: the client keeps the token and writes it back*)
(***************************************************************************)
EXTENDS Naturals, FiniteSets

CONSTANTS
    Kind,               \* the providers considered
    Holder,             \* a pass's client, a library request's client
    MaxConnects,        \* bound: sessions pasted
    MaxRotations,       \* bound: rotations of one session's refresh token
    MaxSessionFaults    \* bound: refused proofs and crashes

ASSUME SessionsAssumption ==
    /\ Kind \subseteq {"spotify", "tidal", "deezer", "amazon", "youtube"}
    /\ MaxConnects \in Nat /\ MaxRotations \in Nat /\ MaxSessionFaults \in Nat

\* A line is a session a person pasted and all it is renewed to; in the worst case,
\* taken here, each signs in to an account of its own.
Line == 1 .. MaxConnects

\* A grant is an access token or a refresh token: the n-th of its line.
NoGrant == [line |-> 0, n |-> 0]
First(l) == [line |-> l, n |-> 0]

\* What settings, token file and clients hold; "of" is the paste it is derived
\* from (TIDAL's bootstrap_fingerprint).
Empty == [access |-> NoGrant, refresh |-> NoGrant, of |-> 0]
Held(g) == [access |-> g, refresh |-> g, of |-> g.line]

VARIABLES
    kind,       \* the provider
    settings,   \* the account's stored settings
    file,       \* its token file
    process,    \* Spotify: the provider object of the process
    client,     \* the clients and the connection each was built under
    \* the provider's side
    newest,     \* the last rotation of each line
    accepted,   \* refresh tokens the provider takes
    alive,      \* access tokens it takes
    \* history and bounds
    chosen,     \* the line of the last successful connection, 0 when disconnected
    strayed,    \* a call of a client built under the present connection spoke for
                \* another account
    tainted,    \* the token file may hold something else than the connection's last
    refused,    \* a renewal of the connection's line was refused although untainted
    pastes, sessionFaults

issuer == <<newest, accepted, alive>>
history == <<chosen, strayed, tainted, refused, pastes, sessionFaults>>
sessionVars == <<kind, settings, file, process, client, issuer, history>>

Closed == [held |-> Empty, since |-> 0]
Open(c) == client[c].since # 0

SessionInit ==
    /\ kind \in Kind
    /\ settings = Empty /\ file = Empty /\ process = Empty
    /\ client = [c \in Holder |-> Closed]
    /\ newest = [l \in Line |-> 0] /\ accepted = {} /\ alive = {}
    /\ chosen = 0 /\ strayed = FALSE /\ tainted = FALSE /\ refused = FALSE
    /\ pastes = 0 /\ sessionFaults = 0

SessionFault == sessionFaults < MaxSessionFaults /\ sessionFaults' = sessionFaults + 1

-----------------------------------------------------------------------------
\* The token service.  A renewal spends refresh token g: the provider returns an
\* access token and, when the service rotates, a new refresh token, keeping or
\* dropping those it took before.
Rotates == kind \in {"tidal", "deezer", "amazon"}

Renewed(g, m) ==
    /\ g \in accepted
    /\ \/ /\ m = g
          /\ alive' = alive \cup {g}
          /\ UNCHANGED <<newest, accepted>>
       \/ /\ Rotates /\ newest[g.line] < MaxRotations
          /\ m = [line |-> g.line, n |-> newest[g.line] + 1]
          /\ newest' = [newest EXCEPT ![g.line] = @ + 1]
          /\ \/ accepted' = accepted \cup {m}
             \/ accepted' = {h \in accepted : h.line # g.line} \cup {m}
          /\ alive' = alive \cup {m}

Grants == {[line |-> l, n |-> k] : l \in Line, k \in 0 .. MaxRotations}

\* A session about to be used, and the session after: the access token is taken
\* as long as it lives and renewed when it does not (merge_refresh).
Use(s, t) ==
    \/ s.access \in alive /\ t = s /\ UNCHANGED issuer
    \/ /\ s.access \notin alive
       /\ \E m \in Grants :
             Renewed(s.refresh, m) /\ t = [s EXCEPT !.access = m, !.refresh = m]

\* The renewal is refused: TargetAuthError, "reconnect".
Refusal(s) == s.access \notin alive /\ s.refresh \notin accepted
Refuse(s) ==
    /\ Refusal(s)
    /\ refused' = (refused \/ (s.refresh.line = chosen /\ ~tainted))
    /\ UNCHANGED issuer

Expire ==
    /\ alive # {} /\ alive' = {}
    /\ UNCHANGED <<kind, settings, file, process, client, newest, accepted, history>>

-----------------------------------------------------------------------------
\* ensure_web_access_token: the file, unless it comes from another paste than
\* the one the caller was configured with.
ReadBack(raw) == IF file.of = raw.of THEN file ELSE raw

\* DeezerWebClient: the file's refresh token before the settings'; the file's
\* access token while it lives, else the settings'.
DeezerSession(s) ==
    [access |-> IF file.access \in alive THEN file.access
                ELSE IF s.access # NoGrant THEN s.access ELSE file.access,
     refresh |-> IF file.refresh # NoGrant THEN file.refresh ELSE s.refresh,
     of |-> s.of]

\* AmazonMusicWebClient: the file before the settings.
AmazonSession(s) ==
    [access |-> IF file.access # NoGrant THEN file.access ELSE s.access,
     refresh |-> IF file.refresh # NoGrant THEN file.refresh ELSE s.refresh,
     of |-> s.of]

\* What a target is built with, and what a client works with at its next call.
Configured ==
    IF kind \in {"spotify", "youtube"} THEN file # Empty /\ settings # Empty ELSE settings # Empty
Starting ==
    CASE kind = "tidal" -> ReadBack(settings)
      [] kind = "deezer" -> DeezerSession(settings)
      [] kind = "amazon" -> AmazonSession(settings)
      [] OTHER -> file
Working(c) ==
    CASE kind = "tidal" -> ReadBack(client[c].held)
      [] kind = "spotify" -> IF process # Empty THEN process ELSE file
      [] OTHER -> client[c].held

\* write_token after a renewal (TIDAL also after seeding the file); a pasted
\* sp_dc is never rotated.
PersistNever(s, t) == UNCHANGED file
Persist(s, t) ==
    file' = IF kind = "tidal" \/ (kind # "spotify" /\ s.access \notin alive) THEN t ELSE file

Remember(t) == process' = IF kind = "spotify" THEN t ELSE process

\* A TIDAL client keeps what it was configured with, a Spotify client nothing.
Built(s) ==
    [held |-> CASE kind = "tidal" -> settings [] kind = "spotify" -> Empty [] OTHER -> s,
     since |-> chosen]

\* A pass or a library request builds its target: TIDAL and Deezer make sure of
\* the access token at once, the others at the first call.
Build(c) ==
    /\ ~Open(c) /\ Configured
    /\ \/ /\ kind \in {"tidal", "deezer"}
          /\ \E t \in {[access |-> m, refresh |-> r, of |-> Starting.of] :
                          m \in Grants, r \in Grants \cup {NoGrant}} :
                /\ Use(Starting, t)
                /\ Persist(Starting, t)
                /\ client' = [client EXCEPT ![c] = Built(t)]
          /\ UNCHANGED refused
       \/ /\ kind \in {"tidal", "deezer"}
          /\ Refuse(Starting)
          /\ file' = IF kind = "tidal" THEN Starting ELSE file
          /\ UNCHANGED client
       \/ /\ kind \notin {"tidal", "deezer"}
          /\ client' = [client EXCEPT ![c] = Built(Starting)]
          /\ UNCHANGED <<issuer, file, refused>>
    /\ UNCHANGED <<kind, settings, process, chosen, strayed, tainted, pastes, sessionFaults>>

\* One call of a target's: it speaks for the account its session signs in to.
Call(c) ==
    /\ Open(c)
    /\ \/ /\ \E t \in {[access |-> m, refresh |-> r, of |-> Working(c).of] :
                          m \in Grants, r \in Grants \cup {NoGrant}} :
                /\ Use(Working(c), t)
                /\ Persist(Working(c), t) /\ Remember(t)
                /\ client' = [client EXCEPT ![c].held =
                                IF kind \in {"tidal", "spotify"} THEN @ ELSE t]
                /\ strayed' = (strayed \/ (client[c].since = chosen /\ t.access.line # chosen))
          /\ tainted' = (tainted \/ (file' # file /\ client[c].since # chosen))
          /\ UNCHANGED refused
       \/ /\ Refuse(Working(c))
          /\ file' = IF kind = "tidal" THEN Working(c) ELSE file
          /\ tainted' = (tainted \/ (file' # file /\ client[c].since # chosen))
          /\ client' = [client EXCEPT ![c] = Closed]
          /\ UNCHANGED <<strayed, process>>
    /\ UNCHANGED <<kind, settings, chosen, pastes, sessionFaults>>

Close(c) ==
    /\ Open(c)
    /\ client' = [client EXCEPT ![c] = Closed]
    /\ UNCHANGED <<kind, settings, file, process, issuer, history>>

\* The process dies after the provider answered a renewal and before the file
\* was written: write_token truncates it first.
Crash(c) ==
    /\ Open(c) /\ SessionFault
    /\ Working(c).access \notin alive
    /\ \E m \in Grants : Renewed(Working(c).refresh, m)
    /\ file' \in IF kind = "spotify" THEN {file} ELSE {file, Empty}
    /\ client' = [d \in Holder |-> Closed] /\ process' = Empty
    /\ tainted' = TRUE
    /\ UNCHANGED <<kind, settings, chosen, strayed, refused, pastes>>

-----------------------------------------------------------------------------
\* The Accounts page asks for the status: a client is built and validated, and
\* what it then holds is saved for Deezer and Amazon.
Status ==
    /\ kind \in {"tidal", "deezer", "amazon"} /\ settings # Empty
    /\ \/ /\ \E t \in {[access |-> m, refresh |-> r, of |-> Starting.of] :
                          m \in Grants, r \in Grants \cup {NoGrant}} :
                /\ Use(Starting, t)
                /\ Persist(Starting, t)
                /\ settings' = IF kind = "tidal" THEN settings ELSE t
          /\ UNCHANGED refused
       \/ /\ Refuse(Starting)
          /\ file' = IF kind = "tidal" THEN Starting ELSE file
          /\ UNCHANGED settings
    /\ UNCHANGED <<kind, process, client, chosen, strayed, tainted, pastes, sessionFaults>>

\* A person signs in to an account in a browser and pastes its session: a new
\* line.  Its tokens are good: the page has just issued them.
NewLine == pastes + 1
Paste == pastes < MaxConnects /\ pastes' = NewLine
Issue(used) ==
    /\ accepted' = accepted \cup {First(NewLine), used}
    /\ alive' = alive \cup {First(NewLine), used}
    /\ newest' = [newest EXCEPT ![NewLine] = used.n]

Connected(s, f) ==
    /\ settings' = s /\ file' = f
    /\ chosen' = NewLine

\* TIDAL: the file is seeded from the paste and its renewal is tried before the
\* settings are saved; when it fails the file is put back.
ConnectTidal ==
    /\ kind = "tidal" /\ Paste
    /\ \/ /\ \E k \in {0, 1} :
                LET used == [line |-> NewLine, n |-> k] IN
                /\ k <= MaxRotations
                /\ Issue(used)
                /\ Connected(Held(First(NewLine)), [Held(used) EXCEPT !.of = NewLine])
          /\ tainted' = FALSE
          /\ UNCHANGED <<client, sessionFaults>>
       \/ /\ SessionFault /\ UNCHANGED <<issuer, settings, file, client, chosen, tainted>>
       \/ /\ SessionFault /\ Issue(First(NewLine))         \* the process dies in between
          /\ file' = Held(First(NewLine))
          /\ client' = [c \in Holder |-> Closed]
          /\ tainted' = TRUE
          /\ UNCHANGED <<settings, chosen>>
    /\ UNCHANGED <<kind, process, strayed, refused>>

\* Deezer: a pasted Pipe token that still lives is enough; without one the
\* renewal is tried, and only a renewal writes the file.
ConnectDeezer ==
    /\ kind = "deezer" /\ Paste
    /\ \/ /\ Issue(First(NewLine)) /\ Connected(Held(First(NewLine)), file)
          /\ tainted' = (file # Empty)
       \/ \E k \in {0, 1} :
             LET used == [line |-> NewLine, n |-> k] IN
             /\ k <= MaxRotations
             /\ Issue(used) /\ Connected(Held(used), Held(used))
             /\ tainted' = FALSE
    /\ UNCHANGED <<kind, process, client, strayed, refused, sessionFaults>>

\* Amazon: config.json and /pandaToken are both tried, then the identity, and
\* only then are file and settings written.
ConnectAmazon ==
    /\ kind = "amazon" /\ Paste
    /\ \E k \in {0, 1} :
          LET used == [line |-> NewLine, n |-> k] IN
          /\ k <= MaxRotations
          /\ Issue(used) /\ Connected(Held(used), Held(used))
    /\ tainted' = FALSE
    /\ UNCHANGED <<kind, process, client, strayed, refused, sessionFaults>>

\* Spotify: the sp_dc file is replaced and the process's provider dropped.
\* YouTube Music: the authorised device's token is stored.
Reset == process' = Empty
ConnectFile ==
    /\ kind \in {"spotify", "youtube"} /\ Paste
    /\ Issue(First(NewLine)) /\ Connected(Held(First(NewLine)), Held(First(NewLine)))
    /\ tainted' = FALSE
    /\ IF kind = "spotify" THEN Reset ELSE UNCHANGED process
    /\ UNCHANGED <<kind, client, strayed, refused, sessionFaults>>

\* Disconnect: the settings go, and the file with them except YouTube Music's.
Disconnect ==
    /\ settings # Empty
    /\ settings' = Empty
    /\ file' = IF kind = "youtube" THEN file ELSE Empty
    /\ IF kind = "spotify" THEN Reset ELSE UNCHANGED process
    /\ chosen' = 0 /\ tainted' = FALSE
    /\ UNCHANGED <<kind, client, issuer, strayed, refused, pastes, sessionFaults>>

SessionNext ==
    \/ \E c \in Holder : Build(c) \/ Call(c) \/ Close(c) \/ Crash(c)
    \/ Status \/ Expire
    \/ ConnectTidal \/ ConnectDeezer \/ ConnectAmazon \/ ConnectFile \/ Disconnect

SessionSpec == SessionInit /\ [][SessionNext]_sessionVars

-----------------------------------------------------------------------------
Session == [access : Grants \cup {NoGrant}, refresh : Grants \cup {NoGrant}, of : 0 .. MaxConnects]
SessionTypeOK ==
    /\ settings \in Session /\ file \in Session /\ process \in Session
    /\ client \in [Holder -> [held : Session, since : 0 .. MaxConnects]]
    /\ accepted \subseteq Grants /\ alive \subseteq Grants
    /\ chosen \in 0 .. MaxConnects

\* A target built under the present connection speaks for it, whatever clients of
\* an earlier one still run and wherever a connection was interrupted.
UsesChosen == ~strayed

\* It holds for the two providers whose session is tied to what was pasted.
TiedUsesChosen == kind \in {"tidal", "spotify"} => UsesChosen

\* A restart finds a refresh token the provider still takes: every rotation is on
\* disk before the next call, and a client that renews an older token still taken
\* does not put back one that was dropped.  Except when the process died in a
\* renewal or a connection, a client of an earlier connection wrote the file, or
\* a Deezer connection left an older one in place.
Durable == IF kind = "tidal" THEN ReadBack(settings)
           ELSE IF file.refresh # NoGrant THEN file ELSE settings
RenewalKept ==
    kind \in {"tidal", "deezer", "amazon"} /\ chosen # 0 /\ ~tainted =>
        Durable.refresh \in accepted

\* TIDAL, which reads the file again for every call: no renewal is ever refused
\* because another client rotated the token first.
NeverRefused == kind = "tidal" => ~refused

\* Clients speak for the session that was chosen, and its rotating tokens outlive
\* restarts and the other clients of the same session.
SessionsHold == SessionTypeOK /\ TiedUsesChosen /\ RenewalKept /\ NeverRefused

=============================================================================
