---------------------------- MODULE EvidenceProof ----------------------------
(***************************************************************************)
(* What holds of ResolveCache for any number of accounts, sessions and     *)
(* loads, whatever searches find, and for every provider; and of Identity  *)
(* for any tracks and names, whatever the reads show of them.              *)
(***************************************************************************)
EXTENDS ResolveCache, Identity, FiniteSetTheorems, WellFoundedInduction, TLAPS

-----------------------------------------------------------------------------
(* The inductive invariant of the caches: what holds of a file, and of what *)
(* a session would write to it.                                             *)

SessionRecord ==
  [kind : Kind \cup {"none"}, of : Account \cup {Closed.of}, cache : Record, base : Record,
   local : Record, dirty : BOOLEAN, resolved : BOOLEAN, refused : SUBSET Found]

Typed ==
  /\ provider \in Provider /\ throttled \in BOOLEAN /\ (throttled => provider = "apple")
  /\ file \in [Account -> File] /\ session \in [Session -> SessionRecord]
  /\ known \in [Account -> SUBSET Entry] /\ chosen \in [Account -> Entry]
  /\ forgotten \in [Account -> BOOLEAN] /\ empty \in [Account -> BOOLEAN]
  /\ withdrawn \in [Account -> BOOLEAN]

\* An entry rests on evidence of the account, is what a person chose, and stays away if a
\* person forgot it: the siblings' knowledge is kept out by the exclusion.
FileInv(a) ==
  /\ file[a].manual => file[a].search # Absent
  /\ chosen[a] \in {Absent, Raw} \cup Found
  /\ {file[a].search, file[a].isrc} \subseteq known[a] \cup {Absent}
  /\ file[a].search = Raw => 1 \in known[a]
  /\ file[a].search = Miss => empty[a]
  /\ chosen[a] # Absent /\ ~withdrawn[a] => StaysChosen(a)
  /\ forgotten[a] => Read(file[a]).search = Absent /\ (file[a].excluded \/ Siblings(a) = {})

\* A pass has put a pasted link into its normal form, found the entry by a search of its own,
\* dropped an id that Apple refused, or changed nothing; it is away from the id that it saw a
\* person had chosen only where Apple refused that id.
PassInv(x) == x.kind \in {"sync", "worker"} =>
  /\ x.cache.manual = x.base.manual
  /\ IF x.resolved
     THEN /\ x.cache.search \in known[x.of] \cap (Found \cup {Miss}) \/ x.cache.search = Absent
          /\ x.cache.search = Miss => empty[x.of]
     ELSE \/ x.cache.search \in {x.base.search, Absent}
          \/ x.cache.search = 1 /\ x.base.search = Raw
  /\ x.base.manual /\ x.base.search \notin {Absent, Miss} =>
       \/ Norm(x.base.search) \in x.refused
       \/ ~x.resolved /\ x.cache.search \in {x.base.search, Norm(x.base.search)}

\* An edit chooses an id, forgets the entry, or clears a miss, and its session is saved.
EditInv(x) ==
  /\ x.kind \in {"set", "choice", "delete"} => x.dirty
  /\ x.kind \in {"set", "choice"} => x.cache.search \in Found /\ x.cache.manual
  /\ x.kind = "delete" =>
       x.cache.search = Absent /\ ~x.cache.manual /\ (x.cache.excluded \/ Siblings(x.of) = {})
  /\ x.kind = "clear" =>
       \/ x.cache.search = x.base.search /\ x.cache.manual = x.base.manual
       \/ x.cache.search = Absent /\ x.base.search = Miss
  /\ x.resolved => x.kind \in {"sync", "worker"}

\* What a load shows: the file's own entry before that of a sibling.
LoadInv(x) ==
  /\ x.local.search \notin {Absent, Miss} \/ x.base.search \in {Absent, Miss} =>
       x.base.search = x.local.search /\ x.base.manual = x.local.manual
  /\ x.base.search = Raw => x.local.search = Raw
  /\ x.base.manual => x.base.search # Absent
  /\ x.base.excluded => x.cache.excluded /\ file[x.of].excluded

SessionInv(x) == x.kind # "none" =>
  /\ x.of \in Account
  /\ x.cache.isrc \in known[x.of] \cup {Absent, x.base.isrc}
  /\ PassInv(x) /\ EditInv(x) /\ LoadInv(x)

CacheInv ==
  Typed /\ (\A a \in Account : FileInv(a)) /\ \A s \in Session : SessionInv(session[s])

-----------------------------------------------------------------------------
(* Records. *)

\* What is read of a file: everything, or the manual entries of an old one.
LEMMA ReadFields ==
  ASSUME NEW f \in File
  PROVE  /\ Read(f) \in Record /\ Read(f).manual = f.manual /\ Read(f).excluded = f.excluded
         /\ Read(f).search \in {f.search, Absent} /\ (f.manual => Read(f).search = f.search)
         /\ Read(f).isrc \in {f.isrc, Absent} /\ (~f.old => Read(f).search = f.search)
  BY DEF Read, File, Record, Entry

\* A session that is over.
LEMMA ClosedFields == Closed \in SessionRecord /\ Closed.kind = "none"
<1>1. PICK n \in Record : n = Nothing
  BY DEF Nothing, Record, Entry
<1>2. PICK a : a = Closed.of /\ a = CHOOSE b \in Account : TRUE
  BY DEF Closed
<1>3. Closed = [kind |-> "none", of |-> a, cache |-> n, base |-> n, local |-> n, dirty |-> FALSE,
                resolved |-> FALSE, refused |-> {}]
  BY <1>1, <1>2 DEF Closed
<1>4. QED
  BY <1>2, <1>3 DEF SessionRecord

\* What a load shows of a file that has its types.
Overlays(e, f) ==
  /\ e \in Record /\ f \in Record /\ e.excluded = f.excluded
  /\ f.search \notin {Absent, Miss} \/ e.search \in {Absent, Miss} =>
       e.search = f.search /\ e.manual = f.manual
  /\ e.search = Raw => f.search = Raw
  /\ e.manual => e.search # Absent

\* What the siblings know are ids.
LEMMA SiblingsFound ==
  ASSUME Typed, NEW a \in Account
  PROVE  SiblingIds(a) \subseteq Found
<1>1. ASSUME NEW b \in Account, Read(file[b]).search \notin {Absent, Miss}
      PROVE  Norm(Read(file[b]).search) \in Found
  <2>1. Read(file[b]).search \in Entry
    BY ReadFields DEF Typed, Record
  <2>2. QED
    BY <1>1, <2>1, CacheAssumption DEF Norm, Entry
<1>2. QED
  BY <1>1 DEF SiblingIds, Siblings

\* The overlay leaves an entry of the file alone.
LEMMA EffectiveFields ==
  ASSUME Typed, NEW a \in Account, FileInv(a)
  PROVE  Overlays(Effective(a), Read(file[a]))
<1>1. PICK f \in Record : f = Read(file[a])
  BY ReadFields DEF Typed
<1>2. f.manual => f.search # Absent
  BY <1>1, ReadFields DEF Typed, FileInv
<1>3. PICK isrcs : isrcs = {Read(file[b]).isrc : b \in Siblings(a)} \ {Absent, Miss}
  OBVIOUS
<1>4. isrcs \subseteq Found
  <2>1. \A b \in Account : Read(file[b]).isrc \in {Absent, Miss} \cup Found
    BY ReadFields DEF Typed, Record
  <2>2. QED
    BY <1>3, <2>1 DEF Siblings
<1>5. PICK w \in Record :
        /\ w = IF f.isrc \in {Absent, Miss} /\ isrcs # {} THEN [f EXCEPT !.isrc = CHOOSE v \in isrcs : TRUE]
               ELSE f
        /\ w.search = f.search /\ w.manual = f.manual /\ w.excluded = f.excluded
  <2>1. PICK v : v = CHOOSE i \in isrcs : TRUE
    OBVIOUS
  <2>2. isrcs # {} => v \in Found
    BY <1>4, <2>1
  <2>3. PICK w \in Record : w = IF f.isrc \in {Absent, Miss} /\ isrcs # {} THEN [f EXCEPT !.isrc = v] ELSE f
    BY <2>2 DEF Record
  <2>4. w.search = f.search /\ w.manual = f.manual /\ w.excluded = f.excluded
    BY <2>3 DEF Record
  <2>5. QED
    BY <2>1, <2>3, <2>4
<1>6. PICK open \in BOOLEAN :
        open <=> /\ f.search \in {Absent, Miss} /\ ~f.manual /\ ~f.excluded
                 /\ Cardinality(SiblingIds(a)) = 1
  OBVIOUS
<1>7. PICK b \in BOOLEAN : b <=> ManualChoice(a)
  OBVIOUS
<1>8. b = ManualChoice(a)
  BY <1>7 DEF ManualChoice
<1>9. PICK v : v = CHOOSE i \in SiblingIds(a) : TRUE
  OBVIOUS
<1>10. open => v \in Found
   <2>1. ASSUME open PROVE SiblingIds(a) # {}
     BY <1>6, <2>1, FS_EmptySet
   <2>2. QED
     BY <1>9, <2>1, SiblingsFound
<1>11. PICK e \in Record : e = IF open THEN [w EXCEPT !.search = v, !.manual = b] ELSE w
   BY <1>10 DEF Record, Entry
<1>12. /\ e.search = (IF open THEN v ELSE f.search) /\ e.manual = (IF open THEN b ELSE f.manual)
       /\ e.excluded = f.excluded
   BY <1>5, <1>11 DEF Record
<1>13. Effective(a) = e
   BY <1>1, <1>3, <1>5, <1>6, <1>8, <1>9, <1>11 DEF Effective, Inherit
<1>14. Overlays(e, f)
   BY <1>2, <1>6, <1>10, <1>12, CacheAssumption DEF Overlays, Absent, Miss, Raw
<1>15. QED
   BY <1>1, <1>13, <1>14

-----------------------------------------------------------------------------
(* What steps have in common. *)

\* Evidence and exclusions stay.
Grows ==
  \A a \in Account :
    known[a] \subseteq known'[a] /\ (empty[a] => empty'[a]) /\ (file[a].excluded => file'[a].excluded)

\* A session keeps what holds of it while others work.
LEMMA OthersKeep ==
  ASSUME NEW x \in SessionRecord, SessionInv(x), Grows
  PROVE  SessionInv(x)'
<1>1. CASE x.kind = "none"
  BY <1>1 DEF SessionInv
<1>2. CASE x.kind # "none"
  <2>1. x.of \in Account /\ PassInv(x) /\ EditInv(x) /\ LoadInv(x)
    BY <1>2 DEF SessionInv
  <2>2. PassInv(x)' /\ EditInv(x)' /\ LoadInv(x)'
    BY <2>1 DEF PassInv, EditInv, LoadInv, Grows, Siblings
  <2>3. QED
    BY <1>2, <2>1, <2>2 DEF SessionInv, Grows
<1>3. QED
  BY <1>1, <1>2

\* A step of one session that leaves the files alone.
LEMMA SessionKeeps ==
  ASSUME CacheInv, NEW s \in Session, NEW x \in SessionRecord,
         session' = [session EXCEPT ![s] = x], SessionInv(x)',
         UNCHANGED <<provider, file, chosen, forgotten, withdrawn>>,
         known' \in [Account -> SUBSET Entry], empty' \in [Account -> BOOLEAN],
         \A a \in Account : known[a] \subseteq known'[a] /\ (empty[a] => empty'[a]),
         throttled' \in BOOLEAN, throttled' => provider = "apple"
  PROVE  CacheInv'
<1>1. Typed'
  BY DEF CacheInv, Typed
<1>2. ASSUME NEW a \in Account PROVE FileInv(a)'
  BY DEF CacheInv, FileInv, StaysChosen, Siblings, Read
<1>3. ASSUME NEW u \in Session PROVE SessionInv(session[u])'
  <2>1. Grows
    BY DEF Grows
  <2>2. CASE u = s
    <3>1. session'[u] = x
      BY <2>2 DEF CacheInv, Typed
    <3>2. QED
      BY <3>1 DEF SessionInv, PassInv, EditInv, LoadInv
  <2>3. CASE u # s
    <3>1. PICK y \in SessionRecord : y = session[u]
      BY DEF CacheInv, Typed
    <3>2. session'[u] = y /\ SessionInv(y)
      BY <2>3, <3>1 DEF CacheInv, Typed
    <3>3. SessionInv(y)'
      BY <2>1, <3>2, OthersKeep
    <3>4. QED
      BY <3>2, <3>3 DEF SessionInv, PassInv, EditInv, LoadInv
  <2>4. QED
    BY <2>2, <2>3
<1>4. QED
  BY <1>1, <1>2, <1>3 DEF CacheInv

\* A session that is over says nothing.
LEMMA ClosedSession == SessionInv(Closed) /\ SessionInv(Closed)'
  BY ClosedFields DEF SessionInv

-----------------------------------------------------------------------------
(* Loads. *)

\* What a session starts with.
LEMMA OpenedFields ==
  ASSUME CacheInv, NEW a \in Account, NEW kind \in Kind
  PROVE  \E x \in SessionRecord :
           /\ x = Opened(a, kind) /\ x.kind = kind /\ x.of = a /\ ~x.resolved
           /\ x.cache = x.base /\ x.local = Read(file[a]) /\ Overlays(x.base, Read(file[a]))
           /\ x.base = IF kind = "choice" THEN Read(file[a]) ELSE Effective(a)
<1>1. PICK f \in Record : f = Read(file[a])
  BY ReadFields DEF CacheInv, Typed
<1>2. PICK e \in Record : e = IF kind = "choice" THEN f ELSE Effective(a)
  BY EffectiveFields DEF CacheInv, Overlays
<1>3. Overlays(e, f)
  <2>1. f.manual => f.search # Absent
    BY <1>1, ReadFields DEF CacheInv, Typed, FileInv
  <2>2. QED
    BY <1>1, <1>2, <2>1, EffectiveFields DEF CacheInv, Overlays
<1>4. PICK c \in SessionRecord : c = Closed
  BY ClosedFields
<1>5. PICK b \in BOOLEAN : b = file[a].old
  BY DEF CacheInv, Typed, File
<1>6. PICK x \in SessionRecord :
        x = [c EXCEPT !.kind = kind, !.of = a, !.cache = e, !.base = e, !.local = f, !.dirty = b]
  BY DEF SessionRecord
<1>7. /\ x.kind = kind /\ x.of = a /\ x.resolved = c.resolved
      /\ x.cache = e /\ x.base = e /\ x.local = f
  BY <1>6 DEF SessionRecord
<1>8. x = Opened(a, kind)
  BY <1>1, <1>2, <1>4, <1>5, <1>6 DEF Opened
<1>9. ~c.resolved
  BY <1>4 DEF Closed
<1>10. QED
   BY <1>1, <1>2, <1>3, <1>7, <1>8, <1>9

\* Loading for a pass.
LEMMA LoadKeeps ==
  ASSUME CacheInv, NEW s \in Session, NEW a \in Account, NEW kind \in Kind, Load(s, a, kind)
  PROVE  CacheInv'
<1>1. PICK x \in SessionRecord :
           /\ x = Opened(a, kind) /\ x.kind = kind /\ x.of = a /\ ~x.resolved
           /\ x.cache = x.base /\ x.local = Read(file[a]) /\ Overlays(x.base, Read(file[a]))
  BY OpenedFields
<1>2. /\ session' = [session EXCEPT ![s] = x] /\ throttled' = FALSE /\ kind \in {"sync", "worker"}
      /\ UNCHANGED <<provider, file, history>>
  BY <1>1 DEF Load
<1>3. SessionInv(x)'
  <2>1. LoadInv(x)'
    <3>1. x.base.excluded => file[a].excluded
      BY <1>1, ReadFields DEF CacheInv, Typed, Overlays
    <3>2. QED
      BY <1>1, <1>2, <3>1 DEF LoadInv, Overlays
  <2>2. PassInv(x)' /\ EditInv(x)'
    BY <1>1, <1>2 DEF PassInv, EditInv
  <2>3. QED
    BY <1>1, <2>1, <2>2 DEF SessionInv, Overlays
<1>4. QED
  BY <1>2, <1>3, SessionKeeps DEF CacheInv, Typed, history

-----------------------------------------------------------------------------
(* Edits: what each of them makes c of the entry b that its load showed.    *)

Edited(kind, c, b, a) ==
  /\ c.isrc \in {b.isrc, Absent}
  /\ b.excluded => c.excluded
  /\ kind \in {"set", "choice"} => c.search \in Found /\ c.manual
  /\ kind = "delete" => c.search = Absent /\ ~c.manual /\ (c.excluded \/ Siblings(a) = {})
  /\ kind = "clear" =>
       \/ c.search = b.search /\ c.manual = b.manual
       \/ c.search = Absent /\ b.search = Miss

\* An edit opens a session that is about to save it.
LEMMA EditKeeps ==
  ASSUME CacheInv, NEW s \in Session, NEW a \in Account,
         NEW kind \in {"set", "choice", "delete", "clear"}, NEW b \in Record, NEW c \in Record,
         b = IF kind = "choice" THEN Read(file[a]) ELSE Effective(a),
         Edited(kind, c, b, a), OpenEdit(s, a, kind, c)
  PROVE  CacheInv'
<1>1. PICK y \in SessionRecord :
           /\ y = Opened(a, kind) /\ y.kind = kind /\ y.of = a /\ ~y.resolved
           /\ y.local = Read(file[a]) /\ Overlays(y.base, Read(file[a])) /\ y.base = b
  BY OpenedFields DEF Kind
<1>2. PICK x \in SessionRecord : x = [y EXCEPT !.cache = c, !.dirty = TRUE]
  BY DEF SessionRecord
<1>3. /\ x.kind = kind /\ x.of = a /\ ~x.resolved /\ x.cache = c /\ x.base = b
      /\ x.dirty /\ x.local = Read(file[a])
  BY <1>1, <1>2 DEF SessionRecord
<1>4. /\ session' = [session EXCEPT ![s] = x]
      /\ UNCHANGED <<provider, file, throttled, history>>
  BY <1>1, <1>2 DEF OpenEdit
<1>5. SessionInv(x)'
  <2>1. LoadInv(x)'
    <3>1. x.base.excluded => file[a].excluded
      BY <1>1, <1>3, ReadFields DEF CacheInv, Typed, Overlays
    <3>2. QED
      BY <1>1, <1>3, <1>4, <3>1 DEF LoadInv, Overlays, Edited
  <2>2. PassInv(x)' /\ EditInv(x)'
    BY <1>3, <1>4 DEF PassInv, EditInv, Edited, Siblings
  <2>3. QED
    BY <1>3, <2>1, <2>2 DEF SessionInv, Edited
<1>6. QED
  BY <1>4, <1>5, SessionKeeps DEF CacheInv, Typed, history

\* The four edits of a person.
LEMMA SetKeeps ==
  ASSUME CacheInv, NEW s \in Session, NEW a \in Account, NEW v \in Found,
         Set(s, a, v) \/ Choose(s, a, v)
  PROVE  CacheInv'
<1>1. v \notin {Absent, Miss} /\ v \in Entry
  BY CacheAssumption DEF Absent, Miss, Entry
<1>2. PICK kind \in {"set", "choice"} : IF kind = "set" THEN Set(s, a, v) ELSE Choose(s, a, v)
  OBVIOUS
<1>3. PICK b \in Record : b = IF kind = "choice" THEN Read(file[a]) ELSE Effective(a)
  BY EffectiveFields, ReadFields DEF CacheInv, Overlays, Typed
<1>4. PICK c \in Record : c = [b EXCEPT !.search = v, !.manual = TRUE]
  BY <1>1 DEF Record
<1>5. c.search = v /\ c.manual /\ c.isrc = b.isrc /\ c.excluded = b.excluded
  BY <1>4 DEF Record
<1>6. OpenEdit(s, a, kind, c)
  BY <1>2, <1>3, <1>4 DEF Set, Choose
<1>7. Edited(kind, c, b, a)
  BY <1>1, <1>5 DEF Edited
<1>8. QED
  BY <1>3, <1>6, <1>7, EditKeeps

\* Forgetting an entry excludes it where siblings might bring it back.
LEMMA DeleteKeeps ==
  ASSUME CacheInv, NEW s \in Session, NEW a \in Account, Delete(s, a)
  PROVE  CacheInv'
<1>1. PICK b \in Record : b = Effective(a)
  BY EffectiveFields DEF CacheInv, Overlays
<1>2. PICK out \in BOOLEAN : out = (b.excluded \/ Siblings(a) # {})
  OBVIOUS
<1>3. PICK c \in Record : c = [b EXCEPT !.search = Absent, !.manual = FALSE, !.excluded = out]
  BY DEF Record, Entry
<1>4. c.search = Absent /\ ~c.manual /\ c.isrc = b.isrc /\ c.excluded = out
  BY <1>3 DEF Record
<1>5. OpenEdit(s, a, "delete", c)
  BY <1>1, <1>2, <1>3 DEF Delete
<1>6. Edited("delete", c, b, a)
  BY <1>2, <1>4 DEF Edited
<1>7. QED
  BY <1>1, <1>5, <1>6, EditKeeps

\* Clearing what was not found.
LEMMA ClearKeeps ==
  ASSUME CacheInv, NEW s \in Session, NEW a \in Account, ClearUnmatched(s, a)
  PROVE  CacheInv'
<1>1. PICK b \in Record : b = Effective(a)
  BY EffectiveFields DEF CacheInv, Overlays
<1>2. PICK v \in Entry : v = IF b.search = Miss THEN Absent ELSE b.search
  BY DEF Record, Entry
<1>3. PICK i \in {Absent, Miss} \cup Found : i = IF b.isrc = Miss THEN Absent ELSE b.isrc
  BY DEF Record
<1>4. PICK m \in BOOLEAN : m = (b.manual /\ b.search # Miss)
   BY DEF Record
<1>5. PICK c \in Record : c = [b EXCEPT !.search = v, !.manual = m, !.isrc = i]
  BY DEF Record
<1>6. c.search = v /\ c.manual = m /\ c.isrc = i /\ c.excluded = b.excluded
  BY <1>5 DEF Record
<1>7. OpenEdit(s, a, "clear", c)
  BY <1>1, <1>2, <1>3, <1>5, <1>4 DEF ClearUnmatched
<1>8. Edited("clear", c, b, a)
  BY <1>1, <1>2, <1>3, <1>6, <1>4 DEF Edited, Record
<1>9. QED
  BY <1>1, <1>7, <1>8, EditKeeps

-----------------------------------------------------------------------------
(* Passes. *)

\* An answer is an id or nothing, and what a throttled search did not find is not kept.
LEMMA AnswersFields ==
  ASSUME Typed, NEW r \in Answers
  PROVE  r.value \in Found \cup {Miss} /\ (r.keep /\ r.value = Miss => ~throttled)
<1>1. r \in Hits \/ (r = Empty /\ ~throttled) \/ r = Provisional
  BY CacheAssumption DEF Typed, Answers, AppleSearch, YouTubeSearch, SpotifySearch, DeezerSearch,
     QobuzSearch, TidalSearch, AmazonSearch
<1>2. CASE r \in Hits
  BY <1>2, CacheAssumption DEF Hits, Id
<1>3. CASE r \notin Hits
  BY <1>1, <1>3 DEF Empty, Provisional
<1>4. QED
  BY <1>2, <1>3

\* A search that broke is an empty one, where it is kept at all.
LEMMA BrokenFields ==
  ASSUME Typed, NEW r \in Broken
  PROVE  r.value = Miss
<1>1. r = Empty
  BY CacheAssumption DEF Typed, Broken, AppleBroken, YouTubeBroken, SpotifyBroken, DeezerBroken,
     QobuzBroken, TidalBroken, AmazonBroken
<1>2. QED
  BY <1>1 DEF Empty

\* A pass keeps the answer to a search that it made.
LEMMA AnswerKeeps ==
  ASSUME CacheInv, NEW s \in Session, Working(s), ~Decided(session[s].cache),
         NEW r, r.value \in Found \cup {Miss}, Answer(s, r), Learns(session[s].of, r.value),
         UNCHANGED <<provider, file, throttled, chosen, forgotten, withdrawn>>,
         empty' \in [Account -> BOOLEAN],
         \A a \in Account : empty[a] => empty'[a],
         r.keep /\ r.value = Miss => empty'[session[s].of]
  PROVE  CacheInv'
<1>1. PICK y \in SessionRecord : y = session[s] /\ SessionInv(y) /\ y.kind \in {"sync", "worker"}
  BY DEF CacheInv, Typed, Working
<1>2. y.of \in Account /\ y.cache.search = Absent
  BY <1>1 DEF SessionInv, Decided
<1>3. /\ known' \in [Account -> SUBSET Entry] /\ r.value \in known'[y.of] /\ r.value \in Entry
      /\ \A a \in Account : known[a] \subseteq known'[a]
  BY <1>1, <1>2, CacheAssumption DEF CacheInv, Typed, Learns, Entry
<1>4. Grows
  BY <1>3 DEF Grows
<1>5. CASE ~r.keep
  <2>1. session' = [session EXCEPT ![s] = y]
    BY <1>1, <1>5 DEF Answer, CacheInv, Typed
  <2>2. SessionInv(y)'
    BY <1>1, <1>4, OthersKeep
  <2>3. QED
    BY <1>3, <2>1, <2>2, SessionKeeps DEF CacheInv, Typed
<1>6. CASE r.keep
  <2>1. PICK c \in Record : c = [y.cache EXCEPT !.search = r.value]
    BY <1>3 DEF SessionRecord, Record
  <2>2. /\ c.search = r.value /\ c.manual = y.cache.manual /\ c.excluded = y.cache.excluded
        /\ c.isrc = y.cache.isrc
    BY <2>1 DEF SessionRecord, Record
  <2>3. PICK x \in SessionRecord : x = [y EXCEPT !.cache = c, !.dirty = TRUE, !.resolved = TRUE]
    BY DEF SessionRecord
  <2>4. /\ x.kind = y.kind /\ x.of = y.of /\ x.cache = c /\ x.base = y.base /\ x.local = y.local
        /\ x.resolved /\ x.dirty /\ x.refused = y.refused
    BY <2>3 DEF SessionRecord
  <2>5. session' = [session EXCEPT ![s] = x]
    BY <1>1, <1>6, <2>1, <2>3 DEF Answer, CacheInv, Typed, SessionRecord
  <2>6. y.base.manual /\ y.base.search \notin {Absent, Miss} => Norm(y.base.search) \in y.refused
    <3>1. PassInv(y) /\ y.base.search \in Entry
      BY <1>1 DEF SessionInv, SessionRecord, Record
    <3>2. y.base.search \notin {Absent, Miss} => Norm(y.base.search) # Absent
      BY <3>1, CacheAssumption DEF Norm, Entry, Absent, Miss, Raw
    <3>3. QED
      BY <1>1, <1>2, <3>1, <3>2 DEF PassInv
  <2>7. SessionInv(y)'
    BY <1>1, <1>4, OthersKeep
  <2>8. PassInv(x)' /\ EditInv(x)' /\ LoadInv(x)'
    <3>1. PassInv(y)' /\ LoadInv(y)'
      BY <1>1, <2>7 DEF SessionInv
    <3>2. PassInv(x)'
      BY <1>1, <1>3, <1>6, <2>2, <2>4, <2>6, <3>1 DEF PassInv
    <3>3. EditInv(x)' /\ LoadInv(x)'
      BY <1>1, <2>2, <2>4, <3>1 DEF EditInv, LoadInv
    <3>4. QED
      BY <3>2, <3>3
  <2>9. SessionInv(x)'
    BY <1>1, <1>2, <2>2, <2>4, <2>6, <2>7, <2>8 DEF SessionInv
  <2>10. QED
    BY <1>3, <2>5, <2>9, SessionKeeps DEF CacheInv, Typed
<1>7. QED
  BY <1>5, <1>6

\* Searches, those that fail included.
LEMMA ResolveKeeps ==
  ASSUME CacheInv, NEW s \in Session, Resolve(s) \/ ResolveBroken(s)
  PROVE  CacheInv'
<1>1. session[s].of \in Account
  BY DEF CacheInv, SessionInv, Resolve, ResolveBroken, Working
<1>2. CASE Resolve(s)
  <2>1. PICK r \in Answers :
          /\ Answer(s, r) /\ Learns(session[s].of, r.value)
          /\ empty' = [empty EXCEPT ![session[s].of] = @ \/ (r.value = Miss /\ ~throttled)]
    BY <1>2 DEF Resolve
  <2>2. r.value \in Found \cup {Miss} /\ (r.keep /\ r.value = Miss => ~throttled)
    BY AnswersFields DEF CacheInv
  <2>3. /\ empty' \in [Account -> BOOLEAN] /\ \A a \in Account : empty[a] => empty'[a]
        /\ r.value = Miss /\ ~throttled => empty'[session[s].of]
    BY <1>1, <2>1 DEF CacheInv, Typed
  <2>4. QED
    BY <1>2, <2>1, <2>2, <2>3, AnswerKeeps DEF Resolve
<1>3. CASE ResolveBroken(s)
  <2>1. PICK r \in Broken : Answer(s, r) /\ Learns(session[s].of, r.value)
    BY <1>3 DEF ResolveBroken
  <2>2. r.value \in Found \cup {Miss}
    BY BrokenFields DEF CacheInv
  <2>3. /\ empty' \in [Account -> BOOLEAN] /\ \A a \in Account : empty[a] => empty'[a]
        /\ empty'[session[s].of]
    BY <1>1, <1>3 DEF CacheInv, Typed, ResolveBroken
  <2>4. QED
    BY <1>3, <2>1, <2>2, <2>3, AnswerKeeps DEF ResolveBroken
<1>4. QED
  BY <1>2, <1>3

\* The normal form of a pasted link, and the catalog's answer for an ISRC.
LEMMA NotesKeep ==
  ASSUME CacheInv, NEW s \in Session, Normalise(s) \/ Prefetch(s)
  PROVE  CacheInv'
<1>1. PICK y \in SessionRecord : y = session[s] /\ SessionInv(y) /\ y.kind \in {"sync", "worker"}
  BY DEF CacheInv, Typed, Working, Normalise, Prefetch
<1>2. y.of \in Account /\ PassInv(y) /\ LoadInv(y) /\ EditInv(y)
  BY <1>1 DEF SessionInv
<1>3. PICK v \in Entry, i \in {Absent, Miss} \cup Found :
        /\ session' = [session EXCEPT ![s].cache.search = v, ![s].cache.isrc = i, ![s].dirty = TRUE]
        /\ v = y.cache.search \/ (v = 1 /\ y.cache.search = Raw)
        /\ i = y.cache.isrc \/ i \in known'[y.of]
        /\ known' \in [Account -> SUBSET Entry] /\ \A a \in Account : known[a] \subseteq known'[a]
        /\ UNCHANGED <<provider, file, throttled, chosen, forgotten, withdrawn, empty>>
  <2>1. y.cache.search \in Entry /\ y.cache.isrc \in {Absent, Miss} \cup Found
    BY DEF SessionRecord, Record
  <2>2. CASE Normalise(s)
    <3>1. session' = [session EXCEPT ![s].cache.search = 1, ![s].cache.isrc = y.cache.isrc,
                                     ![s].dirty = TRUE]
      BY <1>1, <2>2 DEF Normalise, Norm, CacheInv, Typed, SessionRecord, Record
    <3>2. QED
      BY <1>1, <2>1, <2>2, <3>1, CacheAssumption DEF Normalise, CacheInv, Typed, Entry, history
  <2>3. CASE Prefetch(s)
    <3>1. PICK i \in Found \cup {Miss} :
            /\ session' = [session EXCEPT ![s].cache.isrc = i, ![s].dirty = TRUE]
            /\ Learns(y.of, i)
      BY <1>1, <2>3 DEF Prefetch
    <3>2. session' = [session EXCEPT ![s].cache.search = y.cache.search, ![s].cache.isrc = i,
                                     ![s].dirty = TRUE]
      BY <1>1, <3>1 DEF CacheInv, Typed, SessionRecord, Record
    <3>3. /\ known' \in [Account -> SUBSET Entry] /\ i \in known'[y.of]
          /\ \A a \in Account : known[a] \subseteq known'[a]
      BY <1>2, <3>1 DEF Learns, CacheInv, Typed, Entry
    <3>4. QED
      BY <2>1, <2>3, <3>2, <3>3 DEF Prefetch
  <2>4. QED
    BY <2>2, <2>3
<1>4. PICK c \in Record : c = [y.cache EXCEPT !.search = v, !.isrc = i]
  BY DEF SessionRecord, Record
<1>5. /\ c.search = v /\ c.isrc = i /\ c.manual = y.cache.manual
      /\ c.excluded = y.cache.excluded
  BY <1>4 DEF SessionRecord, Record
<1>6. PICK x \in SessionRecord : x = [y EXCEPT !.cache = c, !.dirty = TRUE]
  BY DEF SessionRecord
<1>7. /\ x.kind = y.kind /\ x.of = y.of /\ x.cache = c /\ x.base = y.base /\ x.local = y.local
      /\ x.resolved = y.resolved /\ x.dirty /\ x.refused = y.refused
  BY <1>6 DEF SessionRecord
<1>8. session' = [session EXCEPT ![s] = x]
  BY <1>1, <1>3, <1>4, <1>6 DEF CacheInv, Typed, SessionRecord
<1>9. SessionInv(x)'
  <2>1. PassInv(x)'
    <3>1. y.cache.search = Raw => ~y.resolved /\ y.base.search = Raw /\ Norm(Raw) = 1
      BY <1>1, <1>2, CacheAssumption DEF PassInv, Absent, Miss, Raw, Norm
    <3>2. QED
      BY <1>1, <1>2, <1>3, <1>5, <1>7, <3>1, CacheAssumption DEF PassInv
  <2>2. LoadInv(x)' /\ EditInv(x)'
    BY <1>1, <1>2, <1>3, <1>5, <1>7 DEF LoadInv, EditInv
  <2>4. (x.cache.isrc \in known[x.of] \cup {Absent, x.base.isrc})'
    BY <1>1, <1>2, <1>3, <1>5, <1>7 DEF SessionInv
  <2>5. QED
    BY <1>2, <1>7, <2>1, <2>2, <2>4 DEF SessionInv
<1>10. QED
   BY <1>3, <1>8, <1>9, SessionKeeps DEF CacheInv, Typed

-----------------------------------------------------------------------------
(* Ids that Apple refuses. *)

\* The session goes on without the id v that Apple refused, with nothing in its place or
\* with an id that it knows.
LEMMA RefuseKeeps ==
  ASSUME CacheInv, NEW s \in Session, NEW y \in SessionRecord, y = session[s],
         NEW v \in Found, NEW c \in Record, NEW found \in BOOLEAN, Refuse(s, v, c, found),
         known' \in [Account -> SUBSET Entry], \A a \in Account : known[a] \subseteq known'[a],
         c.manual = y.cache.manual, c.excluded = y.cache.excluded,
         c.isrc \in {y.cache.isrc, Absent} \cup known'[y.of],
         found => c.search \in known'[y.of] \cap Found,
         ~found => c.search = IF y.cache.search = v THEN Absent ELSE y.cache.search
  PROVE  CacheInv'
<1>1. /\ SessionInv(y) /\ y.kind \in {"sync", "worker"} /\ y.of \in Account
      /\ y.cache.search # Raw /\ v \in Sends(y.cache)
      /\ UNCHANGED <<provider, file, throttled, chosen, forgotten, withdrawn, empty>>
  BY DEF CacheInv, Refuse, Working, SessionInv
<1>2. PICK out \in SUBSET Found : out = y.refused \cup {v}
  BY DEF SessionRecord
<1>3. PICK b \in BOOLEAN : b = (y.resolved \/ found)
  OBVIOUS
<1>4. PICK x \in SessionRecord :
        x = [y EXCEPT !.cache = c, !.dirty = TRUE, !.refused = out, !.resolved = b]
  BY DEF SessionRecord
<1>5. /\ x.kind = y.kind /\ x.of = y.of /\ x.cache = c /\ x.base = y.base /\ x.local = y.local
      /\ x.resolved = b /\ x.dirty /\ x.refused = out
  BY <1>4 DEF SessionRecord
<1>6. session' = [session EXCEPT ![s] = x]
  BY <1>2, <1>3, <1>4 DEF Refuse, CacheInv, Typed, SessionRecord
<1>7. Grows
  BY <1>1 DEF Grows
<1>8. PassInv(y) /\ PassInv(y)' /\ LoadInv(y)' /\ (y.cache.isrc \in known[y.of] \cup {Absent, y.base.isrc})
  BY <1>1, <1>7, OthersKeep DEF SessionInv
<1>9. Absent # Miss /\ Norm(Raw) = 1 /\ \A i \in Found : i \notin {Absent, Miss, Raw}
  BY CacheAssumption DEF Absent, Miss, Raw, Norm
<1>10. y.cache \in Record /\ y.base \in Record /\ y.cache.search \in Entry /\ y.base.search \in Entry
   BY DEF SessionRecord, Record
<1>11. y.base.manual /\ y.base.search \notin {Absent, Miss} => Norm(y.base.search) \in out
   <2>1. ASSUME y.base.manual, y.base.search \notin {Absent, Miss}, Norm(y.base.search) \notin y.refused
         PROVE  Norm(y.base.search) = v
     <3>1. y.cache.manual /\ y.cache.search \in {y.base.search, Norm(y.base.search)}
       BY <1>1, <1>8, <2>1 DEF PassInv
     <3>2. y.cache.search = Norm(y.base.search) /\ y.cache.search \in Found
       BY <1>1, <1>10, <2>1, <3>1, CacheAssumption DEF Norm, Entry
     <3>3. QED
       BY <1>1, <3>1, <3>2 DEF Sends
   <2>2. QED
     BY <1>2, <2>1
<1>12. PassInv(x)'
   <2>1. x.cache.manual = x.base.manual
     BY <1>1, <1>5, <1>8 DEF PassInv
   <2>2. CASE found
     BY <1>3, <1>5, <1>9, <1>11, <2>1, <2>2 DEF PassInv
   <2>3. CASE ~found
     BY <1>1, <1>3, <1>5, <1>8, <1>11, <1>9, <2>1, <2>3 DEF PassInv
   <2>4. QED
     BY <2>2, <2>3
<1>13. LoadInv(x)' /\ EditInv(x)'
   BY <1>1, <1>5, <1>8 DEF LoadInv, EditInv
<1>14. (x.cache.isrc \in known[x.of] \cup {Absent, x.base.isrc})'
   BY <1>1, <1>5, <1>8
<1>15. SessionInv(x)'
   BY <1>1, <1>5, <1>12, <1>13, <1>14 DEF SessionInv
<1>16. QED
   BY <1>1, <1>6, <1>15, SessionKeeps DEF CacheInv, Typed

\* Another release takes the place of the id.
LEMMA RepairKeeps ==
  ASSUME CacheInv, NEW s \in Session, Repair(s)
  PROVE  CacheInv'
<1>1. PICK y \in SessionRecord : y = session[s] /\ y.of \in Account
  BY DEF CacheInv, Typed, SessionInv, Repair, Refuse, Working
<1>2. PICK v \in Found, r \in Found :
        /\ Refuse(s, v, [y.cache EXCEPT !.search = r, !.isrc = IF @ = v THEN r ELSE @], TRUE)
        /\ Learns(y.of, r)
  BY <1>1 DEF Repair
<1>3. y.cache \in Record /\ y.cache.isrc \in {Absent, Miss} \cup Found /\ r \in Entry
  BY DEF SessionRecord, Record, Entry
<1>4. PICK i \in {Absent, Miss} \cup Found : i = IF y.cache.isrc = v THEN r ELSE y.cache.isrc
  BY <1>3
<1>5. PICK c \in Record : c = [y.cache EXCEPT !.search = r, !.isrc = i]
  BY <1>3 DEF Record
<1>6. c.search = r /\ c.isrc = i /\ c.manual = y.cache.manual /\ c.excluded = y.cache.excluded
  BY <1>3, <1>5 DEF Record
<1>7. c = [y.cache EXCEPT !.search = r, !.isrc = IF @ = v THEN r ELSE @]
  BY <1>3, <1>4, <1>5 DEF Record
<1>8. /\ known' \in [Account -> SUBSET Entry] /\ r \in known'[y.of]
      /\ \A a \in Account : known[a] \subseteq known'[a]
  BY <1>1, <1>2, <1>3 DEF Learns, CacheInv, Typed
<1>9. Refuse(s, v, c, TRUE)
  BY <1>2, <1>7
<1>10. c.isrc \in {y.cache.isrc, Absent} \cup known'[y.of] /\ c.search \in known'[y.of] \cap Found
   BY <1>4, <1>6, <1>8
<1>11. QED
   BY <1>1, <1>6, <1>8, <1>9, <1>10, RefuseKeeps

\* The id is dropped.
LEMMA EvictKeeps ==
  ASSUME CacheInv, NEW s \in Session, Evict(s)
  PROVE  CacheInv'
<1>1. PICK y \in SessionRecord : y = session[s]
  BY DEF CacheInv, Typed
<1>2. PICK v \in Found :
        /\ Refuse(s, v, [y.cache EXCEPT !.search = IF @ = v THEN Absent ELSE @,
                                       !.isrc = IF @ = v THEN Absent ELSE @], FALSE)
        /\ known' = known
  BY <1>1 DEF Evict
<1>3. /\ y.cache \in Record /\ y.cache.isrc \in {Absent, Miss} \cup Found
      /\ y.cache.search \in Entry /\ Absent \in Entry
  BY DEF SessionRecord, Record, Entry
<1>4. PICK i \in {Absent, Miss} \cup Found : i = IF y.cache.isrc = v THEN Absent ELSE y.cache.isrc
  BY <1>3
<1>5. PICK e \in Entry : e = IF y.cache.search = v THEN Absent ELSE y.cache.search
  BY <1>3
<1>6. PICK c \in Record : c = [y.cache EXCEPT !.search = e, !.isrc = i]
  BY <1>3 DEF Record
<1>7. c.search = e /\ c.isrc = i /\ c.manual = y.cache.manual /\ c.excluded = y.cache.excluded
  BY <1>3, <1>6 DEF Record
<1>8. c = [y.cache EXCEPT !.search = IF @ = v THEN Absent ELSE @, !.isrc = IF @ = v THEN Absent ELSE @]
  BY <1>3, <1>4, <1>5, <1>6 DEF Record
<1>9. known' \in [Account -> SUBSET Entry] /\ \A a \in Account : known[a] \subseteq known'[a]
  BY <1>2 DEF CacheInv, Typed
<1>10. Refuse(s, v, c, FALSE)
   BY <1>2, <1>8
<1>11. QED
   BY <1>1, <1>4, <1>5, <1>7, <1>9, <1>10, RefuseKeeps

-----------------------------------------------------------------------------
(* Saves. *)

\* What a session that writes its entry has done, in terms of what is on disk now: a person
\* chose, forgot or cleared; a pass put the link on disk into its normal form, or found or
\* dropped an entry, that of a person only where Apple refused it.
Change(y, n) ==
  \/ y.kind \in {"set", "choice"} /\ y.cache.search \in Found /\ y.cache.manual
  \/ y.kind = "delete" /\ y.cache.search = Absent
  \/ y.kind = "clear" /\ y.cache.search = Absent /\ n.search \in {Absent, Miss}
  \/ /\ y.kind \in {"sync", "worker"}
     /\ \/ y.cache.search = Absent
        \/ y.resolved /\ y.cache.search \in known[y.of] \cap (Found \cup {Miss})
     /\ y.cache.search = Miss => empty[y.of]
     /\ n.manual /\ n.search \notin {Absent, Miss} => Norm(n.search) \in y.refused
  \/ /\ y.kind \in {"sync", "worker"} /\ ~y.resolved /\ y.cache.search = 1 /\ n.search = Raw
     /\ y.cache.manual = n.manual

\* A person's choice is written.
LEMMA PersonWrites ==
  ASSUME CacheInv, NEW s \in Session, NEW n \in Record, Person(s)
  PROVE  Writes(s, n)
<1>1. PICK y \in SessionRecord : y = session[s] /\ SessionInv(y)
  BY DEF CacheInv, Typed
<1>2. y.cache.search \in Found /\ y.kind \in {"set", "choice"}
  BY <1>1 DEF SessionInv, EditInv, Person
<1>3. y.cache.search # Absent
  BY <1>2, CacheAssumption DEF Absent
<1>4. QED
  BY <1>1, <1>3 DEF Writes

\* What is written is one of these changes.
LEMMA Written ==
  ASSUME CacheInv, NEW s \in Session, session[s].kind # "none", NEW n \in Record, Writes(s, n)
  PROVE  Change(session[s], n)
<1>1. PICK y \in SessionRecord : y = session[s] /\ SessionInv(y) /\ y.kind \in Kind
  BY DEF CacheInv, Typed, SessionRecord
<1>2. PassInv(y) /\ EditInv(y) /\ LoadInv(y)
  BY <1>1 DEF SessionInv
<1>3. ~Person(s) =>
        /\ y.cache.search # y.base.search \/ y.cache.manual # y.base.manual
        /\ n.search = y.local.search /\ n.manual = y.local.manual
  BY <1>1 DEF Writes, State
<1>4. Person(s) <=> y.kind \in {"set", "choice"}
  BY <1>1 DEF Person
<1>5. 1 # Absent /\ Miss # Absent /\ Raw \notin {Absent, Miss}
  BY DEF Absent, Miss, Raw
<1>6. CASE y.kind \in {"set", "choice", "delete"}
  BY <1>1, <1>2, <1>6 DEF EditInv, Change
<1>7. CASE y.kind = "clear"
  <2>1. y.cache.search = Absent /\ y.base.search = Miss
    BY <1>2, <1>3, <1>4, <1>7 DEF EditInv
  <2>2. n.search \in {Absent, Miss}
    BY <1>2, <1>3, <1>4, <1>7, <2>1 DEF LoadInv
  <2>3. QED
    BY <1>1, <1>7, <2>1, <2>2 DEF Change
<1>8. ASSUME y.kind \in {"sync", "worker"}, n.manual, n.search \notin {Absent, Miss},
             Norm(n.search) \notin y.refused
      PROVE  ~y.resolved /\ y.cache.search = 1 /\ n.search = Raw /\ y.cache.manual = n.manual
  <2>1. y.base.search = n.search /\ y.base.manual
    BY <1>2, <1>3, <1>4, <1>8 DEF LoadInv
  <2>2. ~y.resolved /\ y.cache.manual = n.manual
        /\ y.cache.search \in {n.search, Norm(n.search)} /\ y.cache.search # n.search
    BY <1>2, <1>3, <1>4, <1>8, <2>1 DEF PassInv
  <2>3. QED
    BY <2>2 DEF Norm
<1>9. ASSUME y.kind \in {"sync", "worker"}
      PROVE  \/ y.cache.search = Absent
             \/ /\ y.resolved /\ y.cache.search \in known[y.of] \cap (Found \cup {Miss})
                /\ y.cache.search = Miss => empty[y.of]
             \/ ~y.resolved /\ y.cache.search = 1 /\ n.search = Raw /\ y.cache.manual = n.manual
  <2>1. CASE y.resolved
    BY <1>2, <1>9, <2>1 DEF PassInv
  <2>2. CASE ~y.resolved
    <3>1. y.cache.search = Absent \/ (y.cache.search = 1 /\ y.base.search = Raw)
      BY <1>2, <1>3, <1>4, <1>9, <2>2 DEF PassInv
    <3>2. y.base.search = Raw => n.search = Raw /\ y.base.manual = n.manual
      BY <1>2, <1>3, <1>4, <1>5, <1>9 DEF LoadInv
    <3>3. QED
      BY <1>2, <1>9, <2>2, <3>1, <3>2 DEF PassInv
  <2>3. QED
    BY <2>1, <2>2
<1>10. CASE y.kind \in {"sync", "worker"}
   BY <1>1, <1>5, <1>8, <1>9, <1>10 DEF Change
<1>11. QED
   BY <1>1, <1>6, <1>7, <1>10 DEF Kind

\* What is on disk after the save of session y that found n there.
Outcome(m, y, n, w) ==
  /\ m.search = (IF w THEN y.cache.search ELSE n.search)
  /\ m.manual = (IF w THEN y.cache.manual /\ y.cache.search # Absent ELSE n.manual)
  /\ m.excluded <=> (n.excluded \/ (y.cache.excluded /\ ~y.base.excluded))
                      /\ ~(y.base.excluded /\ ~y.cache.excluded)
  /\ m.isrc = n.isrc \/ (m.isrc = y.cache.isrc /\ y.cache.isrc # y.base.isrc)
  /\ ~m.old

LEMMA MergedFields ==
  ASSUME CacheInv, NEW s \in Session, session[s].kind # "none"
  PROVE  \E m \in File : /\ m = Merged(s)
                         /\ Outcome(m, session[s], Read(file[session[s].of]),
                                    Writes(s, Read(file[session[s].of])))
<1>1. PICK y \in SessionRecord : y = session[s] /\ SessionInv(y)
  BY DEF CacheInv, Typed
<1>2. PICK n \in Record : n = Read(file[y.of])
  BY <1>1, ReadFields DEF CacheInv, Typed, SessionInv
<1>3. PICK w \in BOOLEAN : w <=> Writes(s, n)
  OBVIOUS
<1>4. PICK i \in BOOLEAN : i <=> WritesIsrc(s, n)
  OBVIOUS
<1>5. PICK out \in BOOLEAN : out = ((n.excluded \/ (y.cache.excluded /\ ~y.base.excluded))
                                      /\ ~(y.base.excluded /\ ~y.cache.excluded))
  OBVIOUS
<1>6. /\ y.cache \in Record /\ y.base \in Record
      /\ y.cache.search \in Entry /\ y.cache.manual \in BOOLEAN
      /\ y.cache.isrc \in {Absent, Miss} \cup Found
      /\ n.search \in Entry /\ n.manual \in BOOLEAN /\ n.isrc \in {Absent, Miss} \cup Found
  BY DEF SessionRecord, Record
<1>7. PICK hand \in BOOLEAN :
         hand = IF w THEN y.cache.manual /\ y.cache.search # Absent ELSE n.manual
   BY <1>6
<1>8. PICK m \in File :
        m = [search |-> IF w THEN y.cache.search ELSE n.search,
             manual |-> hand,
             excluded |-> out,
             isrc |-> IF i THEN y.cache.isrc ELSE n.isrc,
             old |-> FALSE]
  BY <1>6 DEF File
<1>9. /\ m.search = (IF w THEN y.cache.search ELSE n.search)
      /\ m.manual = hand
      /\ m.excluded = out /\ m.isrc = (IF i THEN y.cache.isrc ELSE n.isrc) /\ m.old = FALSE
  BY <1>8
<1>10. m = Merged(s)
  BY <1>1, <1>2, <1>3, <1>4, <1>5, <1>8, <1>7 DEF Merged
<1>11. Outcome(m, y, n, Writes(s, n))
  <2>1. i => y.cache.isrc # y.base.isrc
    BY <1>1, <1>4 DEF WritesIsrc
  <2>2. QED
    BY <1>3, <1>5, <1>9, <1>7, <2>1 DEF Outcome
<1>12. QED
   BY <1>1, <1>2, <1>10, <1>11

\* The file that a save leaves.
LEMMA SavedFile ==
  ASSUME CacheInv, NEW s \in Session, Save(s), session[s].dirty,
         NEW a \in Account, a = session[s].of
  PROVE  FileInv(a)' /\ (file[a].excluded => file'[a].excluded)
<1>1. PICK y \in SessionRecord : y = session[s] /\ SessionInv(y) /\ y.kind # "none"
  BY DEF CacheInv, Typed, Save
<1>2. a = y.of
  BY <1>1
<1>3. PICK f \in File : f = file[a] /\ FileInv(a)
  BY DEF CacheInv, Typed
<1>4. PICK n \in Record : n = Read(f)
  BY ReadFields
<1>5. /\ n.manual = f.manual /\ n.excluded = f.excluded /\ n.search \in {f.search, Absent}
      /\ n.manual => n.search = f.search
      /\ n.isrc \in {f.isrc, Absent}
  BY <1>4, ReadFields
<1>6. PICK w \in BOOLEAN : w <=> Writes(s, n)
  OBVIOUS
<1>7. PICK m \in File : m = Merged(s) /\ Outcome(m, y, n, w)
  BY <1>1, <1>2, <1>3, <1>4, <1>6, MergedFields DEF Outcome
<1>8. /\ file'[a] = m /\ empty' = empty
      /\ known'[a] = IF Person(s) THEN known[a] \cup {y.cache.search} ELSE known[a]
      /\ chosen'[a] = IF Person(s) THEN y.cache.search
                      ELSE IF y.kind = "delete" /\ w THEN Absent ELSE chosen[a]
      /\ forgotten'[a] => \/ y.kind = "delete" /\ w
                          \/ forgotten[a] /\ ~Person(s) /\ ~(y.resolved /\ w)
      /\ ~Person(s) /\ ~(y.kind = "delete" /\ w) =>
           (withdrawn'[a] <=> withdrawn[a] \/ (w /\ Norm(chosen[a]) \in y.refused))
  <2>1. /\ file' = [file EXCEPT ![a] = m] /\ empty' = empty
        /\ known' = IF Person(s) THEN [known EXCEPT ![a] = @ \cup {y.cache.search}] ELSE known
    BY <1>1, <1>2, <1>7 DEF Save
  <2>2. chosen' = [chosen EXCEPT ![a] =
                     CASE Person(s) -> y.cache.search [] y.kind = "delete" /\ w -> Absent
                       [] OTHER -> chosen[a]]
    BY <1>1, <1>2, <1>3, <1>4, <1>6 DEF Save
  <2>3. forgotten' = [forgotten EXCEPT ![a] =
                        CASE y.kind = "delete" /\ w -> TRUE
                          [] Person(s) \/ (y.resolved /\ w) -> FALSE
                          [] OTHER -> forgotten[a]]
    BY <1>1, <1>2, <1>3, <1>4, <1>6 DEF Save
  <2>4. ~(Person(s) /\ y.kind = "delete")
    BY <1>1 DEF Person
  <2>5. file'[a] = m /\ known'[a] = IF Person(s) THEN known[a] \cup {y.cache.search} ELSE known[a]
    BY <2>1 DEF CacheInv, Typed
  <2>6. chosen'[a] = CASE Person(s) -> y.cache.search [] y.kind = "delete" /\ w -> Absent
                       [] OTHER -> chosen[a]
    BY <2>2 DEF CacheInv, Typed
  <2>7. forgotten'[a] = CASE y.kind = "delete" /\ w -> TRUE
                          [] Person(s) \/ (y.resolved /\ w) -> FALSE
                          [] OTHER -> forgotten[a]
    BY <2>3 DEF CacheInv, Typed
  <2>8. chosen'[a] = IF Person(s) THEN y.cache.search
                     ELSE IF y.kind = "delete" /\ w THEN Absent ELSE chosen[a]
    BY <2>4, <2>6
  <2>9. forgotten'[a] => \/ y.kind = "delete" /\ w
                         \/ forgotten[a] /\ ~Person(s) /\ ~(y.resolved /\ w)
    BY <2>7
  <2>10. withdrawn' = [withdrawn EXCEPT ![a] =
                         CASE Person(s) \/ (y.kind = "delete" /\ w) -> FALSE
                           [] OTHER -> withdrawn[a] \/ (w /\ Norm(chosen[a]) \in y.refused)]
     BY <1>1, <1>2, <1>3, <1>4, <1>6 DEF Save
  <2>11. ~Person(s) /\ ~(y.kind = "delete" /\ w) =>
           withdrawn'[a] = (withdrawn[a] \/ (w /\ Norm(chosen[a]) \in y.refused))
     BY <2>10 DEF CacheInv, Typed
  <2>12. QED
     BY <2>1, <2>5, <2>8, <2>9, <2>11
<1>9. Person(s) <=> y.kind \in {"set", "choice"}
  BY <1>1 DEF Person
<1>10. /\ w => Change(y, n)
       /\ Person(s) => w
   BY <1>1, <1>6, Written, PersonWrites
<1>11. /\ y.cache.isrc \in known[a] \cup {Absent, y.base.isrc}
       /\ PassInv(y) /\ EditInv(y) /\ LoadInv(y)
   BY <1>1, <1>2 DEF SessionInv
<1>12. /\ Absent # Miss /\ Raw \notin {Absent, Miss, 1} /\ 1 \notin {Absent, Miss} /\ Norm(Raw) = 1
       /\ Norm(1) = 1
       /\ \A v \in Found : v \notin {Absent, Miss, Raw}
   BY CacheAssumption DEF Absent, Miss, Raw, Norm
<1>13. /\ (f.manual => f.search # Absent) /\ chosen[a] \in {Absent, Raw} \cup Found
       /\ f.search \in known[a] \cup {Absent} /\ f.isrc \in known[a] \cup {Absent}
       /\ f.search = Raw => 1 \in known[a]
       /\ f.search = Miss => empty[a]
       /\ chosen[a] # Absent /\ ~withdrawn[a] => f.manual /\ Norm(f.search) = Norm(chosen[a])
       /\ forgotten[a] => n.search = Absent /\ (f.excluded \/ Siblings(a) = {})
   BY <1>3, <1>4 DEF FileInv, StaysChosen
<1>14. m.manual => m.search # Absent
   BY <1>5, <1>7, <1>13 DEF Outcome
<1>15. m.search \in known'[a] \cup {Absent} /\ m.isrc \in known'[a] \cup {Absent}
   <2>1. m.isrc \in known[a] \cup {Absent}
     BY <1>5, <1>7, <1>11, <1>13 DEF Outcome
   <2>2. ASSUME ~w PROVE m.search \in known'[a] \cup {Absent}
     BY <1>5, <1>7, <1>8, <1>13, <2>2 DEF Outcome
   <2>3. ASSUME w PROVE m.search \in known'[a] \cup {Absent}
     BY <1>2, <1>5, <1>7, <1>8, <1>9, <1>10, <1>12, <1>13, <2>3 DEF Outcome, Change
   <2>4. QED
     BY <1>8, <2>1, <2>2, <2>3
<1>16. (m.search = Raw => 1 \in known'[a]) /\ (m.search = Miss => empty[a])
   <2>1. CASE ~w
     BY <1>5, <1>7, <1>8, <1>12, <1>13, <2>1 DEF Outcome
   <2>2. CASE w
     BY <1>2, <1>7, <1>10, <1>12, <2>2 DEF Outcome, Change
   <2>3. QED
     BY <2>1, <2>2
<1>17. /\ chosen'[a] # Absent /\ ~withdrawn'[a] => m.manual /\ Norm(m.search) = Norm(chosen'[a])
       /\ chosen'[a] \in {Absent, Raw} \cup Found
   <2>1. CASE Person(s)
     <3>1. y.cache.search \in Found /\ y.cache.manual
       BY <1>9, <1>11, <2>1 DEF EditInv
     <3>2. QED
       BY <1>7, <1>8, <1>10, <1>12, <2>1, <3>1 DEF Outcome
   <2>2. CASE y.kind = "delete" /\ w
     BY <1>8, <1>9, <2>2
   <2>3. CASE ~Person(s) /\ ~(y.kind = "delete" /\ w)
     <3>1. chosen'[a] = chosen[a] /\ (w /\ Norm(chosen[a]) \in y.refused => withdrawn'[a])
           /\ (withdrawn[a] => withdrawn'[a])
       BY <1>8, <2>3
     <3>2. ASSUME chosen[a] # Absent, ~withdrawn'[a]
           PROVE  m.manual /\ Norm(m.search) = Norm(chosen[a])
       <4>1. /\ n.manual /\ n.search = f.search /\ Norm(n.search) = Norm(chosen[a])
             /\ w => Norm(n.search) \notin y.refused
         BY <1>5, <1>13, <3>1, <3>2
       <4>2. n.search \notin {Absent, Miss}
         BY <1>12, <1>13, <3>2, <4>1 DEF Norm
       <4>3. CASE ~w
         BY <1>7, <4>1, <4>3 DEF Outcome
       <4>4. CASE w
         <5>1. y.cache.search = 1 /\ n.search = Raw /\ y.cache.manual = n.manual
           BY <1>9, <1>10, <2>3, <4>1, <4>2, <4>4 DEF Change
         <5>2. QED
           BY <1>7, <1>12, <4>1, <4>4, <5>1 DEF Outcome
       <4>5. QED
         BY <4>3, <4>4
     <3>3. QED
       BY <1>13, <3>1, <3>2
   <2>4. QED
     BY <2>1, <2>2, <2>3
<1>18. f.excluded => m.excluded
   BY <1>5, <1>7, <1>11 DEF Outcome, LoadInv
<1>19. forgotten'[a] => m.search = Absent /\ (m.excluded \/ Siblings(a) = {})
   <2>1. CASE y.kind = "delete" /\ w
     <3>1. y.cache.search = Absent /\ (y.cache.excluded \/ Siblings(a) = {})
       BY <1>2, <1>11, <2>1 DEF EditInv
     <3>2. y.base.excluded => y.cache.excluded /\ n.excluded
       BY <1>2, <1>3, <1>5, <1>11 DEF LoadInv
     <3>3. QED
       BY <1>7, <2>1, <3>1, <3>2 DEF Outcome
   <2>2. CASE ~w
     BY <1>7, <1>8, <1>13, <1>18, <2>2 DEF Outcome
   <2>3. CASE y.kind # "delete" /\ w
     BY <1>7, <1>8, <1>9, <1>10, <1>12, <1>13, <1>18, <2>3 DEF Outcome, Change
   <2>4. QED
     BY <2>1, <2>2, <2>3
<1>20. Read(m).search = m.search
   BY <1>7, ReadFields DEF Outcome
<1>21. FileInv(a)'
   BY <1>8, <1>14, <1>15, <1>16, <1>17, <1>19, <1>20 DEF FileInv, StaysChosen, Siblings
<1>22. QED
   BY <1>3, <1>8, <1>18, <1>21

\* A save ends its session, and leaves the other accounts and sessions alone.
LEMMA SaveKeeps ==
  ASSUME CacheInv, NEW s \in Session, Save(s)
  PROVE  CacheInv'
<1>1. PICK y \in SessionRecord : y = session[s] /\ SessionInv(y) /\ y.kind # "none"
  BY DEF CacheInv, Typed, Save
<1>2. PICK a \in Account : a = y.of
  BY <1>1 DEF SessionInv
<1>3. PICK w \in BOOLEAN : w <=> Writes(s, Read(file[a]))
  OBVIOUS
<1>4. PICK m \in File : m = IF y.dirty THEN Merged(s) ELSE file[a]
  BY <1>1, MergedFields DEF CacheInv, Typed
<1>5. file' = [file EXCEPT ![a] = m]
  BY <1>1, <1>2, <1>4 DEF Save, CacheInv, Typed
<1>6. PICK v \in Entry : v = CASE Person(s) -> y.cache.search [] y.kind = "delete" /\ w -> Absent
                               [] OTHER -> chosen[a]
  <2>1. y.cache.search \in Entry /\ chosen[a] \in Entry /\ Absent \in Entry
    BY DEF CacheInv, Typed, SessionRecord, Record, Entry
  <2>2. QED
    BY <2>1
<1>7. PICK gone \in BOOLEAN : gone = CASE y.kind = "delete" /\ w -> TRUE
                                       [] Person(s) \/ (y.resolved /\ w) -> FALSE
                                       [] OTHER -> forgotten[a]
  <2>1. PICK was \in BOOLEAN : was = forgotten[a]
    BY DEF CacheInv, Typed
  <2>2. CASE y.kind = "delete" /\ w
    <3>1. ~Person(s) /\ ~y.resolved
      BY <1>1, <2>2 DEF Person, SessionInv, EditInv
    <3>2. QED
      BY <2>2, <3>1
  <2>3. CASE ~(y.kind = "delete" /\ w) /\ (Person(s) \/ (y.resolved /\ w))
    BY <2>3
  <2>4. CASE ~(y.kind = "delete" /\ w) /\ ~(Person(s) \/ (y.resolved /\ w))
    BY <2>1, <2>4
  <2>5. QED
    BY <2>2, <2>3, <2>4
<1>8. PICK off \in BOOLEAN :
         off = CASE Person(s) \/ (y.kind = "delete" /\ w) -> FALSE
                 [] OTHER -> withdrawn[a] \/ (w /\ Norm(chosen[a]) \in y.refused)
   <2>1. withdrawn[a] \in BOOLEAN
     BY DEF CacheInv, Typed
   <2>2. QED
     BY <2>1
<1>9. PICK ids \in SUBSET Entry :
        ids = IF Person(s) THEN known[a] \cup {y.cache.search} ELSE known[a]
  BY DEF CacheInv, Typed, SessionRecord, Record
<1>10. chosen' = [chosen EXCEPT ![a] = v] /\ forgotten' = [forgotten EXCEPT ![a] = gone]
      /\ withdrawn' = [withdrawn EXCEPT ![a] = off]
  BY <1>1, <1>2, <1>3, <1>6, <1>7, <1>8 DEF Save
<1>11. known' = [known EXCEPT ![a] = ids]
   BY <1>1, <1>2, <1>9 DEF Save, CacheInv, Typed
<1>12. PICK c \in SessionRecord : c = Closed
   BY ClosedFields
<1>13. /\ session' = [session EXCEPT ![s] = c] /\ UNCHANGED <<provider, throttled, empty>>
       /\ session' \in [Session -> SessionRecord] /\ session'[s] = Closed
       /\ \A u \in Session \ {s} : session'[u] = session[u]
   BY <1>12 DEF Save, CacheInv, Typed
<1>14. /\ file' \in [Account -> File] /\ chosen' \in [Account -> Entry]
       /\ forgotten' \in [Account -> BOOLEAN] /\ known' \in [Account -> SUBSET Entry]
       /\ withdrawn' \in [Account -> BOOLEAN]
       /\ \A b \in Account \ {a} : withdrawn'[b] = withdrawn[b]
       /\ \A b \in Account \ {a} : /\ file'[b] = file[b] /\ chosen'[b] = chosen[b]
                                   /\ forgotten'[b] = forgotten[b] /\ known'[b] = known[b]
       /\ known[a] \subseteq known'[a]
   BY <1>5, <1>9, <1>10, <1>11 DEF CacheInv, Typed
<1>15. Typed'
   BY <1>13, <1>14 DEF CacheInv, Typed
<1>16. FileInv(a)' /\ (file[a].excluded => file'[a].excluded)
   <2>1. CASE y.dirty
     BY <1>1, <1>2, <2>1, SavedFile
   <2>2. CASE ~y.dirty
     <3>1. y.kind \notin {"set", "choice", "delete"} /\ ~Person(s)
       BY <1>1, <2>2 DEF SessionInv, EditInv, Person
     <3>2. /\ file'[a] = file[a] /\ chosen'[a] = chosen[a] /\ (forgotten'[a] => forgotten[a])
           /\ withdrawn[a] => withdrawn'[a]
       BY <1>4, <1>5, <1>6, <1>7, <1>10, <1>8, <2>2, <3>1 DEF CacheInv, Typed
     <3>3. FileInv(a)
       BY DEF CacheInv
     <3>4. QED
       BY <1>13, <1>14, <3>2, <3>3 DEF FileInv, StaysChosen, Siblings
   <2>3. QED
     BY <2>1, <2>2
<1>17. ASSUME NEW b \in Account PROVE FileInv(b)'
   <2>1. CASE b = a
     BY <1>16, <2>1
   <2>2. CASE b # a
     BY <1>13, <1>14, <2>2 DEF CacheInv, FileInv, StaysChosen, Siblings
   <2>3. QED
     BY <2>1, <2>2
<1>18. Grows
   BY <1>13, <1>14, <1>16 DEF Grows
<1>19. ASSUME NEW u \in Session PROVE SessionInv(session[u])'
   <2>1. CASE u = s
     <3>1. session'[u] = Closed /\ Closed.kind = "none"
       BY <1>13, <2>1, ClosedFields
     <3>2. QED
       BY <3>1 DEF SessionInv
   <2>2. CASE u # s
     <3>1. PICK z \in SessionRecord : z = session[u] /\ SessionInv(z)
       BY DEF CacheInv, Typed
     <3>2. SessionInv(z)' /\ session'[u] = z
       BY <1>13, <1>18, <2>2, <3>1, OthersKeep
     <3>3. QED
       BY <3>2 DEF SessionInv, PassInv, EditInv, LoadInv
   <2>3. QED
     BY <2>1, <2>2
<1>20. QED
   BY <1>15, <1>17, <1>19 DEF CacheInv

-----------------------------------------------------------------------------
(* The invariant of the caches holds from the start and in every step. *)

\* An empty file, one with a link a person pasted, and one of an older version.
LEMMA InitHolds == Init => CacheInv
<1> SUFFICES ASSUME Init PROVE CacheInv
  OBVIOUS
<1>1. /\ Absent \in Entry /\ Miss \in Entry /\ Raw \in Entry /\ 1 \in Entry /\ 1 \in Found
      /\ Absent # Miss /\ Raw \notin {Absent, Miss} /\ 1 \notin {Absent, Miss, Raw} /\ Norm(Raw) = 1
      /\ \A v \in Entry : Norm(v) \in Entry
  BY CacheAssumption DEF Entry, Absent, Miss, Raw, Norm
<1>2. ASSUME NEW a \in Account
      PROVE  /\ file[a] \in File
             /\ file[a].manual => file[a].search = Raw
             /\ file[a].search \in {Absent, Raw, 1}
             /\ {file[a].search, Norm(file[a].search), file[a].isrc, Miss} \subseteq Entry
  <2>1. \/ file[a] = [search |-> Absent, manual |-> FALSE, excluded |-> FALSE, isrc |-> Absent,
                      old |-> FALSE]
        \/ file[a] = [search |-> Raw, manual |-> TRUE, excluded |-> FALSE, isrc |-> Miss,
                      old |-> FALSE]
        \/ file[a] = [search |-> 1, manual |-> FALSE, excluded |-> FALSE, isrc |-> 1, old |-> TRUE]
    BY DEF Init
  <2>2. file[a] \in File
    <3>1. [search |-> Absent, manual |-> FALSE, excluded |-> FALSE, isrc |-> Absent, old |-> FALSE]
            \in File
      BY <1>1 DEF File
    <3>2. [search |-> Raw, manual |-> TRUE, excluded |-> FALSE, isrc |-> Miss, old |-> FALSE] \in File
      BY <1>1 DEF File
    <3>3. [search |-> 1, manual |-> FALSE, excluded |-> FALSE, isrc |-> 1, old |-> TRUE] \in File
      BY <1>1 DEF File
    <3>4. QED
      BY <2>1, <3>1, <3>2, <3>3
  <2>3. QED
    BY <1>1, <2>1, <2>2
<1>3. file \in [Account -> File]
  <2>1. file = [a \in Account |-> file[a]]
    BY DEF Init
  <2>2. QED
    BY <1>2, <2>1
<1>4. /\ session \in [Session -> SessionRecord] /\ \A s \in Session : session[s] = Closed
      /\ forgotten \in [Account -> BOOLEAN] /\ empty \in [Account -> BOOLEAN]
      /\ \A a \in Account : ~forgotten[a]
      /\ withdrawn \in [Account -> BOOLEAN]
      /\ provider \in Provider /\ throttled = FALSE
  BY ClosedFields DEF Init
<1>5. /\ known \in [Account -> SUBSET Entry]
      /\ \A a \in Account : known[a] = {file[a].search, Norm(file[a].search), file[a].isrc, Miss}
  BY <1>2 DEF Init
<1>6. /\ chosen \in [Account -> Entry]
      /\ \A a \in Account : chosen[a] = IF file[a].manual THEN file[a].search ELSE Absent
  BY <1>1, <1>2 DEF Init
<1>7. Typed
  BY <1>3, <1>4, <1>5, <1>6 DEF Typed
<1>8. ASSUME NEW a \in Account PROVE FileInv(a)
  BY <1>1, <1>2, <1>4, <1>5, <1>6 DEF FileInv, StaysChosen
<1>9. ASSUME NEW s \in Session PROVE SessionInv(session[s])
  BY <1>4, ClosedFields DEF SessionInv
<1>10. QED
   BY <1>7, <1>8, <1>9 DEF CacheInv

\* Every step keeps the invariant.
LEMMA StepKeeps == CacheInv /\ [Next]_vars => CacheInv'
<1> SUFFICES ASSUME CacheInv, [Next]_vars PROVE CacheInv'
  OBVIOUS
<1>1. CASE UNCHANGED vars
  <2>1. UNCHANGED <<provider, file, session, throttled, known, chosen, forgotten, withdrawn, empty>>
    BY <1>1 DEF vars, history
  <2>2. ASSUME NEW a \in Account PROVE FileInv(a)'
    BY <2>1 DEF CacheInv, FileInv, StaysChosen, Read, Siblings
  <2>3. ASSUME NEW s \in Session PROVE SessionInv(session[s])'
    BY <2>1 DEF CacheInv, SessionInv, PassInv, EditInv, LoadInv, Siblings
  <2>4. QED
    BY <2>1, <2>2, <2>3 DEF CacheInv, Typed
<1>2. CASE Next
  <2>1. PICK s \in Session :
          \/ \E a \in Account : \/ \E k \in Kind : Load(s, a, k)
                                \/ \E v \in Found : Set(s, a, v) \/ Choose(s, a, v)
                                \/ Delete(s, a) \/ ClearUnmatched(s, a)
          \/ Normalise(s) \/ Resolve(s) \/ ResolveBroken(s) \/ Throttle(s) \/ Prefetch(s)
          \/ Repair(s) \/ Evict(s)
          \/ Save(s) \/ Abandon(s)
    BY <1>2 DEF Next
  <2>2. ASSUME NEW a \in Account, NEW k \in Kind, Load(s, a, k) PROVE CacheInv'
    BY <2>2, LoadKeeps
  <2>3. ASSUME NEW a \in Account, NEW v \in Found, Set(s, a, v) \/ Choose(s, a, v) PROVE CacheInv'
    BY <2>3, SetKeeps
  <2>4. ASSUME NEW a \in Account, Delete(s, a) PROVE CacheInv'
    BY <2>4, DeleteKeeps
  <2>5. ASSUME NEW a \in Account, ClearUnmatched(s, a) PROVE CacheInv'
    BY <2>5, ClearKeeps
  <2>6. CASE Normalise(s) \/ Prefetch(s)
    BY <2>6, NotesKeep
  <2>7. CASE Resolve(s) \/ ResolveBroken(s)
    BY <2>7, ResolveKeeps
  <2>8. CASE Throttle(s)
    <3>1. PICK y \in SessionRecord : y = session[s] /\ SessionInv(y)
      BY DEF CacheInv, Typed
    <3>2. /\ UNCHANGED <<provider, file, session, known, chosen, forgotten, withdrawn, empty>>
          /\ throttled' = TRUE /\ provider = "apple"
      BY <2>8 DEF Throttle, history
    <3>3. session' = [session EXCEPT ![s] = y] /\ Grows
      BY <3>1, <3>2 DEF CacheInv, Typed, Grows
    <3>4. SessionInv(y)'
      BY <3>1, <3>3, OthersKeep
    <3>5. QED
      BY <3>2, <3>3, <3>4, SessionKeeps DEF CacheInv, Typed
  <2>9. CASE Save(s)
    BY <2>9, SaveKeeps
  <2>10. CASE Abandon(s)
    <3>1. PICK c \in SessionRecord : c = Closed /\ SessionInv(c)'
      BY ClosedFields, ClosedSession
    <3>2. /\ UNCHANGED <<provider, file, throttled, history>>
          /\ session' = [session EXCEPT ![s] = c]
      BY <2>10, <3>1 DEF Abandon
    <3>3. QED
      BY <3>1, <3>2, SessionKeeps DEF CacheInv, Typed, history
  <2>11. CASE Repair(s)
     BY <2>11, RepairKeeps
  <2>12. CASE Evict(s)
     BY <2>12, EvictKeeps
  <2>13. QED
     BY <2>1, <2>2, <2>3, <2>4, <2>5, <2>6, <2>7, <2>8, <2>9, <2>10, <2>11, <2>12
<1>3. QED
  BY <1>1, <1>2

\* CacheInv holds in every state.
LEMMA Invariant == Spec => []CacheInv
  BY InitHolds, StepKeeps, PTL DEF Spec

-----------------------------------------------------------------------------
(* What follows of the caches. *)

\* What a person chose is the entry of the account until a person decides anew or a session
\* that Apple refused to add that very id replaces or drops it; and what a person forgot is
\* not brought back by a stale copy or a sibling, until a person decides anew or a search of
\* this account finds it: save_cache merges under whatever else was saved meanwhile.
THEOREM PersonDecidesHolds == Spec => []PersonDecides
<1>1. ASSUME CacheInv PROVE ManualKept
  BY <1>1 DEF CacheInv, FileInv, ManualKept
<1>2. ASSUME CacheInv, NEW a \in Account, forgotten[a] PROVE Effective(a).search = Absent
  <2>1. PICK f \in Record : f = Read(file[a])
    BY <1>2, ReadFields DEF CacheInv, Typed
  <2>2. f.search = Absent /\ (f.excluded \/ Siblings(a) = {})
    BY <1>2, <2>1, ReadFields DEF CacheInv, Typed, FileInv
  <2>3. Siblings(a) = {} => Cardinality(SiblingIds(a)) = 0
    <3>1. Siblings(a) = {} => SiblingIds(a) = {}
      BY DEF SiblingIds
    <3>2. QED
      BY <3>1, FS_EmptySet
  <2>4. ~(f.search \in {Absent, Miss} /\ ~f.manual /\ ~f.excluded /\ Cardinality(SiblingIds(a)) = 1)
    BY <2>2, <2>3
  <2>5. \A v : [f EXCEPT !.isrc = v].search = f.search
    BY DEF Record
  <2>6. QED
    BY <2>1, <2>2, <2>4, <2>5 DEF Effective, Inherit
<1>3. CacheInv => PersonDecides
  BY <1>1, <1>2 DEF PersonDecides, StaysForgotten
<1>4. QED
  BY <1>3, Invariant, PTL

\* A file holds only what searches of its own account found and people chose, and a miss
\* only where the search of that account came back empty: neither what siblings know nor
\* a throttled search is ever written down as a result.
THEOREM EvidenceIsOwnHolds == Spec => []EvidenceIsOwn
<1>1. ASSUME CacheInv PROVE TypeOK
  <2>1. ASSUME NEW s \in Session
        PROVE  /\ session[s].kind \in Kind \cup {"none"}
               /\ {session[s].cache, session[s].base, session[s].local} \subseteq Record
    <3>1. PICK y \in SessionRecord : y = session[s]
      BY <1>1 DEF CacheInv, Typed
    <3>2. y.kind \in Kind \cup {"none"} /\ y.cache \in Record /\ y.base \in Record /\ y.local \in Record
      BY DEF SessionRecord
    <3>3. QED
      BY <3>1, <3>2
  <2>2. QED
    BY <1>1, <2>1 DEF CacheInv, Typed, FileInv, TypeOK
<1>2. ASSUME CacheInv PROVE OwnEvidence /\ MissIsReal
  BY <1>2 DEF CacheInv, FileInv, OwnEvidence, MissIsReal
<1>3. CacheInv => EvidenceIsOwn
  BY <1>1, <1>2 DEF EvidenceIsOwn
<1>4. QED
  BY <1>3, Invariant, PTL

-----------------------------------------------------------------------------
(* The inductive invariant of the names of an N-way pass: what was learned  *)
(* outlives the read it was learned from.                                   *)

Reading == [id : Hard \cup {None}, key : Key, clash : BOOLEAN]
Seen == UNION {[S -> Reading] : S \in SUBSET Track}
Naming == UNION {[S -> Cid] : S \in SUBSET Track}
Standing == UNION {[C -> Track] : C \in SUBSET Cid}
PassRecord ==
  [of : Playlist, seen : Seen, own : Naming, name : Naming, repr : Standing, disputed : SUBSET Cid,
   untrusted : SUBSET Peer, before : [Peer -> SUBSET Cid], awaited : [Peer -> SUBSET Cid],
   left : SUBSET Peer, blocked : BOOLEAN, gone : [Peer -> SUBSET Cid]]

\* A name that was learned stays on record, and a track that has one keeps one.
MemoryKnown == \A t \in Track :
  /\ memory[t] # None => memory[t] \in past[t]
  /\ past[t] # {} => memory[t] # None

\* What a track was called at a recorded baseline was learned.
BoreKnown == \A l \in Playlist : \A e \in bore[l] : e[2] \in Hard => e[2] \in past[e[1]]

\* The names of a pass: those that its peers earned are learned, and none is missing that an
\* undisputed entry of the read bore.
PassKnown == pass # Idle =>
  /\ pass \in PassRecord
  /\ DOMAIN pass.name = DOMAIN pass.seen
  /\ \A t \in DOMAIN pass.own :
       pass.own[t] \in Hard /\ PeerOf[t] \notin pass.untrusted => pass.own[t] \in past[t]
  /\ \A p \in Peer : \A c \in Missing(p) \cap Hard : \A t \in On(p) \cap DOMAIN pass.own :
       pass.own[t] \notin pass.disputed => <<t, c>> \notin bore[pass.of]

NamesInv == IdentityTypeOK /\ MemoryKnown /\ BoreKnown /\ PassKnown

-----------------------------------------------------------------------------
(* Names. *)

\* None is no name, and the least of some names is one of them.
LEMMA CidsAreNat == Cid \subseteq Nat /\ None \notin Cid
  BY IdentityAssumption

LEMMA LeastName ==
  ASSUME NEW S, S \subseteq Cid, S # {}
  PROVE  Min(S) \in S
<1>1. S \subseteq Nat
  BY CidsAreNat
<1>2. PICK x \in S : \A y \in S : ~(<<y, x>> \in OpToRel(<, Nat))
  BY <1>1, NatLessThanWellFounded, WFMin
<1>3. \A y \in S : ~(y < x)
  BY <1>1, <1>2 DEF OpToRel
<1>4. \A y \in S : x =< y
  BY <1>1, <1>3
<1>5. QED
  BY <1>4 DEF Min

\* What a pass shows of a track.
LEMMA SeenFields ==
  ASSUME NEW seen \in Seen, NEW t \in DOMAIN seen
  PROVE  t \in Track /\ seen[t].id \in Hard \cup {None} /\ seen[t].key \in Key /\ seen[t].clash \in BOOLEAN
  BY DEF Seen, Reading

\* Every entry has a name.
LEMMA NamedIsName ==
  ASSUME IdentityTypeOK, NEW seen \in Seen, NEW t \in DOMAIN seen
  PROVE  /\ Named(seen, t) \in Cid /\ Link(seen, t) \in Spotify \cup {None}
         /\ memory[t] \in Hard \cup {None} /\ Learned(seen, t) \in Hard \cup {None}
         /\ memory[t] # None => Learned(seen, t) # None
<1>1. t \in Track /\ seen[t].id \in Hard \cup {None} /\ seen[t].key \in Key
  BY SeenFields
<1>2. memory[t] \in Hard \cup {None}
  BY <1>1 DEF IdentityTypeOK
<1>3. Link(seen, t) \in Spotify \cup {None}
  BY DEF Link
<1>4. Inferred(seen, t) # None => Inferred(seen, t) \in Cid
  <2>1. Inferable(seen, t) \subseteq Isrc
    BY DEF Inferable, Direct
  <2>2. Cardinality(Inferable(seen, t)) = 1 => Inferable(seen, t) # {}
    BY FS_EmptySet
  <2>3. QED
    BY <2>1, <2>2 DEF Inferred, Cid, Hard
<1>5. Claim(seen, t) \in Cid
  <2>1. CASE Direct(seen, t)
    BY <2>1 DEF Claim, Direct, Cid, Hard
  <2>2. CASE ~Direct(seen, t) /\ Link(seen, t) # None
    <3>1. Claim(seen, t) = IF proven[Link(seen, t)] # None THEN proven[Link(seen, t)] ELSE Link(seen, t)
      BY <2>2 DEF Claim
    <3>2. proven[Link(seen, t)] \in Isrc \cup {None} /\ Link(seen, t) \in Spotify
      BY <1>3, <2>2 DEF IdentityTypeOK
    <3>3. QED
      BY <3>1, <3>2 DEF Cid, Hard
  <2>3. CASE ~Direct(seen, t) /\ Link(seen, t) = None
    <3>1. Claim(seen, t) = IF Inferred(seen, t) # None THEN Inferred(seen, t) ELSE seen[t].key
      BY <2>3 DEF Claim
    <3>2. QED
      BY <1>1, <1>4, <3>1 DEF Cid
  <2>4. QED
    BY <2>1, <2>2, <2>3
<1>6. Named(seen, t) \in Cid
  BY <1>2, <1>5 DEF Named, Sticks, Cid
<1>7. Learned(seen, t) \in Hard \cup {None}
  BY <1>2 DEF Learned
<1>8. memory[t] # None => Learned(seen, t) # None
  BY <1>6, CidsAreNat DEF Learned
<1>9. QED
  BY <1>2, <1>3, <1>6, <1>7, <1>8

\* A name an entry was given before it gave up for the one it has.
LEMMA OldNamesAreGivenUp ==
  ASSUME IdentityTypeOK, MemoryKnown, NEW seen \in Seen, NEW t \in DOMAIN seen,
         ~Conflicts(seen, t), NEW c \in past[t], Named(seen, t) # c
  PROVE  c \in GaveUp(seen, t)
<1>1. t \in Track /\ memory[t] # None /\ memory[t] \in Hard
  <2>1. t \in Track
    BY SeenFields
  <2>2. QED
    BY <2>1, NamedIsName DEF MemoryKnown
<1>2. Named(seen, t) \in Hard /\ (Trusted(seen, t) \/ Named(seen, t) = memory[t])
  <2>1. CASE Sticks(seen, t)
    BY <1>1, <2>1 DEF Named
  <2>2. CASE ~Sticks(seen, t)
    <3>1. Claim(seen, t) \notin Key /\ Trusted(seen, t) /\ Named(seen, t) = Claim(seen, t)
      BY <1>1, <2>2 DEF Sticks, Named
    <3>2. QED
      BY <3>1, NamedIsName DEF Cid
  <2>3. QED
    BY <2>1, <2>2
<1>3. QED
  BY <1>2 DEF GaveUp

\* Proof keeps its name when the keys of a pass are folded, and folding gives a name.
LEMMA FoldedNames ==
  ASSUME IdentityTypeOK, NEW seen \in Seen, NEW c \in Cid
  PROVE  Fold(seen, c) \in Cid /\ (c \in Hard => Fold(seen, c) = c)
<1>1. PICK equal : equal = {h \in Names(seen) \cap Hard : KeysOf(seen, h) \cap KeysOf(seen, c) # {}}
  OBVIOUS
<1>2. PICK similar : similar = {h \in Names(seen) \cap Hard : Alikes(seen, c, h)}
  OBVIOUS
<1>3. PICK softer : softer = {k \in Names(seen) \cap Key : /\ k < c /\ Alikes(seen, c, k)
                                             /\ ~\E h \in Names(seen) \cap Hard : Alikes(seen, k, h)}
  OBVIOUS
<1>4. equal \subseteq Cid /\ similar \subseteq Cid /\ softer \subseteq Cid
  BY <1>1, <1>2, <1>3 DEF Cid
<1>5. Fold(seen, c) = IF c \in Hard \/ c \notin Names(seen) THEN c
                      ELSE IF equal # {} THEN Min(equal)
                      ELSE IF similar # {} THEN Min(similar)
                      ELSE IF softer # {} THEN Min(softer) ELSE c
  BY <1>1, <1>2, <1>3 DEF Fold
<1>6. /\ equal # {} => Min(equal) \in Cid
      /\ similar # {} => Min(similar) \in Cid
      /\ softer # {} => Min(softer) \in Cid
  BY <1>4, LeastName
<1>7. QED
  BY <1>5, <1>6

-----------------------------------------------------------------------------
(* What is missing. *)

\* The current names and the repaired baseline of a peer are names.
LEMMA NamesOfPass ==
  ASSUME IdentityTypeOK, NEW seen \in Seen, NEW l \in Playlist, NEW p \in Peer
  PROVE  /\ \A t \in DOMAIN seen : Final(seen, t) \in Cid
         /\ Current(seen, p) \subseteq Cid /\ Disputed(seen) \subseteq Cid
         /\ Before(l, p, seen) \subseteq Cid /\ Repaired(l, p, seen) \subseteq Cid
<1>1. \A t \in DOMAIN seen : Named(seen, t) \in Cid /\ Final(seen, t) \in Cid
  BY NamedIsName, FoldedNames DEF Final
<1>2. base[l][p] \subseteq Cid
  BY DEF IdentityTypeOK
<1>3. Before(l, p, seen) \subseteq Cid
  BY <1>2, FoldedNames DEF Before
<1>4. \A old : NewNames(p, seen, old) \subseteq Cid
  BY <1>1 DEF NewNames
<1>5. Repaired(l, p, seen) \subseteq Cid
  BY <1>3, <1>4 DEF Repaired
<1>6. QED
  BY <1>1, <1>3, <1>5 DEF Current, Disputed

\* A name that an entry gave up is not missing from a read that is trusted: the baseline
\* follows the entry.
LEMMA GivenUpIsNotMissing ==
  ASSUME IdentityTypeOK, NEW l \in Playlist, NEW seen \in Seen, NEW p \in Peer,
         p \notin Untrusted(l, seen), ready[l][p],
         NEW t \in Sound(seen), PeerOf[t] = p, NEW c \in GaveUp(seen, t), c \in Hard,
         Named(seen, t) \notin Disputed(seen)
  PROVE  c \notin Repaired(l, p, seen) \ (Current(seen, p) \cup Disputed(seen))
<1> SUFFICES ASSUME c \in Repaired(l, p, seen), c \notin Current(seen, p), c \notin Disputed(seen)
             PROVE  FALSE
  OBVIOUS
<1>1. t \in DOMAIN seen \cap Tracks(p)
  BY SeenFields DEF Sound, Tracks
<1>2. Named(seen, t) \in NewNames(p, seen, c)
  BY <1>1 DEF NewNames
<1>3. PICK old \in Before(l, p, seen) :
        c \in IF Moves(l, p, seen, old) THEN NewNames(p, seen, old) ELSE {old}
  BY DEF Repaired
<1>4. CASE Moves(l, p, seen, old)
  <2>1. PICK u \in DOMAIN seen \cap Tracks(p) : c = Named(seen, u)
    BY <1>3, <1>4 DEF NewNames
  <2>2. Final(seen, u) = c
    BY <2>1, FoldedNames DEF Final, Cid
  <2>3. QED
    BY <2>1, <2>2 DEF Current
<1>5. CASE ~Moves(l, p, seen, old)
  <2>1. old = c /\ c \in Retired(l, p, seen) \ Disputed(seen)
    BY <1>3, <1>5 DEF Retired
  <2>2. ~(Cardinality(NewNames(p, seen, c)) > 1)
    BY <2>1 DEF Untrusted, Split
  <2>3. IsFiniteSet(NewNames(p, seen, c))
    <3>1. PICK S : S = {u \in DOMAIN seen \cap Tracks(p) : c \in GaveUp(seen, u)}
      OBVIOUS
    <3>2. S \subseteq Track
      BY <3>1 DEF Tracks
    <3>3. IsFiniteSet(S)
      BY <3>2, IdentityAssumption, FS_Subset
    <3>4. NewNames(p, seen, c) = {Named(seen, u) : u \in S}
      BY <3>1 DEF NewNames
    <3>5. PICK f : f = [u \in S |-> Named(seen, u)]
      OBVIOUS
    <3>6. f \in Surjection(S, NewNames(p, seen, c))
      BY <3>4, <3>5 DEF Surjection
    <3>7. QED
      BY <3>3, <3>6, FS_Surjection
  <2>4. Cardinality(NewNames(p, seen, c)) = 1
    <3>1. Cardinality(NewNames(p, seen, c)) \in Nat
      BY <2>3, FS_CardinalityType
    <3>2. Cardinality(NewNames(p, seen, c)) # 0
      BY <1>2, <2>3, FS_EmptySet
    <3>3. QED
      BY <2>2, <3>1, <3>2
  <2>5. NewNames(p, seen, c) = {Named(seen, t)}
    BY <1>2, <2>3, <2>4, FS_Singleton
  <2>6. Moves(l, p, seen, c)
    BY <2>1, <2>4, <2>5 DEF Moves
  <2>7. QED
    BY <1>5, <2>1, <2>6
<1>6. QED
  BY <1>4, <1>5

-----------------------------------------------------------------------------
(* Steps. *)

\* What may be read.
LEMMA ReadingsAreSeen ==
  ASSUME IdentityTypeOK, NEW l \in Playlist, NEW seen \in Readings(l)
  PROVE  seen \in Seen
<1>1. PICK as \in [on[l] -> Aspect] : seen = [t \in on[l] |-> Shows[t][as[t]]]
  BY DEF Readings
<1>2. on[l] \subseteq Track
  BY DEF IdentityTypeOK
<1>3. \A t \in on[l] : Shows[t][as[t]] \in Reading
  BY <1>2, IdentityAssumption DEF Reading
<1>4. seen \in [on[l] -> Reading]
  BY <1>1, <1>3
<1>5. QED
  BY <1>2, <1>4 DEF Seen

\* Recognising earns names, moves baselines along with them and starts the pass.
LEMMA RecogniseKeeps ==
  ASSUME NamesInv, NEW l \in Playlist, NEW seen \in Readings(l), Recognise(l, seen)
  PROVE  NamesInv'
<1>1. IdentityTypeOK /\ MemoryKnown /\ BoreKnown /\ seen \in Seen
  BY ReadingsAreSeen DEF NamesInv
<1>2. PICK heard : heard = {t \in DOMAIN seen : PeerOf[t] \notin Untrusted(l, seen)}
  OBVIOUS
<1>3. PICK awaited : awaited = [p \in Peer |-> IF Repairs(l, p, seen)
                                              THEN pending[l][p] \cap Disputed(seen) ELSE pending[l][p]]
  OBVIOUS
<1>4. /\ memory' = [t \in Track |-> IF t \in heard THEN Learned(seen, t) ELSE memory[t]]
      /\ past' = [t \in Track |-> past[t] \cup ({memory'[t]} \ {None})]
      /\ base' = [base EXCEPT ![l] = [p \in Peer |->
           IF Repairs(l, p, seen) THEN Repaired(l, p, seen) ELSE base[l][p]]]
      /\ pending' = [pending EXCEPT ![l] = awaited]
      /\ UNCHANGED <<on, proven, ready, taken>>
  BY <1>2, <1>3 DEF Recognise
<1>5. bore' = [bore EXCEPT ![l] =
        {e \in bore[l] \cup {<<t, Named(seen, t)>> : t \in heard \cap Sound(seen)} :
           e[2] \in base'[l][PeerOf[e[1]]]}]
  BY <1>2 DEF Recognise
<1>6. /\ memory' \in [Track -> Hard \cup {None}] /\ past' \in [Track -> SUBSET Hard] /\ MemoryKnown'
      /\ \A t \in Track : past[t] \subseteq past'[t]
  <2>1. heard \subseteq DOMAIN seen /\ heard \subseteq Track
    BY <1>1, <1>2, SeenFields
  <2>2. ASSUME NEW t \in Track
        PROVE  /\ memory'[t] \in Hard \cup {None} /\ (memory[t] # None => memory'[t] # None)
               /\ past'[t] = past[t] \cup ({memory'[t]} \ {None}) /\ past[t] \in SUBSET Hard
    BY <1>1, <1>4, <2>1, NamedIsName DEF IdentityTypeOK
  <2>3. memory' = [t \in Track |-> memory'[t]] /\ past' = [t \in Track |-> past'[t]]
    BY <1>4
  <2>4. QED
    BY <1>1, <2>2, <2>3 DEF MemoryKnown
<1>7. base' \in [Playlist -> [Peer -> SUBSET Cid]] /\ pending' \in [Playlist -> [Peer -> SUBSET Cid]]
  <2>1. \A p \in Peer : Repaired(l, p, seen) \in SUBSET Cid /\ base[l][p] \in SUBSET Cid
    BY <1>1, NamesOfPass DEF IdentityTypeOK
  <2>2. awaited \in [Peer -> SUBSET Cid]
    BY <1>1, <1>3 DEF IdentityTypeOK
  <2>3. QED
    BY <1>1, <1>4, <2>1, <2>2 DEF IdentityTypeOK
<1>8. PICK new : new = {<<t, Named(seen, t)>> : t \in heard \cap Sound(seen)}
  OBVIOUS
<1>9. \A e \in new : /\ e \in Track \X Cid /\ (e[2] \in Hard => e[2] \in past'[e[1]])
                     /\ e[1] \in Sound(seen) /\ e[2] = Named(seen, e[1])
  <2>1. ASSUME NEW t \in heard \cap Sound(seen)
        PROVE  t \in Track /\ Named(seen, t) \in Cid /\ (Named(seen, t) \in Hard => Named(seen, t) \in past'[t])
    <3>1. t \in Track /\ Named(seen, t) \in Cid
      BY <1>1, <1>2, SeenFields, NamedIsName
    <3>2. Named(seen, t) \in Hard => memory'[t] = Named(seen, t) /\ memory'[t] # None
      BY <1>4, <3>1, CidsAreNat DEF Learned, Sound
    <3>3. QED
      BY <1>4, <3>1, <3>2
  <2>2. QED
    BY <1>8, <2>1
<1>10. \A m \in Playlist : \A e \in bore'[m] : e \in bore[m] \/ (m = l /\ e \in new)
   BY <1>1, <1>5, <1>8 DEF IdentityTypeOK
<1>11. (\A m \in Playlist : bore'[m] \subseteq Track \X Cid) /\ BoreKnown'
   <2>1. \A m \in Playlist : \A e \in bore[m] :
           e \in Track \X Cid /\ (e[2] \in Hard => e[2] \in past[e[1]])
     BY <1>1 DEF IdentityTypeOK, BoreKnown
   <2>2. QED
     BY <1>6, <1>9, <1>10, <2>1 DEF BoreKnown
<1>12. PICK own \in Naming : own = [t \in Sound(seen) |-> Named(seen, t)]
   <2>1. Sound(seen) \subseteq DOMAIN seen /\ Sound(seen) \subseteq Track
     BY <1>1, SeenFields DEF Sound
   <2>2. [t \in Sound(seen) |-> Named(seen, t)] \in [Sound(seen) -> Cid]
     BY <1>1, <2>1, NamedIsName
   <2>3. QED
     BY <2>1, <2>2 DEF Naming
<1>13. PICK name \in Naming : name = [t \in DOMAIN seen |-> Final(seen, t)]
   <2>1. DOMAIN seen \subseteq Track
     BY <1>1, SeenFields
   <2>2. \A t \in DOMAIN seen : Final(seen, t) \in Cid
     BY <1>1, NamedIsName, FoldedNames DEF Final
   <2>3. [t \in DOMAIN seen |-> Final(seen, t)] \in [DOMAIN seen -> Cid]
     BY <2>2
   <2>4. QED
     BY <2>1, <2>3 DEF Naming
<1>14. PICK before \in [Peer -> SUBSET Cid] : before = [p \in Peer |-> Repaired(l, p, seen)]
   BY <1>1, NamesOfPass
<1>15. PICK missed \in [Peer -> SUBSET Cid] :
         missed = [p \in Peer |-> {Fold(seen, c) : c \in awaited[p]}]
   <2>1. awaited \in [Peer -> SUBSET Cid]
     BY <1>1, <1>3 DEF IdentityTypeOK
   <2>2. \A p \in Peer : {Fold(seen, c) : c \in awaited[p]} \in SUBSET Cid
     BY <1>1, <2>1, FoldedNames
   <2>3. QED
     BY <2>2
<1>16. PICK disputed \in SUBSET Cid : disputed = Disputed(seen)
   <2>1. \A t \in DOMAIN seen : Final(seen, t) \in Cid
     BY <1>1, NamedIsName, FoldedNames DEF Final
   <2>2. QED
     BY <2>1 DEF Disputed
<1>17. PICK doubted \in SUBSET Peer : doubted = Untrusted(l, seen)
   BY DEF Untrusted
<1>18. PICK gone \in [Peer -> SUBSET Cid] : gone = [p \in Peer |-> {}]
   OBVIOUS
<1>19. PICK repr \in Standing :
        pass' = [of |-> l, seen |-> seen, own |-> [t \in Sound(seen) |-> Named(seen, t)],
                 name |-> [t \in DOMAIN seen |-> Final(seen, t)], repr |-> repr,
                 disputed |-> Disputed(seen), untrusted |-> Untrusted(l, seen),
                 before |-> [p \in Peer |-> Repaired(l, p, seen)],
                 awaited |-> [p \in Peer |-> {Fold(seen, c) : c \in awaited[p]}],
                 left |-> Peer \ Untrusted(l, seen), blocked |-> FALSE, gone |-> [p \in Peer |-> {}]]
   <2>1. ASSUME NEW repr \in Representing(seen) PROVE repr \in Standing
     <3>1. PICK named : named = {Final(seen, t) : t \in Sound(seen)}
       OBVIOUS
     <3>2. Sound(seen) \subseteq DOMAIN seen /\ DOMAIN seen \subseteq Track
       BY <1>1, SeenFields DEF Sound
     <3>3. named \in SUBSET Cid
       BY <1>1, <3>1, <3>2, NamedIsName, FoldedNames DEF Final
     <3>4. repr \in [named -> Sound(seen)]
       BY <2>1, <3>1 DEF Representing
     <3>5. repr \in [named -> Track]
       BY <3>2, <3>4
     <3>6. QED
       BY <3>3, <3>5 DEF Standing
   <2>2. QED
     BY <1>3, <2>1 DEF Recognise
<1>20. pass' = [of |-> l, seen |-> seen, own |-> own, name |-> name, repr |-> repr, disputed |-> disputed,
                untrusted |-> doubted, before |-> before, awaited |-> missed,
                left |-> Peer \ doubted, blocked |-> FALSE, gone |-> gone]
   BY <1>19, <1>12, <1>13, <1>14, <1>15, <1>16, <1>17, <1>18
<1>21. /\ pass' \in PassRecord /\ pass'.of = l /\ pass'.seen = seen /\ pass'.own = own
       /\ pass'.name = name /\ pass'.disputed = disputed /\ pass'.untrusted = doubted
       /\ pass'.before = before /\ pass'.left = Peer \ doubted
   BY <1>1, <1>20 DEF PassRecord
<1>22. \A t \in DOMAIN own : own[t] \in Hard /\ PeerOf[t] \notin doubted => own[t] \in past'[t]
   <2>1. ASSUME NEW t \in Sound(seen), own[t] \in Hard, PeerOf[t] \notin doubted PROVE own[t] \in past'[t]
     <3>1. t \in heard /\ own[t] = Named(seen, t)
       BY <1>2, <1>12, <1>17, <2>1 DEF Sound
     <3>2. <<t, own[t]>> \in new
       BY <1>8, <3>1
     <3>3. QED
       BY <1>9, <2>1, <3>2
   <2>2. QED
     BY <1>12, <2>1
<1>23. ASSUME NEW p \in Peer, NEW c \in Missing(p)' \cap Hard, NEW t \in On(p)' \cap DOMAIN own,
              own[t] \notin disputed, <<t, c>> \in bore'[l]
       PROVE  FALSE
   <2>1. /\ p \notin Untrusted(l, seen) /\ ready[l][p]
         /\ c \in before[p] \ (Cur(p)' \cup disputed)
     BY <1>4, <1>17, <1>21, <1>23 DEF Missing, Known
   <2>2. t \in DOMAIN seen /\ PeerOf[t] = p /\ t \in Sound(seen) /\ own[t] = Named(seen, t)
     BY <1>12, <1>21, <1>23 DEF On
   <2>3. Cur(p)' = Current(seen, p)
     <3>1. Cur(p)' = {name[u] : u \in {u \in DOMAIN seen : PeerOf[u] = p}}
       BY <1>21 DEF Cur, On
     <3>2. DOMAIN seen \cap Tracks(p) = {u \in DOMAIN seen : PeerOf[u] = p}
       BY <1>1, SeenFields DEF Tracks
     <3>3. QED
       BY <1>13, <3>1, <3>2 DEF Current
   <2>4. c \in Repaired(l, p, seen) \ (Current(seen, p) \cup Disputed(seen))
     BY <1>14, <1>16, <2>1, <2>3
   <2>5. CASE c = Named(seen, t)
     <3>1. Final(seen, t) = c
       BY <1>1, <1>23, <2>5, FoldedNames DEF Final, Cid
     <3>2. t \in DOMAIN seen \cap Tracks(p)
       BY <1>1, <2>2, SeenFields DEF Tracks
     <3>3. QED
       BY <2>4, <3>1, <3>2 DEF Current
   <2>6. CASE c # Named(seen, t)
     <3>1. <<t, c>> \in bore[l]
       BY <1>9, <1>10, <1>23, <2>6
     <3>2. c \in past[t]
       BY <1>1, <1>23, <3>1 DEF BoreKnown
     <3>3. c \in GaveUp(seen, t)
       BY <1>1, <2>2, <2>6, <3>2, OldNamesAreGivenUp DEF Sound
     <3>4. Named(seen, t) \notin Disputed(seen)
       BY <1>16, <1>23, <2>2
     <3>5. QED
       BY <1>1, <1>23, <2>1, <2>2, <2>4, <3>3, <3>4, GivenUpIsNotMissing
   <2>7. QED
     BY <2>5, <2>6
<1>24. PassKnown'
   <2>1. DOMAIN name = DOMAIN seen
     BY <1>13
   <2>2. QED
     BY <1>21, <1>22, <1>23, <2>1 DEF PassKnown
<1>25. IdentityTypeOK'
   BY <1>1, <1>4, <1>6, <1>7, <1>11, <1>21 DEF IdentityTypeOK
<1>26. QED
   BY <1>6, <1>11, <1>24, <1>25 DEF NamesInv

\* What a pass goes by is of its names.
LEMMA PassNames ==
  ASSUME NamesInv, pass # Idle, NEW p \in Peer
  PROVE  /\ pass \in PassRecord /\ Cur(p) \subseteq Cid /\ Recorded(p) \subseteq Cid
         /\ Missing(p) \subseteq Cid /\ On(p) \subseteq Track
<1>1. PICK r \in PassRecord : r = pass
  BY DEF NamesInv, PassKnown
<1>2. DOMAIN r.name = DOMAIN r.seen /\ r.name \in Naming /\ r.seen \in Seen /\ r.before[p] \subseteq Cid
  BY <1>1 DEF NamesInv, PassKnown, PassRecord
<1>3. On(p) \subseteq DOMAIN r.seen /\ DOMAIN r.seen \subseteq Track
  BY <1>1, <1>2, SeenFields DEF On
<1>4. \A t \in DOMAIN r.name : r.name[t] \in Cid
  BY <1>2 DEF Naming
<1>5. Cur(p) \subseteq Cid
  BY <1>1, <1>2, <1>3, <1>4 DEF Cur
<1>6. QED
  BY <1>1, <1>2, <1>3, <1>5 DEF Recorded, Missing

\* Writing changes the playlist, and of the pass only who is left and what went.
LEMMA WriteKeeps ==
  ASSUME NamesInv, NEW p \in Peer, Write(p)
  PROVE  NamesInv'
<1>1. pass # Idle /\ UNCHANGED <<memory, past, proven, base, ready, pending, bore, taken>>
  BY DEF Write
<1>2. PICK r \in PassRecord : r = pass
  BY <1>1 DEF NamesInv, PassKnown
<1>3. PICK found \in [LookedUp(p) -> Track \cup {None}], first \in [Cur(p) -> On(p)] :
        \E claim \in Claims(p, first) :
          /\ on' = [on EXCEPT ![pass.of] =
               (@ \cup ({found[c] : c \in LookedUp(p)} \ ({None} \cup On(p))))
                 \ {first[c] : c \in Going(p, found, claim)}]
          /\ pass' = [pass EXCEPT !.left = @ \ {p}, !.blocked = @ \/ Blocks(p, found, claim),
                                  !.gone[p] = Going(p, found, claim)]
  BY DEF Write
<1>4. PICK claim \in Claims(p, first) :
        /\ on' = [on EXCEPT ![pass.of] =
             (@ \cup ({found[c] : c \in LookedUp(p)} \ ({None} \cup On(p))))
               \ {first[c] : c \in Going(p, found, claim)}]
        /\ pass' = [pass EXCEPT !.left = @ \ {p}, !.blocked = @ \/ Blocks(p, found, claim),
                                !.gone[p] = Going(p, found, claim)]
  BY <1>3
<1>5. Going(p, found, claim) \in SUBSET Cid
  BY <1>1, PassNames DEF Going
<1>6. PICK left \in SUBSET Peer : left = r.left \ {p}
  BY DEF PassRecord
<1>7. PICK blocked \in BOOLEAN : blocked = (r.blocked \/ Blocks(p, found, claim))
  OBVIOUS
<1>8. PICK gone \in [Peer -> SUBSET Cid] : gone = [r.gone EXCEPT ![p] = Going(p, found, claim)]
  BY <1>5 DEF PassRecord
<1>9. PICK w \in PassRecord : w = [r EXCEPT !.left = left, !.blocked = blocked, !.gone = gone]
  BY DEF PassRecord
<1>10. /\ w.of = r.of /\ w.seen = r.seen /\ w.own = r.own /\ w.name = r.name
      /\ w.disputed = r.disputed /\ w.untrusted = r.untrusted /\ w.before = r.before
  BY <1>9 DEF PassRecord
<1>11. pass' = w
   BY <1>2, <1>4, <1>6, <1>7, <1>8, <1>9 DEF PassRecord
<1>12. on' \in [Playlist -> SUBSET Track]
   <2>1. \A c \in LookedUp(p) : found[c] \in Track \cup {None}
     OBVIOUS
   <2>2. {found[c] : c \in LookedUp(p)} \ ({None} \cup On(p)) \subseteq Track
     BY <2>1
   <2>3. on \in [Playlist -> SUBSET Track]
     BY DEF NamesInv, IdentityTypeOK
   <2>4. QED
     BY <1>4, <2>2, <2>3
<1>13. \A q \in Peer : Missing(q)' = Missing(q) /\ On(q)' = On(q)
   <2>1. /\ pass'.of = pass.of /\ pass'.seen = pass.seen /\ pass'.name = pass.name
         /\ pass'.disputed = pass.disputed /\ pass'.untrusted = pass.untrusted
         /\ pass'.before = pass.before
     BY <1>2, <1>10, <1>11
   <2>2. \A q \in Peer : On(q)' = On(q)
     BY <2>1 DEF On
   <2>3. \A q \in Peer : Cur(q)' = Cur(q)
     BY <2>1, <2>2 DEF Cur
   <2>4. Known' = Known
     BY <1>1, <2>1 DEF Known
   <2>5. QED
     BY <2>1, <2>2, <2>3, <2>4 DEF Missing
<1>14. PassKnown'
   BY <1>1, <1>2, <1>10, <1>11, <1>13 DEF NamesInv, PassKnown
<1>15. IdentityTypeOK'
   BY <1>1, <1>11, <1>12 DEF NamesInv, IdentityTypeOK, PassRecord
<1>16. QED
   BY <1>1, <1>14, <1>15 DEF NamesInv, MemoryKnown, BoreKnown

\* What is recorded is what the pass went by.
LEMMA CommitKeeps ==
  ASSUME NamesInv, Commit
  PROVE  NamesInv'
<1>1. PICK r \in PassRecord : r = pass /\ pass # Idle
  BY DEF NamesInv, PassKnown, Commit
<1>2. r.of \in Playlist /\ r.own \in Naming /\ r.gone \in [Peer -> SUBSET Cid]
  BY DEF PassRecord
<1>3. /\ pass' = Idle /\ UNCHANGED <<on, memory, past, proven, taken>>
  BY DEF Commit
<1>4. IdentityTypeOK
  BY DEF NamesInv
<1>5. \A p \in Peer : Records(p) \in SUBSET Cid /\ Awaits(p) \in SUBSET Cid
  <2>1. ASSUME NEW p \in Peer PROVE Records(p) \in SUBSET Cid /\ Awaits(p) \in SUBSET Cid
    <3>1. /\ Cur(p) \subseteq Cid /\ Recorded(p) \subseteq Cid /\ Missing(p) \subseteq Cid
          /\ pending[pass.of][p] \subseteq Cid /\ pass.gone[p] \subseteq Cid
      BY <1>1, <1>2, <1>4, PassNames DEF IdentityTypeOK
    <3>2. QED
      BY <3>1 DEF Records, Awaits, Kept
  <2>2. QED
    BY <2>1
<1>6. CASE pass.untrusted # {}
  BY <1>3, <1>6 DEF Commit, NamesInv, IdentityTypeOK, MemoryKnown, BoreKnown, PassKnown
<1>7. CASE pass.untrusted = {}
  <2>1. /\ base' = [base EXCEPT ![r.of] = [p \in Peer |-> Records(p)]]
        /\ pending' = [pending EXCEPT ![r.of] = [p \in Peer |-> Awaits(p)]]
        /\ ready' = [ready EXCEPT ![r.of] = [p \in Peer |-> TRUE]]
        /\ bore' = [bore EXCEPT ![r.of] =
             (IF Freezes THEN @ ELSE {}) \cup {<<t, r.own[t]>> : t \in DOMAIN r.own}]
    BY <1>1, <1>7 DEF Commit
  <2>2. PICK new : new = {<<t, r.own[t]>> : t \in DOMAIN r.own}
    OBVIOUS
  <2>3. \A e \in new : e \in Track \X Cid /\ (e[2] \in Hard => e[2] \in past[e[1]])
    <3>1. ASSUME NEW t \in DOMAIN r.own
          PROVE  t \in Track /\ r.own[t] \in Cid /\ (r.own[t] \in Hard => r.own[t] \in past[t])
      BY <1>1, <1>2, <1>7 DEF NamesInv, PassKnown, Naming
    <3>2. QED
      BY <2>2, <3>1
  <2>4. \A m \in Playlist : \A e \in bore'[m] : e \in bore[m] \/ e \in new
    BY <1>2, <1>4, <2>1, <2>2 DEF IdentityTypeOK
  <2>5. (\A m \in Playlist : bore'[m] \subseteq Track \X Cid) /\ BoreKnown'
    <3>1. \A m \in Playlist : \A e \in bore[m] :
            e \in Track \X Cid /\ (e[2] \in Hard => e[2] \in past[e[1]])
      BY DEF NamesInv, IdentityTypeOK, BoreKnown
    <3>2. QED
      BY <1>3, <2>3, <2>4, <3>1 DEF BoreKnown
  <2>6. /\ base' \in [Playlist -> [Peer -> SUBSET Cid]] /\ pending' \in [Playlist -> [Peer -> SUBSET Cid]]
        /\ ready' \in [Playlist -> [Peer -> BOOLEAN]]
    BY <1>4, <1>5, <2>1 DEF IdentityTypeOK
  <2>7. IdentityTypeOK'
    BY <1>3, <1>4, <2>5, <2>6 DEF IdentityTypeOK
  <2>8. QED
    BY <1>3, <2>5, <2>7 DEF NamesInv, MemoryKnown, PassKnown
<1>8. QED
  BY <1>6, <1>7

\* Between passes people edit playlists, and the archive learns.
LEMMA WorldKeeps ==
  ASSUME NamesInv,
         Interrupt \/ (\E l \in Playlist, t \in Track : Take(l, t) \/ Put(l, t))
           \/ \E s \in Spotify : Prove(s)
  PROVE  NamesInv'
<1>1. /\ UNCHANGED <<memory, past, base, ready, pending, bore>> /\ pass' = Idle
      /\ on' \in [Playlist -> SUBSET Track]
      /\ proven' \in [Spotify -> Isrc \cup {None}]
  <2>1. on \in [Playlist -> SUBSET Track] /\ proven \in [Spotify -> Isrc \cup {None}]
    BY DEF NamesInv, IdentityTypeOK
  <2>2. CASE Interrupt
    BY <2>1, <2>2 DEF Interrupt
  <2>3. CASE \E l \in Playlist, t \in Track : Take(l, t) \/ Put(l, t)
    BY <2>1, <2>3 DEF Take, Put
  <2>4. CASE \E s \in Spotify : Prove(s)
    <3>1. PICK s \in Spotify : Prove(s)
      BY <2>4
    <3>2. ProofOf[s] \in Isrc
      BY IdentityAssumption
    <3>3. QED
      BY <2>1, <3>1, <3>2 DEF Prove
  <2>5. QED
    BY <2>2, <2>3, <2>4
<1>2. IdentityTypeOK'
  BY <1>1 DEF NamesInv, IdentityTypeOK
<1>3. QED
  BY <1>1, <1>2 DEF NamesInv, MemoryKnown, BoreKnown, PassKnown

\* Nothing is recorded and nobody knows any names at the start.
LEMMA NamesInitHold == IdentityInit => NamesInv
<1> SUFFICES ASSUME IdentityInit PROVE NamesInv
  OBVIOUS
<1>1. IdentityTypeOK
  BY DEF IdentityInit, IdentityTypeOK
<1>2. MemoryKnown /\ BoreKnown /\ PassKnown
  BY DEF IdentityInit, MemoryKnown, BoreKnown, PassKnown
<1>3. QED
  BY <1>1, <1>2 DEF NamesInv

\* NamesInv holds in every state.
LEMMA NamesInvariant == IdentitySpec => []NamesInv
<1>1. NamesInv /\ [IdentityNext]_identityVars => NamesInv'
  <2> SUFFICES ASSUME NamesInv, [IdentityNext]_identityVars PROVE NamesInv'
    OBVIOUS
  <2>1. CASE UNCHANGED identityVars
    BY <2>1 DEF identityVars, NamesInv, IdentityTypeOK, MemoryKnown, BoreKnown, PassKnown, Missing, On,
       Known, Cur
  <2>2. ASSUME NEW l \in Playlist, NEW seen \in Readings(l), Recognise(l, seen) PROVE NamesInv'
    BY <2>2, RecogniseKeeps
  <2>3. ASSUME NEW p \in Peer, Write(p) PROVE NamesInv'
    BY <2>3, WriteKeeps
  <2>4. CASE Commit
    BY <2>4, CommitKeeps
  <2>5. CASE Interrupt \/ (\E l \in Playlist, t \in Track : Take(l, t) \/ Put(l, t))
               \/ \E s \in Spotify : Prove(s)
    BY <2>5, WorldKeeps
  <2>6. QED
    BY <2>1, <2>2, <2>3, <2>4, <2>5 DEF IdentityNext
<1>2. QED
  BY <1>1, NamesInitHold, PTL DEF IdentitySpec

\* A name of proof is missing only when every entry that bore it has left the read: a
\* provider that shows less of an entry, or something else, takes nothing away.
THEOREM EvidenceIsRealHolds == IdentitySpec => []EvidenceIsReal
<1>1. NamesInv => EvidenceIsReal
  BY DEF NamesInv, PassKnown, EvidenceIsReal
<1>2. QED
  BY <1>1, NamesInvariant, PTL
=============================================================================
