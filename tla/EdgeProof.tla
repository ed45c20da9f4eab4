----------------------------- MODULE EdgeProof -----------------------------
(***************************************************************************)
(* What holds at the edges of the engine, for any playlists, tracks,       *)
(* accounts, pages, catalog ids and bounds: the files a mirror of          *)
(* downloads keeps, the scheduled backups of an account, what a provider's *)
(* playlist reads as and what is removed from it, the session a client     *)
(* speaks for, and what a client's writes leave.  The five components      *)
(* share no state; each section has the inductive invariant of one, a      *)
(* lemma per action, and its theorems.                                     *)
(***************************************************************************)
EXTENDS Downloads, Backups, Sessions, PlaylistReads, TargetWrites, SubsequenceProof,
        WellFoundedInduction

(***************************************************************************)
(* Downloads.                                                              *)
(***************************************************************************)

\* A pass has a playlist in hand.
InHand == {"read", "remove", "serve", "fetch", "finalize"}

Ledger == [snap : Nat \cup {Unseen}, files : SUBSET Track, lost : SUBSET Track]
PassInShape ==
  /\ DownloadTypeOK
  /\ snap \in [Playlist -> Nat] /\ mem \in [Playlist -> Ledger]
  /\ queue \subseteq Playlist /\ listed \in [Playlist -> Nat]
  /\ gone \in [Playlist -> SUBSET Track]
  /\ clean \in BOOLEAN /\ dirty \in BOOLEAN
  /\ at \in InHand => cur.p \in Playlist \ queue /\ cur.folder \in Folder
  /\ at \in {"next", "read", "save"} => tracks = {} /\ pending = {}
  /\ at = "idle" => NoPass

\* A playlist whose name is its own has one folder, whichever playlists a run selects.
FoldersKnown ==
  /\ \A p \in queue : OwnTitle(p) => <<Title[p]>> \notin used
  /\ at \in InHand =>
       \A p \in Playlist : OwnTitle(p) => (cur.folder = <<Title[p]>> <=> cur.p = p)

\* Snapshots only grow, and one that is current names the tracks that are there now.
TracksOf(entry, p) == entry.snap = snap[p] => live[p] = entry.files \cup entry.lost
SnapshotsKnown ==
  /\ \A p \in Playlist :
       /\ saved[p].snap <= snap[p] /\ mem[p].snap <= snap[p] /\ listed[p] <= snap[p]
       /\ TracksOf(saved[p], p) /\ TracksOf(mem[p], p)
  /\ at \in InHand \ {"read"} /\ listed[cur.p] = snap[cur.p] => tracks = live[cur.p]

\* What the pass has not recorded it has not changed, it deletes before it records, and no
\* track is both mirrored and without a source.
RecordsKnown ==
  /\ at # "idle" /\ ~dirty => mem = saved
  /\ \A p \in queue : gone[p] = {}
  /\ at \in {"read", "remove"} => gone[cur.p] = {}
  /\ \A p \in queue : mem[p] = saved[p]
  /\ at \in InHand => mem[cur.p] = saved[cur.p]
  /\ \A p \in Playlist : saved[p].files \cap saved[p].lost = {} /\ mem[p].files \cap mem[p].lost = {}

\* A track with a file of its own that the ledger has as mirrored is there, or its file went for
\* a cause that is known; one it has as without a source has none, or was hurt.
HasFile(p, t) == IsThere(p, t) \/ Hurt(p, t)
Spared(p, t) == IsThere(p, t) \/ \E cause \in {"wiped", "undone"} : <<t, cause>> \in hurt[p]
TrackAccounted(p, t) ==
  /\ t \in saved[p].files => Spared(p, t) \/ t \in gone[p]
  /\ t \in mem[p].files =>
       Spared(p, t) \/ (at \in {"serve", "fetch", "finalize"} /\ cur.p = p /\ t \in gone[p])
  /\ t \in Sourced /\ t \in saved[p].lost => HasFile(p, t)
  /\ t \in Sourced /\ t \in mem[p].lost => HasFile(p, t)
  /\ at \in {"serve", "fetch"} /\ cur.p = p /\ t \in tracks \cap Sourced =>
       HasFile(p, t) \/ t \in pending
  /\ at = "finalize" /\ clean /\ cur.p = p /\ t \in tracks \cap Sourced => HasFile(p, t)
  /\ at \in {"serve", "fetch", "finalize"} /\ cur.p = p /\ t \in tracks => t \notin gone[p]
TracksAccounted ==
  \A p \in Playlist : OwnTitle(p) => \A t \in Track : OwnFile(t) => TrackAccounted(p, t)

LedgerInv == PassInShape /\ FoldersKnown /\ SnapshotsKnown /\ RecordsKnown /\ TracksAccounted

\* What is there stays accounted for while its file stays and its causes are not forgotten.
LEMMA AccountKept ==
  ASSUME NEW p, NEW t, hurt[p] \subseteq hurt'[p], IsThere(p, t) => IsThere(p, t)'
  PROVE  /\ HasFile(p, t) => HasFile(p, t)'
         /\ Spared(p, t) => Spared(p, t)'
  BY DEF HasFile, Spared, Hurt

\* A file that is known to be there, or to be gone for a known cause, is accounted for.
LEMMA KeptHasFile ==
  ASSUME NEW p, NEW t
  PROVE  Spared(p, t) => HasFile(p, t)
  BY DEF HasFile, Spared, Hurt, Cause

\* Nothing is filed and nothing is running.
LEMMA LedgerStarts == DownloadInit => LedgerInv
<1> SUFFICES ASSUME DownloadInit PROVE LedgerInv
  OBVIOUS
<1>1. PassInShape
  BY DownloadsAssumption
     DEF DownloadInit, PassInShape, DownloadTypeOK, NoPass, Blank, NoTracks, NoSnap, NoEntry, Unseen,
         Ledger, InHand
<1>2. FoldersKnown
  BY DEF DownloadInit, FoldersKnown, NoPass, InHand
<1>3. SnapshotsKnown
  BY DEF DownloadInit, SnapshotsKnown, TracksOf, NoPass, Blank, NoSnap, NoEntry, Unseen, InHand
<1>4. RecordsKnown
  BY DEF DownloadInit, RecordsKnown, NoPass, Blank, NoEntry, InHand
<1>5. TracksAccounted
  BY DEF DownloadInit, TracksAccounted, TrackAccounted, NoPass, Blank, NoEntry
<1>6. QED
  BY <1>1, <1>2, <1>3, <1>4, <1>5 DEF LedgerInv

\* A person edits a playlist: its snapshot moves on.
LEMMA EditAccounted ==
  ASSUME LedgerInv, NEW q \in Playlist, NEW u \in Track, Edit(q, u)
  PROVE  LedgerInv'
<1> USE DEF LedgerInv
<1>1. PassInShape'
  BY DEF Edit, pass, PassInShape, DownloadTypeOK, NoPass, InHand
<1>2. FoldersKnown'
  BY DEF Edit, pass, FoldersKnown
<1>3. SnapshotsKnown'
  <2>1. snap \in [Playlist -> Nat] /\ snap' = [snap EXCEPT ![q] = @ + 1]
    BY DEF Edit, PassInShape
  <2>2. ASSUME NEW p \in Playlist
        PROVE  /\ saved[p].snap <= snap'[p] /\ mem[p].snap <= snap'[p] /\ listed[p] <= snap'[p]
               /\ TracksOf(saved[p], p)' /\ TracksOf(mem[p], p)'
    BY DownloadsAssumption, <2>1 DEF Edit, pass, PassInShape, DownloadTypeOK, Ledger, Unseen, SnapshotsKnown, TracksOf
  <2>3. ASSUME at \in InHand \ {"read"}, listed[cur.p] = snap'[cur.p]
        PROVE  tracks = live'[cur.p]
    BY <2>1, <2>3 DEF Edit, pass, PassInShape, DownloadTypeOK, SnapshotsKnown
  <2>4. QED
    BY <2>2, <2>3 DEF Edit, pass, SnapshotsKnown
<1>4. RecordsKnown'
  BY DEF Edit, pass, RecordsKnown, PassInShape, DownloadTypeOK, InHand
<1>5. TracksAccounted'
  <2> SUFFICES ASSUME NEW p \in Playlist, OwnTitle(p), NEW t \in Track, OwnFile(t)
               PROVE  TrackAccounted(p, t)'
    BY DEF TracksAccounted
  <2>1. TrackAccounted(p, t)
    BY DEF TracksAccounted
  <2>2. /\ HasFile(p, t)' = HasFile(p, t) /\ Spared(p, t)' = Spared(p, t)
    BY DEF Edit, HasFile, Spared, IsThere, Hurt
  <2>3. QED
    BY <2>1, <2>2 DEF Edit, pass, TrackAccounted
<1>6. QED
  BY <1>1, <1>2, <1>3, <1>4, <1>5

\* A folder is deleted: what it held is hurt.
LEMMA WipeAccounted ==
  ASSUME LedgerInv, NEW f \in Folder, Wipe(f)
  PROVE  LedgerInv'
<1> USE DEF LedgerInv
<1>1. PassInShape'
  <2>1. By(Track, "wiped") \subseteq Track \X Cause
    BY DEF By, Cause
  <2>2. hurt' \in [Playlist -> SUBSET (Track \X Cause)]
    BY <2>1 DEF Wipe, PassInShape, DownloadTypeOK
  <2>3. QED
    BY <2>2 DEF Wipe, pass, PassInShape, DownloadTypeOK, NoPass, InHand
<1>2. FoldersKnown'
  BY DEF Wipe, pass, FoldersKnown
<1>3. SnapshotsKnown'
  BY DEF Wipe, pass, SnapshotsKnown, TracksOf
<1>4. RecordsKnown'
  BY DEF Wipe, pass, RecordsKnown, PassInShape, DownloadTypeOK, InHand
<1>5. TracksAccounted'
  <2> SUFFICES ASSUME NEW p \in Playlist, OwnTitle(p), NEW t \in Track, OwnFile(t)
               PROVE  TrackAccounted(p, t)'
    BY DEF TracksAccounted
  <2>1. TrackAccounted(p, t)
    BY DEF TracksAccounted
  <2>2. hurt[p] \subseteq hurt'[p]
    BY DEF Wipe, PassInShape, DownloadTypeOK
  <2>3. CASE f \in {<<Title[p]>>, <<Title[p], p>>}
    <3>1. <<t, "wiped">> \in hurt'[p]
      BY <2>3 DEF Wipe, By
    <3>2. Spared(p, t)' /\ HasFile(p, t)'
      BY <3>1 DEF Spared, HasFile, Hurt, Cause
    <3>3. QED
      BY <2>1, <3>2 DEF Wipe, pass, TrackAccounted
  <2>4. CASE f \notin {<<Title[p]>>, <<Title[p], p>>}
    <3>1. IsThere(p, t) => IsThere(p, t)'
      BY <2>4 DEF Wipe, IsThere, PassInShape, DownloadTypeOK, Folder
    <3>2. QED
      BY <2>1, <2>2, <3>1, AccountKept DEF Wipe, pass, TrackAccounted
  <2>5. QED
    BY <2>3, <2>4
<1>6. QED
  BY <1>1, <1>2, <1>3, <1>4, <1>5

\* A pass takes the playlist that was asked for, or the first of its queue.
LEMMA BeginAccounted ==
  ASSUME LedgerInv, NEW these \in SUBSET Playlist, BeginPass(these)
  PROVE  LedgerInv'
<1> USE DEF LedgerInv
<1>0. NoPass
  BY DEF BeginPass, PassInShape
<1>1. PassInShape'
  BY <1>0 DEF BeginPass, world, PassInShape, DownloadTypeOK, NoPass, InHand, Ledger
<1>2. FoldersKnown'
  BY DEF BeginPass, FoldersKnown, InHand
<1>3. SnapshotsKnown'
  BY DEF BeginPass, world, SnapshotsKnown, TracksOf, InHand, PassInShape, DownloadTypeOK
<1>4. RecordsKnown'
  BY <1>0 DEF BeginPass, world, RecordsKnown, NoPass, NoTracks, PassInShape
<1>5. TracksAccounted'
  BY <1>0 DEF BeginPass, world, TracksAccounted, TrackAccounted, HasFile, Spared, IsThere, Hurt, NoPass, NoTracks
<1>6. QED
  BY <1>1, <1>2, <1>3, <1>4, <1>5

\* Two playlists of different names have different folders.
LEMMA FolderIsOwn ==
  ASSUME NEW p \in Playlist, NEW q \in Playlist, OwnTitle(p), p # q
  PROVE  FolderFor(q) # <<Title[p]>>
<1>1. <<Title[q], q>> # <<Title[p]>>
  <2>1. Len(<<Title[q], q>>) = 2 /\ Len(<<Title[p]>>) = 1
    OBVIOUS
  <2>2. QED
    BY <2>1
<1>2. <<Title[q]>> # <<Title[p]>>
  BY DEF OwnTitle
<1>3. QED
  BY <1>1, <1>2 DEF FolderFor

LEMMA NextAccounted ==
  ASSUME LedgerInv, Next1
  PROVE  LedgerInv'
<1> USE DEF LedgerInv
<1>0. PICK q \in queue :
        /\ queue' = queue \ {q} /\ used' = used \cup {FolderFor(q)}
        /\ \/ UNCHANGED <<at, cur>>
           \/ at' = "read" /\ cur' = [p |-> q, folder |-> FolderFor(q)]
  BY DEF Next1
<1>1. q \in Playlist /\ at = "next"
  BY <1>0 DEF PassInShape, Next1
<1>2. PassInShape'
  <2>1. FolderFor(q) \in Folder
    BY <1>1 DEF FolderFor, Folder
  <2>2. QED
    BY <1>0, <1>1, <2>1 DEF Next1, world, PassInShape, DownloadTypeOK, InHand
<1>3. FoldersKnown'
  <2>1. ASSUME NEW p \in queue', OwnTitle(p) PROVE <<Title[p]>> \notin used'
    BY <1>0, <1>1, <2>1, FolderIsOwn DEF FoldersKnown, PassInShape
  <2>2. ASSUME at' \in InHand, NEW p \in Playlist, OwnTitle(p)
        PROVE  cur'.folder = <<Title[p]>> <=> cur'.p = p
    <3>1. cur' = [p |-> q, folder |-> FolderFor(q)]
      BY <1>0, <1>1, <2>2 DEF InHand
    <3>2. p = q => FolderFor(q) = <<Title[p]>>
      BY <1>0, <2>2 DEF FoldersKnown, FolderFor
    <3>3. QED
      BY <1>1, <2>2, <3>1, <3>2, FolderIsOwn
  <2>3. QED
    BY <2>1, <2>2 DEF FoldersKnown
<1>4. SnapshotsKnown'
  BY <1>0, <1>1 DEF Next1, world, SnapshotsKnown, TracksOf, InHand
<1>5. RecordsKnown'
  BY <1>0, <1>1 DEF Next1, world, RecordsKnown
<1>6. TracksAccounted'
  BY <1>0, <1>1 DEF Next1, world, TracksAccounted, TrackAccounted, HasFile, Spared, IsThere, Hurt
<1>7. QED
  BY <1>2, <1>3, <1>4, <1>5, <1>6

LEMMA TracksReadAccounted ==
  ASSUME LedgerInv, ReadTracks
  PROVE  LedgerInv'
<1> USE DEF LedgerInv
<1>0. at = "read" /\ cur.p \in Playlist
  BY DEF ReadTracks, PassInShape, InHand
<1>1. PassInShape'
  BY <1>0 DEF ReadTracks, world, PassInShape, DownloadTypeOK, InHand
<1>2. FoldersKnown'
  BY <1>0 DEF ReadTracks, FoldersKnown, InHand
<1>3. SnapshotsKnown'
  BY <1>0 DEF ReadTracks, world, SnapshotsKnown, TracksOf, InHand
<1>4. RecordsKnown'
  BY <1>0 DEF ReadTracks, world, RecordsKnown, InHand
<1>5. TracksAccounted'
  BY <1>0 DEF ReadTracks, world, TracksAccounted, TrackAccounted, HasFile, Spared, IsThere, Hurt
<1>6. QED
  BY <1>1, <1>2, <1>3, <1>4, <1>5

LEMMA DeleteAccounted ==
  ASSUME LedgerInv, DeleteRemoved
  PROVE  LedgerInv'
<1> USE DEF LedgerInv
<1>0. at = "remove" /\ cur.p \in Playlist /\ cur.folder \in Folder
  BY DEF DeleteRemoved, PassInShape, InHand
<1>1. PassInShape'
  <2>1. disk' \in [Folder -> SUBSET File] /\ folders' \subseteq Folder
    BY <1>0 DEF DeleteRemoved, PassInShape, DownloadTypeOK
  <2>2. gone' \in [Playlist -> SUBSET Track]
    <3>1. RemovedIds \cap mem[cur.p].files \subseteq Track
      BY <1>0 DEF PassInShape, Ledger
    <3>2. QED
      BY <1>0, <3>1 DEF DeleteRemoved, PassInShape
  <2>3. pending' \subseteq tracks'
    BY DEF DeleteRemoved, NewIds
  <2>4. QED
    BY <1>0, <2>1, <2>2, <2>3 DEF DeleteRemoved, PassInShape, DownloadTypeOK, InHand
<1>2. FoldersKnown'
  BY <1>0 DEF DeleteRemoved, FoldersKnown, InHand
<1>3. SnapshotsKnown'
  BY <1>0 DEF DeleteRemoved, SnapshotsKnown, TracksOf, InHand
<1>4. RecordsKnown'
  BY <1>0 DEF DeleteRemoved, RecordsKnown, PassInShape, InHand
<1>5. TracksAccounted'
  <2> SUFFICES ASSUME NEW p \in Playlist, OwnTitle(p), NEW t \in Track, OwnFile(t)
               PROVE  TrackAccounted(p, t)'
    BY DEF TracksAccounted
  <2>1. TrackAccounted(p, t)
    BY DEF TracksAccounted
  <2>2. <<Title[p]>> \in Folder
    BY DEF Folder
  <2>3. cur.p # p => disk'[<<Title[p]>>] = disk[<<Title[p]>>] /\ gone'[p] = gone[p]
    BY <1>0, <2>2 DEF DeleteRemoved, PassInShape, DownloadTypeOK, FoldersKnown, InHand
  <2>4. CASE cur.p # p
    BY <1>0, <2>1, <2>3, <2>4 DEF DeleteRemoved, TrackAccounted, HasFile, Spared, IsThere, Hurt
  <2>5. CASE cur.p = p
    <3>1. gone'[p] = RemovedIds \cap mem[p].files /\ gone[p] = {}
      BY <1>0, <2>5 DEF DeleteRemoved, PassInShape, RecordsKnown
    <3>2. \A u \in RemovedIds \cap mem[p].files : u \in Track
      BY DEF PassInShape, Ledger
    <3>3. FileOf[t] \in disk[<<Title[p]>>] /\ t \notin RemovedIds \cap mem[p].files
            => FileOf[t] \in disk'[<<Title[p]>>]
      BY <1>0, <2>2, <2>5, <3>2, SMTT(40)
         DEF DeleteRemoved, PassInShape, DownloadTypeOK, OwnFile, FoldersKnown, InHand
    <3>a. hurt' = hurt
      BY DEF DeleteRemoved
    <3>4. t \notin RemovedIds \cap mem[p].files =>
            /\ HasFile(p, t) => HasFile(p, t)'
            /\ Spared(p, t) => Spared(p, t)'
      BY <3>3, <3>a, AccountKept DEF IsThere
    <3>b. t \in mem[p].lost \/ t \in saved[p].lost => t \notin mem[p].files
      BY <1>0, <2>5 DEF RecordsKnown, InHand
    <3>5. t \in tracks => t \notin gone'[p]
      BY <3>1 DEF RemovedIds
    <3>6. t \in tracks \cap Sourced => HasFile(p, t)' \/ t \in NewIds
      <4>1. CASE t \in mem[p].files
        BY <1>0, <2>1, <3>1, <3>4, <3>5, <4>1, KeptHasFile DEF TrackAccounted
      <4>2. CASE t \in mem[p].lost
        BY <2>1, <3>4, <3>b, <4>2 DEF TrackAccounted
      <4>3. QED
        BY <2>5, <4>1, <4>2 DEF NewIds, Remembered
    <3>7. QED
      BY <1>0, <2>1, <2>5, <3>1, <3>4, <3>5, <3>6, <3>b DEF DeleteRemoved, TrackAccounted
  <2>6. QED
    BY <2>4, <2>5
<1>6. QED
  BY <1>1, <1>2, <1>3, <1>4, <1>5

\* What a step puts into the folder in hand is there, and nothing else goes.
LEMMA PutKeeps ==
  ASSUME LedgerInv, at \in InHand, NEW W \in SUBSET Track, PutFiles({FileOf[u] : u \in W}),
         NEW p \in Playlist, OwnTitle(p), NEW t \in Track
  PROVE  /\ IsThere(p, t) => IsThere(p, t)'
         /\ t \in W /\ cur.p = p => IsThere(p, t)'
<1>1. <<Title[p]>> \in Folder /\ cur.folder \in Folder /\ cur.p \in Playlist
  BY DEF Folder, LedgerInv, PassInShape
<1>2. cur.p = p => cur.folder = <<Title[p]>>
  BY DEF LedgerInv, FoldersKnown
<1>3. QED
  BY <1>1, <1>2 DEF PutFiles, IsThere, LedgerInv, PassInShape, DownloadTypeOK

LEMMA PutInShape ==
  ASSUME LedgerInv, at \in InHand, NEW W \in SUBSET Track, PutFiles({FileOf[u] : u \in W})
  PROVE  disk' \in [Folder -> SUBSET File] /\ folders' \subseteq Folder
<1>1. cur.folder \in Folder /\ {FileOf[u] : u \in W} \subseteq File
  BY DEF LedgerInv, PassInShape, File
<1>2. QED
  BY <1>1 DEF PutFiles, LedgerInv, PassInShape, DownloadTypeOK

LEMMA ServeAccounted ==
  ASSUME LedgerInv, Serve
  PROVE  LedgerInv'
<1> USE DEF LedgerInv
<1>0. at = "serve" /\ at' = "fetch" /\ cur.p \in Playlist /\ cur.folder \in Folder
  BY DEF Serve, PassInShape, InHand
<1>1. PICK failed \in SUBSET (pending \cap Library) :
        /\ PutFiles({FileOf[t] : t \in (pending \cap Library) \ failed})
        /\ pending' = pending \ (Library \ failed)
  BY DEF Serve
<1>2. (pending \cap Library) \ failed \in SUBSET Track /\ at \in InHand
  BY <1>0 DEF PassInShape, DownloadTypeOK, InHand
<1>3. PassInShape'
  <2>1. disk' \in [Folder -> SUBSET File] /\ folders' \subseteq Folder
    BY <1>1, <1>2, PutInShape
  <2>2. QED
    BY <1>0, <1>1, <2>1 DEF Serve, PassInShape, DownloadTypeOK, InHand
<1>4. FoldersKnown'
  BY <1>0 DEF Serve, FoldersKnown, InHand
<1>5. SnapshotsKnown'
  BY <1>0 DEF Serve, SnapshotsKnown, TracksOf, InHand
<1>6. RecordsKnown'
  BY <1>0, <1>1 DEF Serve, RecordsKnown, PassInShape, InHand
<1>7. TracksAccounted'
  <2> SUFFICES ASSUME NEW p \in Playlist, OwnTitle(p), NEW t \in Track, OwnFile(t)
               PROVE  TrackAccounted(p, t)'
    BY DEF TracksAccounted
  <2>1. TrackAccounted(p, t)
    BY DEF TracksAccounted
  <2>2. hurt' = hurt
    BY DEF Serve
  <2>3. /\ HasFile(p, t) => HasFile(p, t)'
        /\ Spared(p, t) => Spared(p, t)'
    BY <1>1, <1>2, <2>2, PutKeeps, AccountKept
  <2>4. cur.p = p /\ t \in pending => HasFile(p, t)' \/ t \in pending'
    BY <1>1, <1>2, PutKeeps DEF HasFile
  <2>5. QED
    BY <1>0, <2>1, <2>2, <2>3, <2>4 DEF Serve, TrackAccounted
<1>8. QED
  BY <1>3, <1>4, <1>5, <1>6, <1>7

LEMMA StreamAccounted ==
  ASSUME LedgerInv, Stream
  PROVE  LedgerInv'
<1> USE DEF LedgerInv
<1>0. at = "fetch" /\ at' = "finalize" /\ cur.p \in Playlist /\ cur.folder \in Folder
  BY DEF Stream, PassInShape, InHand
<1>1. PICK W \in SUBSET (Wanted \cap Sourced) :
        /\ PutFiles({FileOf[t] : t \in W})
        /\ clean' \in {clean, FALSE}
        /\ hurt' = IF clean'
                   THEN [hurt EXCEPT ![cur.p] =
                           @ \cup By(pending \ Wanted, "left")
                             \cup By((pending \cap Wanted \cap Sourced) \ W, "passing")]
                   ELSE hurt
  BY DEF Stream
<1>2. W \in SUBSET Track /\ at \in InHand
  BY <1>0, DownloadsAssumption DEF InHand
<1>3. PassInShape'
  <2>1. disk' \in [Folder -> SUBSET File] /\ folders' \subseteq Folder
    BY <1>1, <1>2, PutInShape
  <2>2. hurt' \in [Playlist -> SUBSET (Track \X Cause)]
    <3>1. hurt \in [Playlist -> SUBSET (Track \X Cause)] /\ pending \subseteq Track
      BY DEF PassInShape, DownloadTypeOK
    <3>2. /\ By(pending \ Wanted, "left") \subseteq Track \X Cause
          /\ By((pending \cap Wanted \cap Sourced) \ W, "passing") \subseteq Track \X Cause
      BY <3>1 DEF By, Cause
    <3>3. QED
      BY <1>0, <1>1, <3>1, <3>2
  <2>3. clean' \in BOOLEAN
    BY <1>1 DEF PassInShape
  <2>4. QED
    BY <1>0, <2>1, <2>2, <2>3 DEF Stream, PassInShape, DownloadTypeOK, InHand
<1>4. FoldersKnown'
  BY <1>0 DEF Stream, FoldersKnown, InHand
<1>5. SnapshotsKnown'
  BY <1>0 DEF Stream, SnapshotsKnown, TracksOf, InHand
<1>6. RecordsKnown'
  BY <1>0 DEF Stream, RecordsKnown, PassInShape, InHand
<1>7. TracksAccounted'
  <2> SUFFICES ASSUME NEW p \in Playlist, OwnTitle(p), NEW t \in Track, OwnFile(t)
               PROVE  TrackAccounted(p, t)'
    BY DEF TracksAccounted
  <2>1. TrackAccounted(p, t)
    BY DEF TracksAccounted
  <2>2. hurt[p] \subseteq hurt'[p]
    BY <1>0, <1>1 DEF PassInShape, DownloadTypeOK
  <2>3. /\ HasFile(p, t) => HasFile(p, t)'
        /\ Spared(p, t) => Spared(p, t)'
    BY <1>1, <1>2, <2>2, PutKeeps, AccountKept
  <2>4. clean' /\ cur.p = p /\ t \in tracks \cap Sourced => HasFile(p, t)'
    <3> SUFFICES ASSUME clean', cur.p = p, t \in tracks \cap Sourced, ~HasFile(p, t)
                 PROVE  HasFile(p, t)'
      BY <2>3
    <3>1. t \in pending
      BY <1>0, <2>1 DEF TrackAccounted
    <3>2. CASE t \in W
      BY <1>1, <1>2, <3>2, PutKeeps DEF HasFile
    <3>3. hurt'[p] = hurt[p] \cup By(pending \ Wanted, "left")
                       \cup By((pending \cap Wanted \cap Sourced) \ W, "passing")
      BY <1>0, <1>1 DEF PassInShape, DownloadTypeOK
    <3>4. CASE t \notin Wanted
      <4>1. <<t, "left">> \in hurt'[p]
        BY <3>1, <3>3, <3>4 DEF By
      <4>2. QED
        BY <4>1 DEF HasFile, Hurt, Cause
    <3>5. CASE t \in Wanted \ W
      <4>1. <<t, "passing">> \in hurt'[p]
        BY <3>1, <3>3, <3>5 DEF By
      <4>2. QED
        BY <4>1 DEF HasFile, Hurt, Cause
    <3>6. QED
      BY <3>2, <3>4, <3>5
  <2>5. QED
    BY <1>0, <2>1, <2>3, <2>4 DEF Stream, TrackAccounted
<1>8. QED
  BY <1>3, <1>4, <1>5, <1>6, <1>7

LEMMA FetchNothingAccounted ==
  ASSUME LedgerInv, FetchNothing
  PROVE  LedgerInv'
<1> USE DEF LedgerInv
<1>0. at = "fetch" /\ at' = "finalize" /\ pending = {}
  BY DEF FetchNothing
<1>1. PassInShape'
  BY <1>0 DEF FetchNothing, world, PassInShape, DownloadTypeOK, InHand
<1>2. FoldersKnown'
  BY <1>0 DEF FetchNothing, FoldersKnown, InHand
<1>3. SnapshotsKnown'
  BY <1>0 DEF FetchNothing, world, SnapshotsKnown, TracksOf, InHand
<1>4. RecordsKnown'
  BY <1>0 DEF FetchNothing, world, RecordsKnown, InHand
<1>5. TracksAccounted'
  BY <1>0 DEF FetchNothing, world, TracksAccounted, TrackAccounted, HasFile, Spared, IsThere, Hurt
<1>6. QED
  BY <1>1, <1>2, <1>3, <1>4, <1>5

LEMMA FinalizeAccounted ==
  ASSUME LedgerInv, Finalize
  PROVE  LedgerInv'
<1> USE DEF LedgerInv
<1>0. at = "finalize" /\ at' = "next" /\ cur.p \in Playlist /\ cur.folder \in Folder
  BY DEF Finalize, PassInShape, InHand
<1>a. \/ /\ clean /\ mem' = [mem EXCEPT ![cur.p] = LedgerEntry] /\ dirty' = TRUE
         /\ hurt' = [hurt EXCEPT ![cur.p] = {h \in @ : h[1] \notin OnDisk}]
      \/ /\ hurt' = [hurt EXCEPT ![cur.p] = @ \cup By(gone[cur.p], "undone")]
         /\ UNCHANGED <<mem, dirty>>
  BY DEF Finalize, Recorded
<1>b. /\ LedgerEntry \in Ledger /\ LedgerEntry.snap = listed[cur.p]
      /\ LedgerEntry.files \cup LedgerEntry.lost = tracks
      /\ LedgerEntry.files \cap LedgerEntry.lost = {}
      /\ OnDisk = LedgerEntry.files
      /\ \A t : t \in LedgerEntry.files => FileOf[t] \in disk[cur.folder]
      /\ \A t : t \in LedgerEntry.lost => t \in tracks /\ FileOf[t] \notin disk[cur.folder]
  BY <1>0 DEF LedgerEntry, Ledger, OnDisk, PassInShape, DownloadTypeOK
<1>1. PassInShape'
  <2>1. mem' \in [Playlist -> Ledger] /\ dirty' \in BOOLEAN
    BY <1>0, <1>a, <1>b DEF PassInShape
  <2>a. hurt' \in [Playlist -> SUBSET (Track \X Cause)]
    <3>1. hurt \in [Playlist -> SUBSET (Track \X Cause)] /\ gone[cur.p] \in SUBSET Track
      BY <1>0 DEF PassInShape, DownloadTypeOK
    <3>2. By(gone[cur.p], "undone") \subseteq Track \X Cause
      BY <3>1 DEF By, Cause
    <3>3. QED
      BY <1>0, <1>a, <3>1, <3>2
  <2>2. QED
    BY <1>0, <2>1, <2>a DEF Finalize, world, PassInShape, DownloadTypeOK, InHand
<1>2. FoldersKnown'
  BY <1>0 DEF Finalize, FoldersKnown, InHand
<1>3. SnapshotsKnown'
  <2>1. ASSUME NEW p \in Playlist PROVE mem'[p].snap <= snap[p] /\ TracksOf(mem'[p], p)
    BY <1>0, <1>a, <1>b DEF PassInShape, SnapshotsKnown, TracksOf, InHand
  <2>2. QED
    BY <1>0, <2>1 DEF Finalize, world, SnapshotsKnown, TracksOf, InHand
<1>4. RecordsKnown'
  BY <1>0, <1>a, <1>b DEF Finalize, world, RecordsKnown, PassInShape, InHand
<1>5. TracksAccounted'
  <2> SUFFICES ASSUME NEW p \in Playlist, OwnTitle(p), NEW t \in Track, OwnFile(t)
               PROVE  TrackAccounted(p, t)'
    BY DEF TracksAccounted
  <2>1. TrackAccounted(p, t)
    BY DEF TracksAccounted
  <2>2. cur.p = p => cur.folder = <<Title[p]>>
    BY <1>0 DEF FoldersKnown, InHand
  <2>3. IsThere(p, t) <=> IsThere(p, t)'
    BY DEF Finalize, world, IsThere
  <2>4. \/ hurt[p] \subseteq hurt'[p]
        \/ IsThere(p, t)'
        \/ \A cause : <<t, cause>> \in hurt[p] => <<t, cause>> \in hurt'[p]
    <3>1. CASE cur.p = p /\ hurt' = [hurt EXCEPT ![cur.p] = {h \in @ : h[1] \notin OnDisk}]
      <4>1. CASE t \in OnDisk
        BY <1>b, <2>2, <2>3, <3>1, <4>1 DEF IsThere
      <4>2. CASE t \notin OnDisk
        BY <1>0, <3>1, <4>2 DEF PassInShape, DownloadTypeOK
      <4>3. QED
        BY <4>1, <4>2
    <3>2. CASE ~(cur.p = p /\ hurt' = [hurt EXCEPT ![cur.p] = {h \in @ : h[1] \notin OnDisk}])
      BY <1>0, <1>a, <3>2 DEF PassInShape, DownloadTypeOK
    <3>3. QED
      BY <3>1, <3>2
  <2>5. /\ HasFile(p, t) => HasFile(p, t)'
        /\ Spared(p, t) => Spared(p, t)'
    BY <2>3, <2>4 DEF HasFile, Spared, Hurt
  <2>6. t \in mem'[p].files => Spared(p, t)'
    <3>1. CASE cur.p = p /\ mem' = [mem EXCEPT ![cur.p] = LedgerEntry]
      BY <1>0, <1>b, <2>2, <2>3, <3>1 DEF IsThere, Spared, PassInShape
    <3>2. CASE cur.p = p /\ mem' = mem /\ hurt' = [hurt EXCEPT ![cur.p] = @ \cup By(gone[cur.p], "undone")]
      <4>1. t \in gone[p] => <<t, "undone">> \in hurt'[p]
        BY <1>0, <3>2 DEF PassInShape, DownloadTypeOK, By
      <4>2. QED
        BY <2>1, <2>5, <3>2, <4>1 DEF TrackAccounted, Spared
    <3>3. CASE cur.p # p
      BY <1>0, <1>a, <2>1, <2>5, <3>3 DEF TrackAccounted, PassInShape
    <3>4. QED
      BY <1>a, <3>1, <3>2, <3>3
  <2>7. t \in Sourced /\ t \in mem'[p].lost => HasFile(p, t)'
    <3>1. CASE cur.p = p /\ clean /\ mem' = [mem EXCEPT ![cur.p] = LedgerEntry]
      BY <1>0, <1>b, <2>1, <2>5, <3>1 DEF TrackAccounted, PassInShape
    <3>2. CASE mem'[p] = mem[p]
      BY <2>1, <2>5, <3>2 DEF TrackAccounted
    <3>3. QED
      BY <1>0, <1>a, <3>1, <3>2 DEF PassInShape
  <2>8. gone' = gone /\ saved' = saved
    BY DEF Finalize, world
  <2>9. QED
    BY <1>0, <2>1, <2>5, <2>6, <2>7, <2>8 DEF TrackAccounted
<1>6. QED
  BY <1>1, <1>2, <1>3, <1>4, <1>5

LEMMA HaltAccounted ==
  ASSUME LedgerInv, Halt
  PROVE  LedgerInv'
<1> USE DEF LedgerInv
<1>0. at = "next" /\ at' = "save" /\ queue' = {}
  BY DEF Halt
<1>1. PassInShape'
  BY <1>0 DEF Halt, world, PassInShape, DownloadTypeOK, InHand
<1>2. FoldersKnown'
  BY <1>0 DEF Halt, FoldersKnown, InHand
<1>3. SnapshotsKnown'
  BY <1>0 DEF Halt, world, SnapshotsKnown, TracksOf, InHand
<1>4. RecordsKnown'
  BY <1>0 DEF Halt, world, RecordsKnown, InHand
<1>5. TracksAccounted'
  BY <1>0 DEF Halt, world, TracksAccounted, TrackAccounted, HasFile, Spared, IsThere, Hurt
<1>6. QED
  BY <1>1, <1>2, <1>3, <1>4, <1>5

LEMMA SaveAccounted ==
  ASSUME LedgerInv, Save
  PROVE  LedgerInv'
<1> USE DEF LedgerInv
<1>0. at = "save" /\ at' = "idle" /\ saved' = mem
  BY DEF Save, EndPass, RecordsKnown
<1>1. PassInShape'
  BY <1>0 DEF Save, EndPass, NoPass, PassInShape, DownloadTypeOK, InHand, Blank, NoEntry, NoSnap,
              NoTracks, Ledger, Unseen
<1>2. FoldersKnown'
  BY <1>0 DEF Save, EndPass, FoldersKnown, InHand
<1>3. SnapshotsKnown'
  BY <1>0 DEF Save, EndPass, SnapshotsKnown, TracksOf, InHand, Blank, NoEntry, NoSnap, Unseen, PassInShape
<1>4. RecordsKnown'
  BY <1>0 DEF Save, EndPass, RecordsKnown, InHand, Blank, NoEntry
<1>5. TracksAccounted'
  BY <1>0 DEF Save, EndPass, TracksAccounted, TrackAccounted, HasFile, Spared, IsThere, Hurt, Blank, NoEntry
<1>6. QED
  BY <1>1, <1>2, <1>3, <1>4, <1>5

LEMMA InterruptAccounted ==
  ASSUME LedgerInv, DownloadCrash
  PROVE  LedgerInv'
<1> USE DEF LedgerInv
<1>0. at' = "idle" /\ saved' \in {saved, Blank}
  BY DEF DownloadCrash, EndPass
<1>1. PassInShape'
  <2>1. hurt' \in [Playlist -> SUBSET (Track \X Cause)]
    <3>1. \A p \in Playlist : By(gone[p], "undone") \subseteq Track \X Cause
      BY DEF By, Cause, PassInShape
    <3>2. QED
      BY <3>1 DEF DownloadCrash, PassInShape, DownloadTypeOK
  <2>2. QED
    BY <1>0, <2>1 DEF DownloadCrash, EndPass, NoPass, PassInShape, DownloadTypeOK, InHand, Blank, NoEntry,
                NoSnap, NoTracks, Ledger, Unseen
<1>2. FoldersKnown'
  BY <1>0 DEF DownloadCrash, EndPass, FoldersKnown, InHand
<1>3. SnapshotsKnown'
  BY <1>0 DEF DownloadCrash, EndPass, SnapshotsKnown, TracksOf, InHand, Blank, NoEntry, NoSnap,
              Unseen, PassInShape
<1>4. RecordsKnown'
  BY <1>0 DEF DownloadCrash, EndPass, RecordsKnown, InHand, Blank, NoEntry
<1>5. TracksAccounted'
  <2> SUFFICES ASSUME NEW p \in Playlist, OwnTitle(p), NEW t \in Track, OwnFile(t)
               PROVE  TrackAccounted(p, t)'
    BY DEF TracksAccounted
  <2>1. TrackAccounted(p, t)
    BY DEF TracksAccounted
  <2>2. hurt'[p] = hurt[p] \cup By(gone[p], "undone")
    BY DEF DownloadCrash
  <2>3. mem'[p].files = {} /\ mem'[p].lost = {}
    BY DEF DownloadCrash, EndPass, Blank, NoEntry
  <2>4. saved' = saved \/ (saved'[p].files = {} /\ saved'[p].lost = {})
    BY <1>0 DEF Blank, NoEntry
  <2>5. /\ HasFile(p, t) => HasFile(p, t)'
        /\ Spared(p, t) => Spared(p, t)'
    <3>1. IsThere(p, t) => IsThere(p, t)'
      BY DEF DownloadCrash, IsThere
    <3>2. QED
      BY <2>2, <3>1, AccountKept
  <2>6. t \in gone[p] => Spared(p, t)'
    BY <2>2 DEF Spared, By
  <2>7. QED
    BY <1>0, <2>1, <2>3, <2>4, <2>5, <2>6 DEF TrackAccounted
<1>6. QED
  BY <1>1, <1>2, <1>3, <1>4, <1>5

\* Every step keeps the ledger.
LEMMA LedgerStep == LedgerInv /\ [DownloadNext]_downloadVars => LedgerInv'
<1> SUFFICES ASSUME LedgerInv, [DownloadNext]_downloadVars PROVE LedgerInv'
  OBVIOUS
<1>1. ASSUME NEW p \in Playlist, NEW t \in Track, Edit(p, t) PROVE LedgerInv'
  BY <1>1, EditAccounted
<1>2. ASSUME NEW f \in Folder, Wipe(f) PROVE LedgerInv'
  BY <1>2, WipeAccounted
<1>3. ASSUME NEW these \in SUBSET Playlist, BeginPass(these) PROVE LedgerInv'
  BY <1>3, BeginAccounted
<1>4. ASSUME Mirror PROVE LedgerInv'
  BY <1>4, NextAccounted, TracksReadAccounted, DeleteAccounted, ServeAccounted, StreamAccounted,
     FetchNothingAccounted, FinalizeAccounted, HaltAccounted, SaveAccounted DEF Mirror
<1>5. CASE UNCHANGED downloadVars
  <2>1. /\ PassInShape' /\ FoldersKnown' /\ SnapshotsKnown' /\ RecordsKnown'
    BY <1>5 DEF downloadVars, world, pass, LedgerInv, PassInShape, DownloadTypeOK, NoPass,
                FoldersKnown, SnapshotsKnown, TracksOf, RecordsKnown
  <2>2. TracksAccounted'
    BY <1>5 DEF downloadVars, world, pass, LedgerInv, TracksAccounted, TrackAccounted, HasFile, Spared, IsThere, Hurt
  <2>3. QED
    BY <2>1, <2>2 DEF LedgerInv
<1>6. QED
  BY <1>1, <1>2, <1>3, <1>4, <1>5, InterruptAccounted DEF DownloadNext

LEMMA LedgerHolds == DownloadSpec => []LedgerInv
  BY LedgerStarts, LedgerStep, PTL DEF DownloadSpec

\* What the state file says of a playlist is true: a playlist that is skipped because its snapshot
\* is the one last mirrored (downloads.py, run) has the tracks the file names; of the tracks it has
\* as mirrored each file is in the folder, unless the folder was deleted or a run that did not get
\* to record it deleted the file; and a track once recorded as unavailable, which is not asked for
\* again, has no source, or was kept from being mirrored by one of the four causes of Cause, an
\* interrupted run that had deleted its file among them.
THEOREM LedgerIsTrueHolds == DownloadSpec => []LedgerIsTrue
<1>1. LedgerInv => LedgerIsTrue
  <2> SUFFICES ASSUME LedgerInv PROVE LedgerIsTrue
    OBVIOUS
  <2>1. DownloadTypeOK
    BY DEF LedgerInv, PassInShape
  <2>2. SkipIsSafe
    BY DEF LedgerInv, SnapshotsKnown, TracksOf, SkipIsSafe
  <2>3. FilesAreThere
    <3> SUFFICES ASSUME NEW p \in Playlist, OwnTitle(p), NEW t \in saved[p].files, OwnFile(t)
                 PROVE  Spared(p, t) \/ t \in gone[p]
      BY DEF FilesAreThere, Spared
    <3>1. t \in Track
      BY <2>1 DEF DownloadTypeOK
    <3>2. QED
      BY <3>1 DEF LedgerInv, TracksAccounted, TrackAccounted
  <2>4. LostIsReal
    <3> SUFFICES ASSUME NEW p \in Playlist, OwnTitle(p),
                        NEW t \in saved[p].lost \cap Sourced, OwnFile(t)
                 PROVE  HasFile(p, t)
      BY DEF LostIsReal, HasFile
    <3>1. t \in Track
      BY DownloadsAssumption
    <3>2. QED
      BY <3>1 DEF LedgerInv, TracksAccounted, TrackAccounted
  <2>5. QED
    BY <2>1, <2>2, <2>3, <2>4 DEF LedgerIsTrue
<1>2. QED
  BY <1>1, LedgerHolds, PTL

\* A pass never deletes the file of a track that is in the playlist it has read (downloads.py
\* _delete_removed), whatever the state file and the folder held before.
LEMMA DeletionStep ==
  ASSUME LedgerInv, DownloadNext, folders \subseteq folders',
         NEW t \in tracks, OwnFile(t), FileOf[t] \in disk[cur.folder], cur.folder \in Folder
  PROVE  FileOf[t] \in disk'[cur.folder]
<1>0. t \in Track /\ disk \in [Folder -> SUBSET File] /\ mem \in [Playlist -> Ledger]
  BY DEF LedgerInv, PassInShape, DownloadTypeOK
<1>1. ASSUME NEW names, PutFiles(names) PROVE FileOf[t] \in disk'[cur.folder]
  BY <1>0, <1>1 DEF PutFiles
<1>2. ASSUME NEW f \in Folder, Wipe(f) PROVE FileOf[t] \in disk'[cur.folder]
  BY <1>2 DEF Wipe
<1>3. CASE DeleteRemoved
  <2>1. cur.p \in Playlist
    BY <1>3 DEF DeleteRemoved, LedgerInv, PassInShape, InHand
  <2>2. FileOf[t] \notin {FileOf[u] : u \in RemovedIds \cap mem[cur.p].files}
    <3>1. \A u \in RemovedIds \cap mem[cur.p].files : u \in Track /\ u # t
      BY <1>0, <2>1 DEF RemovedIds, Ledger
    <3>2. QED
      BY <1>0, <3>1 DEF OwnFile
  <2>3. QED
    BY <1>0, <1>3, <2>2 DEF DeleteRemoved
<1>4. CASE UNCHANGED disk
  BY <1>4
<1>5. QED
  BY <1>1, <1>2, <1>3, <1>4 DEF DownloadNext, Edit, BeginPass, Mirror, Next1, ReadTracks, Serve, Stream,
     FetchNothing, Finalize, Halt, Save, DownloadCrash, world

\* Of the tracks of the playlist a pass has read, none that has a file of its own loses it,
\* whatever an earlier run left in the folder or the state (downloads.py, the deletion of files
\* whose tracks left the playlist).
THEOREM OnlyLeaversDeletedHolds == DownloadSpec => OnlyLeaversDeleted
<1>1. LedgerInv /\ [DownloadNext]_downloadVars =>
        [folders \subseteq folders' =>
           \A f \in Folder : \A t \in tracks :
              OwnFile(t) /\ cur.folder = f /\ FileOf[t] \in disk[f]
                => FileOf[t] \in disk'[f]]_downloadVars
  BY DeletionStep
<1>2. QED
  BY <1>1, LedgerHolds, PTL DEF DownloadSpec, OnlyLeaversDeleted

(***************************************************************************)
(* Backups.                                                                *)
(***************************************************************************)

\* The service: a task that was not cancelled is the one on the books of its account.
SchedulersInShape ==
  /\ store \in [Account -> Schedule] /\ life \in {"up", "stopping", "down"}
  /\ sched \in [Account -> Task \cup {NoTask}]
  /\ every \in [Account -> Interval \cup {0}] /\ due \in [Account -> Interval \cup {0}]
  /\ task \in [Task -> [of : Account \cup {"none"}, at : {"free", "new", "sleep"},
                        cancelled : BOOLEAN]]
  /\ \A t \in Task : task[t].at # "free" =>
       task[t].of \in Account /\ (task[t].cancelled \/ sched[task[t].of] = t)
  /\ \A a \in Account : sched[a] # NoTask =>
       /\ task[sched[a]].of = a /\ task[sched[a]].at # "free" /\ ~task[sched[a]].cancelled
       /\ every[a] # 0 /\ due[a] = every[a] /\ life = "up"

\* The runs, and the lock that one of them may hold.
BackupRun == [at : {"none", "queued", "waiting", "reading", "read", "written", "pruned", "done"},
              keep : Nat, dir : Dir \cup {"none"}, as : Format \cup {0}, stamp : Stamp \cup {0},
              file : SUBSET Snapshot]
RunsInShape ==
  /\ run \in [Account -> BackupRun]
  /\ lock \in {"free", "other"} \cup Account
  /\ \A a \in Account :
       /\ run[a].at = "reading" <=> lock = a
       /\ run[a].at \in {"waiting", "reading", "read", "written", "pruned"} =>
            run[a].dir \in Dir /\ run[a].as \in Format
       /\ run[a].at = "read" => run[a].stamp \in Stamp

\* The folders hold what runs wrote.
SnapshotsStamped ==
  /\ files \in [Account -> SUBSET Snapshot] /\ success \in [Account -> SUBSET Snapshot]
  /\ deleted \in [Account -> SUBSET Snapshot]
  /\ \A a \in Account : IsFiniteSet(files[a]) /\ IsFiniteSet(deleted[a])

\* A snapshot is in a set of them, or has as many later names there as are kept.
Saved(f, S, keep) == f \in S \/ (keep > 0 /\ Cardinality(Later(f, S)) >= keep)
WrittenIsThere ==
  \A a \in Account :
    /\ run[a].at = "written" =>
         \E f \in files[a] \cup deleted[a] : run[a].file = {f} /\ f.dir = run[a].dir
    /\ run[a].at = "pruned" =>
         \E f \in Snapshot : run[a].file = {f} /\ Saved(f, files[a] \cup deleted[a], run[a].keep)

BackupInv == SchedulersInShape /\ Scheduled /\ QuietWhenDown
             /\ RunsInShape /\ SnapshotsStamped /\ WrittenIsThere

LEMMA BackupStarts == BackupInit => BackupInv
<1> SUFFICES ASSUME BackupInit PROVE BackupInv
  OBVIOUS
<1>1. SchedulersInShape /\ Scheduled /\ QuietWhenDown
  <2>1. store \in [Account -> Schedule] /\ \A a \in Account : ~store[a].there
    BY BackupAssumption DEF BackupInit, Schedule
  <2>2. QED
    BY <2>1 DEF BackupInit, SchedulersInShape, Scheduled, QuietWhenDown, FreeTask, Enabled
<1>2. RunsInShape /\ WrittenIsThere
  BY BackupAssumption DEF BackupInit, RunsInShape, WrittenIsThere, BackupRun, NoBackup
<1>3. SnapshotsStamped
  BY FS_EmptySet DEF BackupInit, SnapshotsStamped, NoBackup
<1>4. QED
  BY <1>1, <1>2, <1>3 DEF BackupInv

\* What reconcile leaves: a task of its own for every enabled row, and nothing for the others.
LEMMA ReconcileFollows ==
  ASSUME SchedulersInShape, store' \in [Account -> Schedule], Reconcile(store'), life' = "up"
  PROVE  SchedulersInShape' /\ Scheduled'
<1> DEFINE s == store'
           starts == {a \in Account : Enabled(s, a) /\ (sched[a] = NoTask \/ Stale(s, a))}
           stopped == {sched[a] : a \in {x \in Account : Stale(s, x)}}
           stays == {a \in Account : Enabled(s, a) /\ a \notin starts}
<1>1. PICK id \in [starts -> {t \in Task : task[t].at = "free"}] :
       /\ \A a, b \in starts : a # b => id[a] # id[b]
       /\ task' = [t \in Task |->
                     CASE t \in stopped -> [task[t] EXCEPT !.cancelled = TRUE]
                       [] \E a \in starts : id[a] = t ->
                            [of |-> CHOOSE a \in starts : id[a] = t, at |-> "new", cancelled |-> FALSE]
                       [] OTHER -> task[t]]
       /\ sched' = [a \in Account |-> CASE a \in starts -> id[a]
                                        [] a \in stays -> sched[a]
                                        [] OTHER -> NoTask]
       /\ every' = [a \in Account |-> IF a \in starts THEN s[a].every
                                      ELSE IF a \in stays THEN every[a] ELSE 0]
       /\ due' = [a \in Account |-> IF a \in starts THEN s[a].every
                                    ELSE IF a \in stays THEN due[a] ELSE 0]
  BY DEF Reconcile
<1>2. /\ \A a \in starts : id[a] \in Task /\ task[id[a]].at = "free"
      /\ \A a \in stays : sched[a] # NoTask /\ sched[a] \in Task /\ every[a] = s[a].every
      /\ \A a \in Account : a \notin starts /\ a \notin stays /\ sched[a] # NoTask => Stale(s, a)
      /\ \A a \in starts : a \notin stays
      /\ \A a \in stays : ~Stale(s, a)
  BY DEF SchedulersInShape, Stale
<1>3. \A t \in stopped : t \in Task /\ task[t].at # "free"
  BY DEF SchedulersInShape, Stale
<1>4. \A a \in stays : sched[a] \notin stopped
  BY <1>2 DEF SchedulersInShape, Stale
<1>5. \A a \in starts : id[a] \notin stopped /\ (CHOOSE b \in starts : id[b] = id[a]) = a
  BY <1>1, <1>2, <1>3
<1>6. \A a \in starts : task'[id[a]] = [of |-> a, at |-> "new", cancelled |-> FALSE]
  BY <1>1, <1>2, <1>5
<1>7. \A t \in stopped : task'[t] = [task[t] EXCEPT !.cancelled = TRUE]
  BY <1>1, <1>3
<1>8. \A t \in Task : t \notin stopped /\ (\A a \in starts : id[a] # t) => task'[t] = task[t]
  BY <1>1
<1>9. \A a \in stays : task'[sched[a]] = task[sched[a]]
  BY <1>2, <1>4, <1>8 DEF SchedulersInShape
<1>10. /\ \A a \in starts : sched'[a] = id[a] /\ every'[a] = s[a].every /\ due'[a] = s[a].every
       /\ \A a \in stays : sched'[a] = sched[a] /\ every'[a] = every[a] /\ due'[a] = due[a]
       /\ \A a \in Account : a \notin starts /\ a \notin stays => sched'[a] = NoTask
  BY <1>1, <1>2
<1>11. \A a \in starts : s[a].every \in Interval /\ s[a].every # 0
  BY BackupAssumption DEF Schedule
<1>12. /\ sched' \in [Account -> Task \cup {NoTask}]
       /\ every' \in [Account -> Interval \cup {0}] /\ due' \in [Account -> Interval \cup {0}]
  BY <1>1, <1>2, <1>11 DEF SchedulersInShape
<1>13. task' \in [Task -> [of : Account \cup {"none"}, at : {"free", "new", "sleep"},
                           cancelled : BOOLEAN]]
  <2> SUFFICES ASSUME NEW t \in Task
               PROVE  task'[t] \in [of : Account \cup {"none"}, at : {"free", "new", "sleep"},
                                    cancelled : BOOLEAN]
    BY <1>1
  <2>1. CASE t \in stopped
    <3>1. task[t] \in [of : Account \cup {"none"}, at : {"free", "new", "sleep"}, cancelled : BOOLEAN]
      BY DEF SchedulersInShape
    <3>2. QED
      BY <1>7, <2>1, <3>1
  <2>2. CASE \E a \in starts : id[a] = t
    <3>1. PICK a \in starts : id[a] = t
      BY <2>2
    <3>2. task'[t] = [of |-> a, at |-> "new", cancelled |-> FALSE] /\ a \in Account
      BY <1>6, <3>1
    <3>3. QED
      BY <3>2
  <2>3. QED
    BY <1>8, <2>1, <2>2 DEF SchedulersInShape
<1>14. \A t \in Task : task'[t].at # "free" =>
         task'[t].of \in Account /\ (task'[t].cancelled \/ sched'[task'[t].of] = t)
  <2> SUFFICES ASSUME NEW t \in Task, task'[t].at # "free"
               PROVE  task'[t].of \in Account /\ (task'[t].cancelled \/ sched'[task'[t].of] = t)
    OBVIOUS
  <2>1. CASE t \in stopped
    <3>1. task[t] \in [of : Account \cup {"none"}, at : {"free", "new", "sleep"}, cancelled : BOOLEAN]
      BY DEF SchedulersInShape
    <3>2. task'[t].of = task[t].of /\ task'[t].cancelled
      BY <1>7, <2>1, <3>1
    <3>3. QED
      BY <1>3, <2>1, <3>2 DEF SchedulersInShape
  <2>2. CASE \E a \in starts : id[a] = t
    <3>1. PICK a \in starts : id[a] = t
      BY <2>2
    <3>2. task'[t] = [of |-> a, at |-> "new", cancelled |-> FALSE] /\ a \in Account
      BY <1>6, <3>1
    <3>3. sched'[a] = t
      BY <1>10, <3>1
    <3>4. QED
      BY <3>2, <3>3
  <2>3. CASE t \notin stopped /\ \A a \in starts : id[a] # t
    <3>1. task'[t] = task[t] /\ task[t].of \in Account
      BY <1>8, <2>3 DEF SchedulersInShape
    <3>2. CASE ~task[t].cancelled
      <4>1. sched[task[t].of] = t /\ NoTask \notin Task
        BY <3>1, <3>2, BackupAssumption DEF SchedulersInShape
      <4>2. ~Stale(s, task[t].of)
        BY <2>3, <3>1, <4>1
      <4>3. task[t].of \in stays
        BY <1>2, <3>1, <4>1, <4>2
      <4>4. QED
        BY <1>10, <3>1, <4>1, <4>3
    <3>3. QED
      BY <3>1, <3>2
  <2>4. QED
    BY <2>1, <2>2, <2>3
<1>15. \A a \in Account : sched'[a] # NoTask =>
         /\ task'[sched'[a]].of = a /\ task'[sched'[a]].at # "free" /\ ~task'[sched'[a]].cancelled
         /\ every'[a] # 0 /\ due'[a] = every'[a] /\ life' = "up"
  <2> SUFFICES ASSUME NEW a \in Account, sched'[a] # NoTask
               PROVE  /\ task'[sched'[a]].of = a /\ task'[sched'[a]].at # "free"
                      /\ ~task'[sched'[a]].cancelled
                      /\ every'[a] # 0 /\ due'[a] = every'[a] /\ life' = "up"
    OBVIOUS
  <2>1. CASE a \in starts
    <3>1. task'[id[a]] = [of |-> a, at |-> "new", cancelled |-> FALSE]
      BY <1>6, <2>1
    <3>2. sched'[a] = id[a] /\ every'[a] = s[a].every /\ due'[a] = s[a].every /\ s[a].every # 0
      BY <1>10, <1>11, <2>1
    <3>3. QED
      BY <3>1, <3>2
  <2>2. CASE a \in stays
    <3>1. /\ task[sched[a]].of = a /\ task[sched[a]].at # "free" /\ ~task[sched[a]].cancelled
          /\ every[a] # 0 /\ due[a] = every[a]
      BY <1>2, <2>2 DEF SchedulersInShape
    <3>2. QED
      BY <1>9, <1>10, <2>2, <3>1
  <2>3. QED
    BY <1>10, <2>1, <2>2
<1>16. SchedulersInShape'
  BY <1>12, <1>13, <1>14, <1>15 DEF SchedulersInShape
<1>17. Scheduled'
  <2> SUFFICES ASSUME NEW a \in Account, Enabled(s, a)
               PROVE  /\ sched'[a] # NoTask /\ every'[a] = s[a].every
    BY <1>15, <1>16 DEF Scheduled, Enabled
  <2>1. a \in starts \/ a \in stays
    OBVIOUS
  <2>2. QED
    BY <1>2, <1>10, <2>1, BackupAssumption
<1>18. QED
  BY <1>16, <1>17

\* A task that goes takes only the entries it still owns.
LEMMA RetireFollows ==
  ASSUME SchedulersInShape, Scheduled, NEW t \in Task, task[t].at # "free", Retire(t),
         task[t].cancelled \/ life # "up" \/ ~Enabled(store, task[t].of),
         UNCHANGED <<store, life>>
  PROVE  SchedulersInShape' /\ Scheduled'
<1> DEFINE a == task[t].of
<1>1. a \in Account /\ task' = [task EXCEPT ![t] = FreeTask]
  BY DEF Retire, SchedulersInShape
<1>2. \A u \in Task : u # t => task'[u] = task[u]
  BY <1>1 DEF SchedulersInShape
<1>3. task'[t].at = "free"
  BY <1>1 DEF SchedulersInShape, FreeTask
<1>4. task' \in [Task -> [of : Account \cup {"none"}, at : {"free", "new", "sleep"},
                          cancelled : BOOLEAN]]
  BY <1>1 DEF SchedulersInShape, FreeTask
<1>5. CASE Owns(t)
  <2>1. /\ sched' = [sched EXCEPT ![a] = NoTask]
        /\ every' = [every EXCEPT ![a] = 0] /\ due' = [due EXCEPT ![a] = 0]
        /\ sched[a] = t
    BY <1>5 DEF Retire, Owns
  <2>2. \A b \in Account : b # a => sched'[b] = sched[b] /\ sched[b] # t
    BY <1>1, <2>1, BackupAssumption DEF SchedulersInShape
  <2>3. ~task[t].cancelled
    BY <1>1, <2>1, BackupAssumption DEF SchedulersInShape
  <2>4. SchedulersInShape'
    <3>1. /\ sched' \in [Account -> Task \cup {NoTask}]
          /\ every' \in [Account -> Interval \cup {0}] /\ due' \in [Account -> Interval \cup {0}]
      BY <1>1, <2>1 DEF SchedulersInShape
    <3>2. \A u \in Task : task'[u].at # "free" =>
            task'[u].of \in Account /\ (task'[u].cancelled \/ sched'[task'[u].of] = u)
      BY <1>2, <1>3, <2>1, <2>2 DEF SchedulersInShape
    <3>3. \A b \in Account : sched'[b] # NoTask =>
            /\ task'[sched'[b]].of = b /\ task'[sched'[b]].at # "free" /\ ~task'[sched'[b]].cancelled
            /\ every'[b] # 0 /\ due'[b] = every'[b] /\ life' = "up"
      BY <1>1, <1>2, <2>1, <2>2 DEF SchedulersInShape
    <3>4. QED
      BY <1>4, <3>1, <3>2, <3>3 DEF SchedulersInShape
  <2>5. Scheduled'
    BY <1>1, <1>2, <2>1, <2>2, <2>3 DEF Scheduled, SchedulersInShape, Enabled
  <2>6. QED
    BY <2>4, <2>5
<1>6. CASE ~Owns(t)
  <2>1. UNCHANGED <<sched, every, due>> /\ sched[a] # t
    BY <1>6 DEF Retire, Owns
  <2>2. \A b \in Account : sched[b] # t
    BY <1>1, <2>1, BackupAssumption DEF SchedulersInShape
  <2>3. SchedulersInShape'
    BY <1>2, <1>3, <1>4, <2>1, <2>2 DEF SchedulersInShape
  <2>4. Scheduled'
    BY <1>2, <2>1, <2>2 DEF Scheduled, SchedulersInShape, Enabled
  <2>5. QED
    BY <2>3, <2>4
<1>7. QED
  BY <1>5, <1>6

\* The head of the loop: the published time is of the interval in the store.
LEMMA LoopHeadFollows ==
  ASSUME SchedulersInShape, Scheduled, NEW t \in Task, task[t].at # "free", ~task[t].cancelled,
         NEW d, d = due[task[t].of] \/ d = store[task[t].of].every,
         LoopHead(t, d), UNCHANGED <<store, life>>
  PROVE  SchedulersInShape' /\ Scheduled'
<1> DEFINE a == task[t].of
<1>1. a \in Account /\ sched[a] = t
  BY DEF SchedulersInShape
<1>2. CASE life # "up" \/ ~Enabled(store, a)
  BY <1>2, RetireFollows DEF LoopHead
<1>3. CASE life = "up" /\ Enabled(store, a)
  <2>1. due[a] = store[a].every /\ every[a] = store[a].every /\ store[a].every # 0
    BY <1>1, <1>3, BackupAssumption DEF Scheduled, SchedulersInShape, Schedule
  <2>2. task' = [task EXCEPT ![t].at = "sleep"] /\ UNCHANGED <<sched, every>> /\ due' = due
    BY <1>1, <1>3, <2>1 DEF LoopHead, SchedulersInShape
  <2>3. task'[t] = [task[t] EXCEPT !.at = "sleep"]
        /\ \A u \in Task : u # t => task'[u] = task[u]
    BY <2>2 DEF SchedulersInShape
  <2>4. task[t] \in [of : Account \cup {"none"}, at : {"free", "new", "sleep"}, cancelled : BOOLEAN]
    BY DEF SchedulersInShape
  <2>5. task'[t].of = task[t].of /\ task'[t].at = "sleep" /\ ~task'[t].cancelled
    BY <2>3, <2>4
  <2>6. task' \in [Task -> [of : Account \cup {"none"}, at : {"free", "new", "sleep"},
                            cancelled : BOOLEAN]]
    BY <2>2, <2>4 DEF SchedulersInShape
  <2>7. SchedulersInShape'
    BY <2>2, <2>3, <2>5, <2>6 DEF SchedulersInShape
  <2>8. Scheduled'
    BY <2>2, <2>3, <2>5 DEF Scheduled, SchedulersInShape, Enabled
  <2>9. QED
    BY <2>7, <2>8
<1>4. QED
  BY <1>2, <1>3

\* The name a snapshot gets is a number: among the first |files|+1 one is free.
LEMMA FreeNameIsANumber ==
  ASSUME NEW a \in Account, IsFiniteSet(files[a]), files[a] \subseteq Snapshot
  PROVE  FreeName(a) \in Nat
<1> DEFINE C == Cardinality(files[a])
           free == (1..(C + 1)) \ Taken(a)
<1>1. C \in Nat
  BY FS_CardinalityType
<1>2. free # {}
  <2> SUFFICES ASSUME 1..(C + 1) \subseteq Taken(a) PROVE FALSE
    OBVIOUS
  <2> DEFINE U == {f \in files[a] : f.nth \in 1..(C + 1)}
             nth == [f \in U |-> f.nth]
  <2>1. IsFiniteSet(U) /\ Cardinality(U) <= C
    BY FS_Subset
  <2>2. nth \in Surjection(U, 1..(C + 1))
    <3>1. \A n \in 1..(C + 1) : \E f \in U : nth[f] = n
      BY DEF Taken, In
    <3>2. nth \in [U -> 1..(C + 1)]
      OBVIOUS
    <3>3. QED
      BY <3>1, <3>2 DEF Surjection
  <2>3. Cardinality(1..(C + 1)) <= Cardinality(U)
    BY <2>1, <2>2, FS_Surjection
  <2>4. Cardinality(1..(C + 1)) = C + 1
    BY <1>1, FS_Interval
  <2>5. Cardinality(U) \in Nat
    BY <2>1, FS_CardinalityType
  <2>6. QED
    BY <1>1, <2>1, <2>3, <2>4, <2>5
<1>3. PICK n \in free : \A m \in free : ~(<<m, n>> \in OpToRel(<, Nat))
  <2>1. free \subseteq Nat
    BY <1>1
  <2>2. QED
    BY <1>2, <2>1, NatLessThanWellFounded, WFMin
<1>4. n \in 1..(C + 1) /\ n \notin Taken(a)
  OBVIOUS
<1>5. 1..(n - 1) \subseteq Taken(a)
  <2> SUFFICES ASSUME NEW m \in 1..(n - 1), m \notin Taken(a) PROVE FALSE
    OBVIOUS
  <2>1. m \in free /\ m < n /\ m \in Nat /\ n \in Nat
    BY <1>1, <1>4
  <2>2. <<m, n>> \in OpToRel(<, Nat)
    BY <2>1 DEF OpToRel
  <2>3. QED
    BY <1>3, <2>1, <2>2
<1>6. FreeName(a) \in 1..(C + 1)
  BY <1>4, <1>5 DEF FreeName
<1>7. QED
  BY <1>1, <1>6

\* Names are in order.
LEMMA NamesAreOrdered ==
  ASSUME NEW f \in Snapshot, NEW g \in Snapshot, NEW h \in Snapshot, Newer(f, g), Newer(g, h)
  PROVE  Newer(f, h) /\ ~Newer(f, f)
<1>1. /\ {f.at, g.at, h.at} \subseteq Nat /\ {f.nth, g.nth, h.nth} \subseteq Nat
      /\ {f.as, g.as, h.as} \subseteq Nat
  BY BackupAssumption DEF Snapshot
<1>2. QED
  BY <1>1 DEF Newer

\* What is beyond the retention leaves as many later names as are kept.
LEMMA PruningKeepsTheNewest ==
  ASSUME NEW S, S \subseteq Snapshot, IsFiniteSet(S), NEW keep \in Nat \ {0},
         NEW f \in Beyond(S, keep)
  PROVE  Cardinality({g \in S \ Beyond(S, keep) : Newer(g, f)}) >= keep
<1> DEFINE N(g) == {h \in S : Newer(h, g)}
           K == {g \in S \ Beyond(S, keep) : Newer(g, f)}
           B == {g \in Beyond(S, keep) : g = f \/ Newer(g, f)}
           C == {Cardinality(N(g)) : g \in B}
<1>1. \A g \in S : IsFiniteSet(N(g)) /\ Cardinality(N(g)) \in Nat
  BY FS_Subset, FS_CardinalityType
<1>2. f \in B /\ B \subseteq S /\ \A g \in B : Cardinality(N(g)) >= keep
  BY DEF Beyond
<1>3. PICK c \in C : \A d \in C : ~(<<d, c>> \in OpToRel(<, Nat))
  <2>1. C \subseteq Nat /\ C # {}
    BY <1>1, <1>2
  <2>2. QED
    BY <2>1, NatLessThanWellFounded, WFMin
<1>4. PICK b \in B : c = Cardinality(N(b))
  OBVIOUS
<1>5. \A h \in S : Newer(h, b) => Newer(h, f)
  BY <1>2, <1>4, NamesAreOrdered
<1>6. ASSUME NEW h \in S, Newer(h, b) PROVE h \in K
  <2> SUFFICES ASSUME h \in B PROVE FALSE
    BY <1>5, <1>6 DEF Beyond
  <2>1. N(h) \subseteq N(b) /\ h \in N(b) /\ h \notin N(h)
    BY <1>2, <1>6, NamesAreOrdered
  <2>2. Cardinality(N(h)) < Cardinality(N(b))
    <3>1. Cardinality(N(h)) <= Cardinality(N(b)) /\ Cardinality(N(h)) # Cardinality(N(b))
      BY <1>1, <1>2, <2>1, FS_Subset
    <3>2. QED
      BY <1>1, <1>2, <3>1
  <2>3. <<Cardinality(N(h)), c>> \in OpToRel(<, Nat)
    BY <1>1, <1>2, <1>4, <2>2 DEF OpToRel
  <2>4. QED
    BY <1>3, <2>3
<1>7. N(b) \subseteq K /\ IsFiniteSet(K)
  BY <1>6, FS_Subset
<1>8. Cardinality(N(b)) <= Cardinality(K) /\ Cardinality(K) \in Nat /\ Cardinality(N(b)) \in Nat
  BY <1>7, FS_Subset, FS_CardinalityType
<1>9. QED
  BY <1>2, <1>8

\* Hence a pruned folder still accounts for what was in it.
LEMMA PruneKeepsSaved ==
  ASSUME SnapshotsStamped, NEW a \in Account, NEW keep \in Nat \ {0}, NEW f \in files[a]
  PROVE  Saved(f, (files[a] \ Beyond(In(a, f.dir), keep)) \cup deleted[a], keep)
<1> DEFINE S == In(a, f.dir)
           left == (files[a] \ Beyond(S, keep)) \cup deleted[a]
           K == {g \in S \ Beyond(S, keep) : Newer(g, f)}
<1>1. S \subseteq Snapshot /\ IsFiniteSet(S) /\ f \in S /\ S \subseteq files[a]
  BY FS_Subset DEF SnapshotsStamped, In
<1>2. CASE f \notin Beyond(S, keep)
  BY <1>2 DEF Saved
<1>3. CASE f \in Beyond(S, keep)
  <2>1. Cardinality(K) >= keep
    BY <1>1, <1>3, PruningKeepsTheNewest
  <2>2. K \subseteq Later(f, left)
    BY <1>1 DEF Later, In
  <2>3. IsFiniteSet(left)
    BY FS_Subset, FS_Union DEF SnapshotsStamped
  <2>4. IsFiniteSet(Later(f, left))
    BY <2>3, FS_Subset DEF Later
  <2>5. /\ Cardinality(K) <= Cardinality(Later(f, left))
        /\ Cardinality(K) \in Nat /\ Cardinality(Later(f, left)) \in Nat
    BY <2>2, <2>4, FS_Subset, FS_CardinalityType
  <2>6. QED
    BY <2>1, <2>5 DEF Saved
<1>4. QED
  BY <1>2, <1>3

\* What is saved stays so in more.
LEMMA SavedInMore ==
  ASSUME NEW f, NEW S, NEW U, S \subseteq U, IsFiniteSet(U), NEW keep \in Nat, Saved(f, S, keep)
  PROVE  Saved(f, U, keep)
<1>1. Later(f, S) \subseteq Later(f, U) /\ IsFiniteSet(Later(f, U))
  BY FS_Subset DEF Later
<1>2. /\ Cardinality(Later(f, S)) <= Cardinality(Later(f, U))
      /\ Cardinality(Later(f, S)) \in Nat /\ Cardinality(Later(f, U)) \in Nat
  BY <1>1, FS_Subset, FS_CardinalityType
<1>3. QED
  BY <1>2 DEF Saved

\* The scheduler half of the service: the runs, the lock and the folders are left alone.
LEMMA RunsUntouched ==
  ASSUME RunsInShape, SnapshotsStamped, WrittenIsThere,
         UNCHANGED <<run, lock, files, success, deleted>>
  PROVE  RunsInShape' /\ SnapshotsStamped' /\ WrittenIsThere'
<1>1. RunsInShape'
  BY DEF RunsInShape
<1>2. SnapshotsStamped'
  BY DEF SnapshotsStamped
<1>3. WrittenIsThere'
  BY DEF WrittenIsThere, Saved, Later
<1>4. QED
  BY <1>1, <1>2, <1>3

\* The run half: the schedulers are left alone.
LEMMA SchedulersUntouched ==
  ASSUME SchedulersInShape, Scheduled, UNCHANGED <<store, service>>
  PROVE  SchedulersInShape' /\ Scheduled'
  BY DEF SchedulersInShape, Scheduled, service, Enabled

\* A run, or a person, that leaves the folders alone.
LEMMA FilesUntouched ==
  ASSUME BackupInv, RunsInShape', UNCHANGED <<files, success, deleted>>,
         \A b \in Account : \/ run'[b] = run[b]
                            \/ run'[b].at \notin {"read", "written", "pruned"}
  PROVE  SnapshotsStamped' /\ WrittenIsThere'
<1> USE DEF BackupInv
<1>1. SnapshotsStamped'
  BY DEF SnapshotsStamped
<1>2. WrittenIsThere'
  BY DEF WrittenIsThere, Saved, Later
<1>3. QED
  BY <1>1, <1>2

\* PUT, DELETE and start: the schedulers follow the new rows.
LEMMA RowsFollowed ==
  ASSUME BackupInv, store' \in [Account -> Schedule], Reconcile(store'), life' = "up",
         UNCHANGED <<run, lock, files, success, deleted>>
  PROVE  BackupInv'
<1>1. SchedulersInShape' /\ Scheduled'
  BY ReconcileFollows DEF BackupInv
<1>2. QuietWhenDown'
  BY DEF QuietWhenDown
<1>3. QED
  BY <1>1, <1>2, RunsUntouched DEF BackupInv

LEMMA PutFollowed ==
  ASSUME BackupInv, NEW a \in Account, NEW s \in Schedule, PutSchedule(a, s)
  PROVE  BackupInv'
  BY RowsFollowed DEF PutSchedule, BackupInv, SchedulersInShape

LEMMA DeleteFollowed ==
  ASSUME BackupInv, NEW a \in Account, Delete(a)
  PROVE  BackupInv'
<1>1. store' \in [Account -> Schedule]
  <2>1. store[a] \in Schedule /\ store \in [Account -> Schedule]
    BY DEF BackupInv, SchedulersInShape
  <2>2. [store[a] EXCEPT !.there = FALSE] \in Schedule
    BY <2>1 DEF Schedule
  <2>3. store' = [store EXCEPT ![a] = [store[a] EXCEPT !.there = FALSE]]
    BY <2>1 DEF Delete
  <2>4. QED
    BY <2>1, <2>2, <2>3
<1>2. QED
  BY <1>1, RowsFollowed DEF Delete

LEMMA StartFollowed ==
  ASSUME BackupInv, Start
  PROVE  BackupInv'
  BY RowsFollowed DEF Start, stored, BackupInv, SchedulersInShape

\* The steps of a scheduler task.
LEMMA BeginSchedulerSound ==
  ASSUME BackupInv, NEW t \in Task, BeginScheduler(t)
  PROVE  BackupInv'
<1>1. SchedulersInShape' /\ Scheduled'
  BY LoopHeadFollows DEF BeginScheduler, BackupInv
<1>2. RunsInShape' /\ SnapshotsStamped' /\ WrittenIsThere'
  BY RunsUntouched DEF BeginScheduler, BackupInv
<1>3. QuietWhenDown'
  BY DEF BeginScheduler, BackupInv, QuietWhenDown, Live
<1>4. QED
  BY <1>1, <1>2, <1>3 DEF BackupInv

LEMMA CancelledSound ==
  ASSUME BackupInv, NEW t \in Task, Cancelled(t)
  PROVE  BackupInv'
<1>1. SchedulersInShape' /\ Scheduled'
  <2>1. CASE task[t].at = "new"
    <3>1. task' = [task EXCEPT ![t] = FreeTask] /\ UNCHANGED <<store, life, sched, every, due>>
      BY <2>1 DEF Cancelled
    <3>2. \A a \in Account : sched[a] # t
      BY BackupAssumption DEF Cancelled, BackupInv, SchedulersInShape
    <3>3. (\A u \in Task : u # t => task'[u] = task[u]) /\ task'[t] = FreeTask
      BY <3>1 DEF BackupInv, SchedulersInShape
    <3>4. task' \in [Task -> [of : Account \cup {"none"}, at : {"free", "new", "sleep"},
                              cancelled : BOOLEAN]]
      BY <3>1 DEF BackupInv, SchedulersInShape, FreeTask
    <3>5. SchedulersInShape'
      BY <3>1, <3>2, <3>3, <3>4 DEF BackupInv, SchedulersInShape, FreeTask
    <3>6. Scheduled'
      BY <3>1, <3>2, <3>3 DEF BackupInv, SchedulersInShape, Scheduled, Enabled
    <3>7. QED
      BY <3>5, <3>6
  <2>2. CASE task[t].at # "new"
    BY <2>2, RetireFollows DEF Cancelled, BackupInv
  <2>3. QED
    BY <2>1, <2>2
<1>2. RunsInShape' /\ SnapshotsStamped' /\ WrittenIsThere'
  BY RunsUntouched DEF Cancelled, BackupInv
<1>3. QuietWhenDown'
  BY DEF Cancelled, BackupInv, QuietWhenDown, Live
<1>4. QED
  BY <1>1, <1>2, <1>3 DEF BackupInv

\* A run that is queued is in shape.
LEMMA QueuedSound ==
  ASSUME BackupInv, NEW a \in Account, Queueable(a), run' = Queued(a),
         UNCHANGED <<lock, files, success, deleted>>
  PROVE  RunsInShape' /\ SnapshotsStamped' /\ WrittenIsThere'
<1>1. /\ run'[a].at = "queued" /\ run' \in [Account -> BackupRun]
      /\ \A b \in Account : b # a => run'[b] = run[b]
  BY DEF BackupInv, RunsInShape, Queued, NoBackup, BackupRun
<1>2. lock # a
  BY DEF BackupInv, RunsInShape, Queueable
<1>3. RunsInShape'
  BY <1>1, <1>2 DEF BackupInv, RunsInShape
<1>4. SnapshotsStamped' /\ WrittenIsThere'
  BY <1>1, <1>3, FilesUntouched
<1>5. QED
  BY <1>3, <1>4

LEMMA WakeSound ==
  ASSUME BackupInv, NEW t \in Task, Wake(t)
  PROVE  BackupInv'
<1> DEFINE a == task[t].of
<1>1. a \in Account /\ life = "up" /\ sched[a] = t
  BY BackupAssumption DEF Wake, BackupInv, SchedulersInShape
<1>2. SchedulersInShape' /\ Scheduled'
  BY <1>1, LoopHeadFollows DEF Wake, BackupInv
<1>3. RunsInShape' /\ SnapshotsStamped' /\ WrittenIsThere'
  BY <1>1, QueuedSound, RunsUntouched DEF Wake, BackupInv
<1>4. QuietWhenDown'
  BY <1>1 DEF Wake, QuietWhenDown
<1>5. QED
  BY <1>2, <1>3, <1>4 DEF BackupInv

LEMMA AskSound ==
  ASSUME BackupInv, NEW a \in Account, Ask(a)
  PROVE  BackupInv'
<1>1. SchedulersInShape' /\ Scheduled'
  BY SchedulersUntouched DEF Ask, stored, BackupInv
<1>2. RunsInShape' /\ SnapshotsStamped' /\ WrittenIsThere'
  BY QueuedSound DEF Ask, stored
<1>3. QuietWhenDown'
  BY DEF Ask, service, Queueable, QuietWhenDown
<1>4. QED
  BY <1>1, <1>2, <1>3 DEF BackupInv

\* The engine lock, and the service as it goes down.
LEMMA OtherTakesSound == BackupInv /\ OtherTakes => BackupInv'
<1> SUFFICES ASSUME BackupInv, OtherTakes PROVE BackupInv'
  OBVIOUS
<1>1. SchedulersInShape' /\ Scheduled'
  BY SchedulersUntouched DEF OtherTakes, stored, BackupInv
<1>2. RunsInShape'
  BY BackupAssumption DEF OtherTakes, BackupInv, RunsInShape
<1>3. SnapshotsStamped' /\ WrittenIsThere'
  BY <1>2, FilesUntouched DEF OtherTakes, stored
<1>4. QuietWhenDown'
  BY DEF OtherTakes, service, BackupInv, QuietWhenDown, Live
<1>5. QED
  BY <1>1, <1>2, <1>3, <1>4 DEF BackupInv

LEMMA OtherFreesSound == BackupInv /\ OtherFrees => BackupInv'
<1> SUFFICES ASSUME BackupInv, OtherFrees PROVE BackupInv'
  OBVIOUS
<1>1. SchedulersInShape' /\ Scheduled'
  BY SchedulersUntouched DEF OtherFrees, stored, BackupInv
<1>2. RunsInShape'
  BY BackupAssumption DEF OtherFrees, BackupInv, RunsInShape
<1>3. SnapshotsStamped' /\ WrittenIsThere'
  BY <1>2, FilesUntouched DEF OtherFrees, stored
<1>4. QuietWhenDown'
  BY DEF OtherFrees, service, BackupInv, QuietWhenDown, Live
<1>5. QED
  BY <1>1, <1>2, <1>3, <1>4 DEF BackupInv

LEMMA ShutdownSound == BackupInv /\ Shutdown => BackupInv'
<1> SUFFICES ASSUME BackupInv, Shutdown PROVE BackupInv'
  OBVIOUS
<1>1. task' \in [Task -> [of : Account \cup {"none"}, at : {"free", "new", "sleep"},
                          cancelled : BOOLEAN]]
  <2> SUFFICES ASSUME NEW t \in Task
               PROVE  task'[t] \in [of : Account \cup {"none"}, at : {"free", "new", "sleep"},
                                    cancelled : BOOLEAN]
    BY DEF Shutdown
  <2>1. task[t] \in [of : Account \cup {"none"}, at : {"free", "new", "sleep"}, cancelled : BOOLEAN]
    BY DEF BackupInv, SchedulersInShape
  <2>2. [task[t] EXCEPT !.cancelled = TRUE] \in [of : Account \cup {"none"}, at : {"free", "new", "sleep"},
                                    cancelled : BOOLEAN]
    BY <2>1
  <2>3. QED
    BY <2>1, <2>2 DEF Shutdown
<1>2. \A t \in Task : task'[t].at # "free" => task'[t].of \in Account /\ task'[t].cancelled
  <2> SUFFICES ASSUME NEW t \in Task, task'[t].at # "free"
               PROVE  task'[t].of \in Account /\ task'[t].cancelled
    OBVIOUS
  <2>1. task[t] \in [of : Account \cup {"none"}, at : {"free", "new", "sleep"}, cancelled : BOOLEAN]
    BY DEF BackupInv, SchedulersInShape
  <2>2. CASE \E a \in Account : sched[a] = t
    <3>1. task'[t] = [task[t] EXCEPT !.cancelled = TRUE]
      BY <2>2 DEF Shutdown
    <3>2. task'[t].cancelled /\ task'[t].of = task[t].of /\ task'[t].at = task[t].at
      BY <2>1, <3>1
    <3>3. QED
      BY <3>2 DEF BackupInv, SchedulersInShape
  <2>3. CASE ~\E a \in Account : sched[a] = t
    <3>1. task'[t] = task[t]
      BY <2>3 DEF Shutdown
    <3>2. QED
      BY <2>3, <3>1 DEF BackupInv, SchedulersInShape
  <2>4. QED
    BY <2>2, <2>3
<1>3. SchedulersInShape' /\ Scheduled' /\ QuietWhenDown'
  BY <1>1, <1>2 DEF Shutdown, stored, BackupInv, SchedulersInShape, Scheduled, QuietWhenDown
<1>4. QED
  BY <1>3, RunsUntouched DEF Shutdown, stored, BackupInv

LEMMA ShutDownSound == BackupInv /\ ShutDown => BackupInv'
<1> SUFFICES ASSUME BackupInv, ShutDown PROVE BackupInv'
  OBVIOUS
<1>1. SchedulersInShape' /\ Scheduled' /\ QuietWhenDown'
  BY DEF ShutDown, stored, BackupInv, SchedulersInShape, Scheduled, QuietWhenDown, Live
<1>2. QED
  BY <1>1, RunsUntouched DEF ShutDown, stored, BackupInv

LEMMA CrashSound == BackupInv /\ BackupCrash => BackupInv'
<1> SUFFICES ASSUME BackupInv, BackupCrash PROVE BackupInv'
  OBVIOUS
<1>1. SchedulersInShape' /\ Scheduled' /\ QuietWhenDown'
  BY DEF BackupCrash, stored, BackupInv, SchedulersInShape, Scheduled, QuietWhenDown, Live,
         FreeTask, NoBackup
<1>2. RunsInShape'
  BY BackupAssumption DEF BackupCrash, NoBackup, RunsInShape, BackupRun
<1>3. SnapshotsStamped' /\ WrittenIsThere'
  BY <1>2, FilesUntouched DEF BackupCrash, stored, NoBackup
<1>4. QED
  BY <1>1, <1>2, <1>3 DEF BackupInv

\* A run moves: who it is does not change, and what it has in hand is one of the records.
Moves(a, there) ==
  /\ run' \in [Account -> BackupRun] /\ run'[a].at = there
  /\ \A b \in Account : b # a => run'[b] = run[b]
LEMMA GoesMoves ==
  ASSUME BackupInv, NEW a \in Account,
         NEW there \in {"none", "queued", "waiting", "reading", "read", "written", "pruned", "done"},
         Goes(a, there)
  PROVE  Moves(a, there) /\ run'[a] = [run[a] EXCEPT !.at = there]
<1>1. run \in [Account -> BackupRun] /\ run[a] \in BackupRun
  BY DEF BackupInv, RunsInShape
<1>2. run'[a] = [run[a] EXCEPT !.at = there] /\ run' = [run EXCEPT ![a] = [run[a] EXCEPT !.at = there]]
  BY <1>1 DEF Goes
<1>3. [run[a] EXCEPT !.at = there] \in BackupRun
  BY <1>1 DEF BackupRun
<1>4. run'[a].at = there
  BY <1>1, <1>2 DEF BackupRun
<1>5. QED
  BY <1>1, <1>2, <1>3, <1>4 DEF Moves

\* The runs of a service that is not down.
LEMMA QuietWhileRunning ==
  ASSUME BackupInv, NEW a \in Account, run[a].at # "none", UNCHANGED <<life, task>>,
         run[a].at # "done" \/ run'[a].at = "none",
         \A b \in Account : b # a => run'[b] = run[b]
  PROVE  QuietWhenDown'
  BY DEF BackupInv, QuietWhenDown, Live

LEMMA BeginBackupSound ==
  ASSUME BackupInv, NEW a \in Account, BeginBackup(a)
  PROVE  BackupInv'
<1>1. SchedulersInShape' /\ Scheduled'
  BY SchedulersUntouched DEF BeginBackup, stored, BackupInv
<1>2. /\ run' \in [Account -> BackupRun] /\ \A b \in Account : b # a => run'[b] = run[b]
      /\ run'[a].at \in {"waiting", "done"}
      /\ run'[a].at = "waiting" => run'[a].dir \in Dir /\ run'[a].as \in Format
  <2>1. /\ run \in [Account -> BackupRun] /\ run[a] \in BackupRun
        /\ store[a].keep \in Nat /\ store[a].dir \in Dir /\ store[a].as \in Format
    BY BackupAssumption DEF BackupInv, RunsInShape, SchedulersInShape, Schedule
  <2>2. CASE store[a].there
    <3>1. run' = [run EXCEPT ![a] = [run[a] EXCEPT !.at = "waiting", !.keep = store[a].keep,
                                                   !.dir = store[a].dir, !.as = store[a].as]]
      BY <2>2 DEF BeginBackup
    <3>2. [run[a] EXCEPT !.at = "waiting", !.keep = store[a].keep, !.dir = store[a].dir,
                        !.as = store[a].as] \in BackupRun
      BY <2>1 DEF BackupRun
    <3>3. QED
      BY <2>1, <3>1, <3>2 DEF BackupRun
  <2>3. CASE ~store[a].there
    <3>1. run' = [run EXCEPT ![a] = [run[a] EXCEPT !.at = "done"]]
      BY <2>3 DEF BeginBackup
    <3>2. [run[a] EXCEPT !.at = "done"] \in BackupRun
      BY <2>1 DEF BackupRun
    <3>3. QED
      BY <2>1, <3>1, <3>2 DEF BackupRun
  <2>4. QED
    BY <2>2, <2>3
<1>3. RunsInShape'
  BY <1>2 DEF BeginBackup, At, BackupInv, RunsInShape
<1>4. SnapshotsStamped' /\ WrittenIsThere'
  BY <1>2, <1>3, FilesUntouched DEF BeginBackup, stored
<1>5. QuietWhenDown'
  BY <1>2, QuietWhileRunning DEF BeginBackup, At, service
<1>6. QED
  BY <1>1, <1>3, <1>4, <1>5 DEF BackupInv

LEMMA AcquireSound ==
  ASSUME BackupInv, NEW a \in Account, Acquire(a)
  PROVE  BackupInv'
<1>1. SchedulersInShape' /\ Scheduled'
  BY SchedulersUntouched DEF Acquire, stored, BackupInv
<1>2. Moves(a, "reading") /\ run'[a] = [run[a] EXCEPT !.at = "reading"]
  BY GoesMoves DEF Acquire
<1>3. run'[a].dir = run[a].dir /\ run'[a].as = run[a].as
  BY <1>2 DEF BackupInv, RunsInShape, BackupRun
<1>4. RunsInShape'
  BY <1>2, <1>3, BackupAssumption DEF Moves, Acquire, At, BackupInv, RunsInShape
<1>5. SnapshotsStamped' /\ WrittenIsThere'
  BY <1>2, <1>4, FilesUntouched DEF Moves, Acquire, stored
<1>6. QuietWhenDown'
  BY <1>2, QuietWhileRunning DEF Moves, Acquire, At, service
<1>7. QED
  BY <1>1, <1>4, <1>5, <1>6 DEF BackupInv

LEMMA FailSound ==
  ASSUME BackupInv, NEW a \in Account, Fail(a)
  PROVE  BackupInv'
<1>1. SchedulersInShape' /\ Scheduled'
  BY SchedulersUntouched DEF Fail, stored, BackupInv
<1>2. Moves(a, "done")
  BY GoesMoves DEF Fail
<1>3. RunsInShape'
  BY <1>2, BackupAssumption DEF Moves, Fail, BackupInv, RunsInShape
<1>4. SnapshotsStamped' /\ WrittenIsThere'
  BY <1>2, <1>3, FilesUntouched DEF Moves, Fail, stored
<1>5. QuietWhenDown'
  BY <1>2, QuietWhileRunning DEF Moves, Fail, service
<1>6. QED
  BY <1>1, <1>3, <1>4, <1>5 DEF BackupInv

LEMMA FinishedSound ==
  ASSUME BackupInv, NEW a \in Account, Finished(a)
  PROVE  BackupInv'
<1>1. SchedulersInShape' /\ Scheduled'
  BY SchedulersUntouched DEF Finished, stored, BackupInv
<1>2. Moves(a, "none")
  BY DEF Finished, BackupInv, RunsInShape, BackupRun, NoBackup, Moves
<1>3. RunsInShape'
  BY <1>2 DEF Moves, Finished, At, BackupInv, RunsInShape
<1>4. SnapshotsStamped' /\ WrittenIsThere'
  BY <1>2, <1>3, FilesUntouched DEF Moves, Finished, stored
<1>5. QuietWhenDown'
  BY <1>2, QuietWhileRunning DEF Moves, Finished, At, service
<1>6. QED
  BY <1>1, <1>3, <1>4, <1>5 DEF BackupInv

\* A run writes, or has nothing in hand yet: the others keep what they have.
LEMMA OthersUntouched ==
  ASSUME WrittenIsThere, NEW a \in Account,
         \/ run'[a].at = "read"
         \/ \E f \in files'[a] \cup deleted'[a] :
              run'[a].at = "written" /\ run'[a].file = {f} /\ f.dir = run'[a].dir,
         \A b \in Account : b # a => UNCHANGED <<files[b], deleted[b], run[b]>>
  PROVE  WrittenIsThere'
<1> DEFINE Fine(b) ==
      /\ run'[b].at = "written" =>
           \E f \in files'[b] \cup deleted'[b] : run'[b].file = {f} /\ f.dir = run'[b].dir
      /\ run'[b].at = "pruned" =>
           \E f \in Snapshot :
             run'[b].file = {f} /\ Saved(f, files'[b] \cup deleted'[b], run'[b].keep)
<1>1. ASSUME NEW b \in Account, b # a PROVE Fine(b)
  <2>1. files'[b] = files[b] /\ deleted'[b] = deleted[b] /\ run'[b] = run[b]
    BY <1>1
  <2>2. QED
    BY <2>1 DEF WrittenIsThere
<1>2. Fine(a)
  OBVIOUS
<1>3. \A b \in Account : Fine(b)
  BY <1>1, <1>2
<1>4. QED
  BY <1>3 DEF WrittenIsThere, Saved, Later

LEMMA ReadSound ==
  ASSUME BackupInv, NEW a \in Account, Read(a)
  PROVE  BackupInv'
<1>1. SchedulersInShape' /\ Scheduled'
  BY SchedulersUntouched DEF Read, stored, BackupInv
<1>2. PICK s \in Stamp : run' = [run EXCEPT ![a].at = "read", ![a].stamp = s]
  BY DEF Read
<1>3. /\ Moves(a, "read") /\ run'[a].stamp = s /\ run'[a].dir = run[a].dir /\ run'[a].as = run[a].as
  <2>1. run \in [Account -> BackupRun] /\ run[a] \in BackupRun
    BY DEF BackupInv, RunsInShape
  <2>2. run' = [run EXCEPT ![a] = [run[a] EXCEPT !.at = "read", !.stamp = s]]
    BY <1>2
  <2>3. [run[a] EXCEPT !.at = "read", !.stamp = s] \in BackupRun
    BY <2>1 DEF BackupRun
  <2>4. QED
    BY <2>1, <2>2, <2>3 DEF Moves, BackupRun
<1>4. RunsInShape'
  BY <1>3, BackupAssumption DEF Moves, Read, At, BackupInv, RunsInShape
<1>5. SnapshotsStamped'
  BY DEF Read, stored, BackupInv, SnapshotsStamped
<1>6. WrittenIsThere'
  BY <1>3, OthersUntouched DEF Moves, Read, stored, BackupInv
<1>7. QuietWhenDown'
  BY <1>3, QuietWhileRunning DEF Moves, Read, At, service
<1>8. QED
  BY <1>1, <1>4, <1>5, <1>6, <1>7 DEF BackupInv

LEMMA WriteSound ==
  ASSUME BackupInv, NEW a \in Account, Write(a)
  PROVE  BackupInv'
<1> DEFINE f == [dir |-> run[a].dir, at |-> run[a].stamp, nth |-> FreeName(a),
                as |-> run[a].as]
<1>1. SchedulersInShape' /\ Scheduled'
  BY SchedulersUntouched DEF Write, BackupInv
<1>2. f \in Snapshot /\ f.dir = run[a].dir
  BY FreeNameIsANumber DEF Write, At, Snapshot, BackupInv, RunsInShape, BackupRun, SnapshotsStamped
<1> HIDE DEF f
<1>3. /\ files' = [files EXCEPT ![a] = files[a] \cup {f}]
      /\ deleted' = [deleted EXCEPT ![a] = deleted[a] \ {f}]
      /\ run' = [run EXCEPT ![a].at = "written", ![a].file = {f}]
      /\ UNCHANGED <<success, lock>> /\ run[a].at = "read"
  BY DEF Write, f, At
<1>4. /\ Moves(a, "written") /\ run'[a].as = run[a].as /\ run'[a].dir = run[a].dir
      /\ run'[a].file = {f}
  <2>1. run \in [Account -> BackupRun] /\ run[a] \in BackupRun
    BY DEF BackupInv, RunsInShape
  <2>2. run' = [run EXCEPT ![a] = [run[a] EXCEPT !.at = "written", !.file = {f}]]
    BY <1>3
  <2>3. [run[a] EXCEPT !.at = "written", !.file = {f}] \in BackupRun
    BY <1>2, <2>1 DEF BackupRun
  <2>4. QED
    BY <2>1, <2>2, <2>3 DEF Moves, BackupRun
<1>5. RunsInShape'
  BY <1>3, <1>4 DEF Moves, BackupInv, RunsInShape
<1>6. SnapshotsStamped'
  <2>1. /\ files' \in [Account -> SUBSET Snapshot] /\ deleted' \in [Account -> SUBSET Snapshot]
        /\ files'[a] = files[a] \cup {f} /\ \A b \in Account : b # a => files'[b] = files[b]
    BY <1>2, <1>3 DEF BackupInv, SnapshotsStamped
  <2>2. IsFiniteSet(files'[a]) /\ IsFiniteSet(deleted'[a])
    <3>1. IsFiniteSet(files[a]) /\ IsFiniteSet(deleted[a])
      BY DEF BackupInv, SnapshotsStamped
    <3>2. IsFiniteSet(files[a] \cup {f}) /\ IsFiniteSet(deleted[a] \ {f})
      BY <3>1, FS_AddElement, FS_Subset
    <3>3. deleted'[a] = deleted[a] \ {f}
      BY <1>3 DEF BackupInv, SnapshotsStamped
    <3>4. QED
      BY <2>1, <3>2, <3>3
  <2>3. \A b \in Account : b # a => deleted'[b] = deleted[b]
    BY <1>3 DEF BackupInv, SnapshotsStamped
  <2>4. QED
    BY <1>3, <2>1, <2>2, <2>3 DEF BackupInv, SnapshotsStamped
<1>7. WrittenIsThere'
  <2>1. f \in files'[a]
    BY <1>3 DEF BackupInv, SnapshotsStamped
  <2>2. \A b \in Account : b # a => UNCHANGED <<files[b], deleted[b], run[b]>>
    BY <1>3, <1>4 DEF Moves, BackupInv, SnapshotsStamped
  <2>3. run'[a].at = "written" /\ run'[a].file = {f} /\ f.dir = run'[a].dir
    BY <1>2, <1>4 DEF Moves
  <2>4. QED
    BY <2>1, <2>2, <2>3, OthersUntouched DEF BackupInv
<1>8. QuietWhenDown'
  BY <1>3, <1>4, QuietWhileRunning DEF Moves, Write, service
<1>9. QED
  BY <1>1, <1>5, <1>6, <1>7, <1>8 DEF BackupInv

LEMMA PruneSound ==
  ASSUME BackupInv, NEW a \in Account, Prune(a)
  PROVE  BackupInv'
<1>1. SchedulersInShape' /\ Scheduled'
  BY SchedulersUntouched DEF Prune, BackupInv
<1>2. Moves(a, "pruned") /\ run'[a] = [run[a] EXCEPT !.at = "pruned"]
  BY GoesMoves DEF Prune
<1>3. /\ run'[a].dir = run[a].dir /\ run'[a].as = run[a].as /\ run'[a].file = run[a].file
      /\ run'[a].keep = run[a].keep
      /\ run[a].keep \in Nat
  BY <1>2 DEF BackupInv, RunsInShape, BackupRun
<1>4. RunsInShape'
  BY <1>2, <1>3 DEF Moves, Prune, At, BackupInv, RunsInShape
<1>5. /\ files' \in [Account -> SUBSET Snapshot] /\ \A b \in Account : b # a => files'[b] = files[b]
      /\ files'[a] \subseteq files[a]
      /\ files'[a] = IF run[a].keep = 0 THEN files[a]
                     ELSE files[a] \ Beyond(In(a, run[a].dir), run[a].keep)
  BY DEF Prune, BackupInv, SnapshotsStamped
<1>6. SnapshotsStamped'
  <2>1. IsFiniteSet(files'[a])
    BY <1>5, FS_Subset DEF BackupInv, SnapshotsStamped
  <2>2. QED
    BY <1>2, <1>3, <1>5, <2>1 DEF Prune, At, Moves, BackupInv, SnapshotsStamped
<1>7. WrittenIsThere'
  <2>1. PICK f \in files[a] \cup deleted[a] : run[a].file = {f} /\ f.dir = run[a].dir
    BY DEF Prune, At, BackupInv, WrittenIsThere
  <2>2. f \in Snapshot
    BY <2>1 DEF BackupInv, SnapshotsStamped
  <2>3. Saved(f, files'[a] \cup deleted[a], run[a].keep)
    <3>1. CASE f \in deleted[a] \/ run[a].keep = 0
      BY <1>5, <2>1, <3>1 DEF Saved
    <3>2. CASE f \in files[a] /\ run[a].keep # 0
      BY <1>3, <1>5, <2>1, <3>2, PruneKeepsSaved DEF BackupInv
    <3>3. QED
      BY <2>1, <3>1, <3>2
  <2>4. QED
    <3>1. deleted' = deleted
      BY DEF Prune
    <3>2. run'[a].at = "pruned" /\ run'[a].file = {f}
      BY <1>2, <1>3, <2>1 DEF Moves
    <3>3. \A b \in Account : b # a => run'[b] = run[b] /\ files'[b] = files[b]
      BY <1>2, <1>5 DEF Moves
    <3>4. ASSUME NEW b \in Account, b # a
          PROVE  /\ run'[b].at = "written" =>
                      \E g \in files'[b] \cup deleted'[b] :
                        run'[b].file = {g} /\ g.dir = run'[b].dir
                 /\ run'[b].at = "pruned" =>
                      \E g \in Snapshot :
                        run'[b].file = {g} /\ Saved(g, files'[b] \cup deleted'[b], run'[b].keep)
      BY <3>1, <3>3, <3>4, ZenonT(40) DEF BackupInv, WrittenIsThere
    <3>5. QED
      BY <1>3, <2>2, <2>3, <3>1, <3>2, <3>4 DEF WrittenIsThere, Saved, Later
<1>8. QuietWhenDown'
  BY <1>2, QuietWhileRunning DEF Moves, Prune, At, service
<1>9. QED
  BY <1>1, <1>4, <1>6, <1>7, <1>8 DEF BackupInv

LEMMA RecordSound ==
  ASSUME BackupInv, NEW a \in Account, Record(a)
  PROVE  BackupInv'
<1>1. SchedulersInShape' /\ Scheduled'
  BY SchedulersUntouched DEF Record, BackupInv
<1>2. Moves(a, "done")
  BY GoesMoves DEF Record
<1>3. RunsInShape'
  BY <1>2 DEF Moves, Record, At, BackupInv, RunsInShape
<1>4. SnapshotsStamped'
  BY <1>2 DEF Moves, Record, BackupInv, SnapshotsStamped, RunsInShape, BackupRun
<1>5. WrittenIsThere'
  BY <1>2, SMTT(40) DEF Moves, Record, BackupInv, WrittenIsThere, Saved, Later
<1>6. QuietWhenDown'
  BY <1>2, QuietWhileRunning DEF Moves, Record, At, service
<1>7. QED
  BY <1>1, <1>3, <1>4, <1>5, <1>6 DEF BackupInv

LEMMA DeleteSnapshotSound ==
  ASSUME BackupInv, NEW a \in Account, NEW h \in files[a], DeleteSnapshot(a, h)
  PROVE  BackupInv'
<1>1. SchedulersInShape' /\ Scheduled'
  BY SchedulersUntouched DEF DeleteSnapshot, BackupInv
<1>2. RunsInShape' /\ QuietWhenDown'
  BY DEF DeleteSnapshot, service, BackupInv, RunsInShape, QuietWhenDown, Live
<1>3. /\ files' \in [Account -> SUBSET Snapshot] /\ deleted' \in [Account -> SUBSET Snapshot]
      /\ files'[a] = files[a] \ {h} /\ deleted'[a] = deleted[a] \cup {h}
      /\ \A b \in Account : b # a => files'[b] = files[b] /\ deleted'[b] = deleted[b]
  BY DEF DeleteSnapshot, BackupInv, SnapshotsStamped
<1>4. SnapshotsStamped'
  <2>1. IsFiniteSet(files'[a]) /\ IsFiniteSet(deleted'[a])
    BY <1>3, FS_Subset, FS_AddElement DEF BackupInv, SnapshotsStamped
  <2>2. QED
    BY <1>3, <2>1 DEF DeleteSnapshot, BackupInv, SnapshotsStamped
<1>5. WrittenIsThere'
  <2> SUFFICES ASSUME NEW b \in Account
               PROVE  /\ run[b].at = "written" =>
                           \E f \in files'[b] \cup deleted'[b] : run[b].file = {f} /\ f.dir = run[b].dir
                      /\ run[b].at = "pruned" =>
                           \E f \in Snapshot :
                             run[b].file = {f} /\ Saved(f, files'[b] \cup deleted'[b], run[b].keep)
    BY DEF DeleteSnapshot, WrittenIsThere, Saved, Later
  <2>1. files[b] \cup deleted[b] \subseteq files'[b] \cup deleted'[b]
    BY <1>3
  <2>2. IsFiniteSet(files'[b] \cup deleted'[b]) /\ run[b].keep \in Nat
    BY <1>4, FS_Union DEF SnapshotsStamped, BackupInv, RunsInShape, BackupRun
  <2>3. QED
    BY <2>1, <2>2, SavedInMore DEF BackupInv, WrittenIsThere
<1>6. QED
  BY <1>1, <1>2, <1>4, <1>5 DEF BackupInv

\* Every step keeps the books of the schedules and of the runs.
LEMMA BackupStep == BackupInv /\ [BackupNext]_backupVars => BackupInv'
<1> SUFFICES ASSUME BackupInv, [BackupNext]_backupVars PROVE BackupInv'
  OBVIOUS
<1>1. ASSUME NEW a \in Account, \E s \in Schedule : PutSchedule(a, s) PROVE BackupInv'
  BY <1>1, PutFollowed
<1>2. ASSUME NEW a \in Account, Delete(a) \/ Ask(a) PROVE BackupInv'
  BY <1>2, DeleteFollowed, AskSound
<1>3. ASSUME NEW a \in Account, RunStep(a) PROVE BackupInv'
  BY <1>3, BeginBackupSound, AcquireSound, ReadSound, FailSound, WriteSound, PruneSound,
     RecordSound, FinishedSound DEF RunStep
<1>4. ASSUME NEW a \in Account, \E f \in files[a] : DeleteSnapshot(a, f) PROVE BackupInv'
  BY <1>4, DeleteSnapshotSound
<1>5. ASSUME NEW t \in Task, BeginScheduler(t) \/ Wake(t) \/ Cancelled(t) PROVE BackupInv'
  BY <1>5, BeginSchedulerSound, WakeSound, CancelledSound
<1>6. CASE UNCHANGED backupVars
  <2>1. SchedulersInShape' /\ Scheduled'
    BY <1>6, SchedulersUntouched DEF backupVars, service, BackupInv
  <2>2. RunsInShape' /\ SnapshotsStamped' /\ WrittenIsThere'
    BY <1>6, RunsUntouched DEF backupVars, BackupInv
  <2>3. QuietWhenDown'
    BY <1>6 DEF backupVars, BackupInv, QuietWhenDown, Live
  <2>4. QED
    BY <2>1, <2>2, <2>3 DEF BackupInv
<1>7. QED
  BY <1>1, <1>2, <1>3, <1>4, <1>5, <1>6, OtherTakesSound, OtherFreesSound, ShutdownSound,
     ShutDownSound, StartFollowed, CrashSound DEF BackupNext

LEMMA BackupHolds == BackupSpec => []BackupInv
  BY BackupStarts, BackupStep, PTL DEF BackupSpec

\* Scheduler tasks follow the rows of the store: an enabled schedule of a running service has one
\* scheduler of its own, made for the interval in the store, and shutdown leaves none behind.
THEOREM TasksFollowRowsHolds == BackupSpec => []TasksFollowRows
<1>1. BackupInv => TasksFollowRows
  <2> SUFFICES ASSUME BackupInv PROVE TasksFollowRows
    OBVIOUS
  <2>1. BackupTypeOK
    BY DEF BackupInv, SchedulersInShape, RunsInShape, SnapshotsStamped, BackupRun, BackupTypeOK
  <2>2. QED
    BY <2>1 DEF BackupInv, TasksFollowRows
<1>2. QED
  BY <1>1, BackupHolds, PTL

\* The file a recorded success names is on disk, or deleted by a person, or the folder has as
\* many later names as are kept, however many runs and deletions came between and whatever the
\* clock said.
THEOREM SavedIsThereHolds == BackupSpec => SavedIsThere
<1> DEFINE There ==
      \A a \in Account : success'[a] # success[a] =>
        LET there == files[a] \cup deleted[a] IN
        \A f \in success'[a] :
          f \in there \/ (run[a].keep > 0 /\ Cardinality(Later(f, there)) >= run[a].keep)
<1>1. BackupInv /\ BackupNext => There
  <2> SUFFICES ASSUME BackupInv, BackupNext, NEW a \in Account, success'[a] # success[a]
               PROVE  \A f \in success'[a] : Saved(f, files[a] \cup deleted[a], run[a].keep)
    BY DEF Saved
  <2>1. PICK b \in Account : Record(b)
    <3>1. ASSUME NEW b \in Account, \/ \E s \in Schedule : PutSchedule(b, s)
                                    \/ Delete(b) \/ Ask(b)
                                    \/ \E f \in files[b] : DeleteSnapshot(b, f)
          PROVE  FALSE
      BY <3>1 DEF PutSchedule, Delete, Ask, DeleteSnapshot, stored
    <3>2. ASSUME NEW b \in Account, RunStep(b), ~Record(b) PROVE FALSE
      BY <3>2 DEF RunStep, BeginBackup, Acquire, Read, Fail, Write, Prune, Finished, stored
    <3>3. ASSUME NEW t \in Task, BeginScheduler(t) \/ Wake(t) \/ Cancelled(t) PROVE FALSE
      BY <3>3 DEF BeginScheduler, Wake, Cancelled
    <3>4. ~(OtherTakes \/ OtherFrees \/ Shutdown \/ ShutDown \/ Start \/ BackupCrash)
      BY DEF OtherTakes, OtherFrees, Shutdown, ShutDown, Start, BackupCrash, stored
    <3>5. QED
      BY <3>1, <3>2, <3>3, <3>4 DEF BackupNext
  <2>2. b = a /\ success'[a] = run[a].file
    BY <2>1 DEF Record, BackupInv, SnapshotsStamped
  <2>3. \E f \in Snapshot : run[a].file = {f} /\ Saved(f, files[a] \cup deleted[a], run[a].keep)
    BY <2>1, <2>2 DEF Record, At, BackupInv, WrittenIsThere
  <2>4. QED
    BY <2>2, <2>3
<1>2. UNCHANGED backupVars => There
  BY DEF backupVars
<1>3. BackupInv /\ [BackupNext]_backupVars => [There]_backupVars
  BY <1>1, <1>2
<1>4. QED
  BY <1>3, BackupHolds, PTL DEF BackupSpec, SavedIsThere

(***************************************************************************)
(* Playlist reads.                                                         *)
(***************************************************************************)

\* The rows a read has gone past, and those ahead of it.
Passed(n) == {shelf[k] : k \in {j \in DOMAIN shelf : j <= n}}
Ahead(n) == {shelf[k] : k \in {j \in DOMAIN shelf : j > n}}

\* What a read misses of S, and how many of its rows repeat an earlier one.
Missed(s, S) == (s.start \cap S) \ ToSet(s.got)
Repeats(s) == Len(s.got) - Cardinality(ToSet(s.got))

\* The accounts of a read: as many missed as removed, as many repeated as added, where the rows
\* that it has and that stand ahead of it will be the next to repeat.
Midway(s) ==
  /\ Cardinality(Missed(s, Passed(s.at))) <= s.removed
  /\ Cardinality(Ahead(s.at) \cap ToSet(s.got)) + Repeats(s) <= s.added
Complete(s) ==
  /\ Cardinality(Missed(s, ToSet(shelf))) <= s.removed
  /\ Repeats(s) <= s.added
Counts == scan.sound
ReadAccounted == Counts => (scan.open => Midway(scan)) /\ (scan.done => Complete(scan))

Scan == [open : BOOLEAN, done : BOOLEAN, got : Seq(1..MaxEntry), at : Nat, total : -1..MaxEntry,
         start : SUBSET (1..MaxEntry), removed : Nat, added : Nat, sound : BOOLEAN, raced : BOOLEAN,
         turn : BOOLEAN]
Made == 1..(fresh - 1)

\* A read knows nothing of the future, and nothing that is gone unless a removal ran beside it.
ScanSound(s) ==
  /\ s \in Scan
  /\ s.start \subseteq Made /\ ToSet(s.got) \subseteq Made
  /\ s.open => /\ ~s.done
               /\ cut.phase # "none" => s.raced
               /\ ~s.raced => ToSet(s.got) \cap erased = {}

ShelfInShape ==
  /\ reader \in Readers /\ fresh \in 1..(MaxEntry + 1)
  /\ shelf \in Seq(1..MaxEntry) /\ IsInjective(shelf)
  /\ ToSet(shelf) \subseteq Made /\ erased \subseteq Made
  /\ ToSet(shelf) \cap erased = {}
CopiesInShape ==
  /\ view \in Seq(1..MaxEntry)
  /\ cache \in [held : BOOLEAN, rows : Seq(1..MaxEntry), raced : BOOLEAN]
  /\ cache.held => reader.keeps
  /\ cache.held /\ cut.phase # "none" => cache.raced
  /\ cache.held /\ ~cache.raced => ToSet(cache.rows) \cap erased = {}
PicksInShape ==
  /\ picked \subseteq 1..MaxEntry
  /\ cut \in [phase : {"none", "check", "send"}, picks : SUBSET (Nat \X (1..MaxEntry)),
              drifted : BOOLEAN]
  /\ cut.phase # "none" => \A p \in cut.picks : p[2] \in picked
  /\ cut.phase = "send" /\ reader.drops = "index" /\ ~cut.drifted => \A p \in cut.picks : Stands(p)

ReadInv == ShelfInShape /\ ScanSound(scan) /\ CopiesInShape /\ PicksInShape /\ ReadAccounted

\* The elements of a sequence are no more than it is long, and as many when none is twice.
LEMMA ElementsCounted ==
  ASSUME NEW T, NEW s \in Seq(T)
  PROVE  /\ ToSet(s) \subseteq T /\ IsFiniteSet(ToSet(s))
         /\ Cardinality(ToSet(s)) \in Nat /\ Cardinality(ToSet(s)) <= Len(s)
         /\ IsInjective(s) => Cardinality(ToSet(s)) = Len(s)
<1>1. s \in [1..Len(s) -> T] /\ Len(s) \in Nat /\ DOMAIN s = 1..Len(s)
  OBVIOUS
<1>2. s \in Surjection(1..Len(s), ToSet(s))
  BY <1>1 DEF Surjection, ToSet
<1>3. IsFiniteSet(1..Len(s)) /\ Cardinality(1..Len(s)) = Len(s)
  <2>1. 1 \in Int /\ Len(s) \in Int
    BY <1>1
  <2>2. Cardinality(1..Len(s)) = IF 1 > Len(s) THEN 0 ELSE Len(s) - 1 + 1
    BY <2>1, FS_Interval
  <2>3. QED
    BY <1>1, <2>1, <2>2, FS_Interval
<1>4. /\ IsFiniteSet(ToSet(s)) /\ Cardinality(ToSet(s)) <= Len(s)
      /\ Cardinality(ToSet(s)) = Len(s) <=> s \in Injection(1..Len(s), ToSet(s))
  BY <1>2, <1>3, FS_Surjection
<1>5. IsInjective(s) => s \in Injection(1..Len(s), ToSet(s))
  BY <1>1 DEF Injection, ToSet
<1>6. QED
  BY <1>1, <1>4, <1>5, FS_CardinalityType DEF ToSet

\* The rows of a sequence.
LEMMA SequenceRows ==
  ASSUME NEW T, NEW s \in Seq(T)
  PROVE  /\ Len(s) \in Nat /\ DOMAIN s = 1..Len(s)
         /\ \A i \in 1..Len(s) : s[i] \in T
         /\ \A x : x \in ToSet(s) <=> \E i \in 1..Len(s) : x = s[i]
         /\ IsInjective(s) => \A i, j \in 1..Len(s) : s[i] = s[j] => i = j
<1>1. Len(s) \in Nat /\ DOMAIN s = 1..Len(s) /\ \A i \in 1..Len(s) : s[i] \in T
  OBVIOUS
<1>2. QED
  BY <1>1 DEF ToSet, IsInjective

\* The elements of one sequence after another.
LEMMA ElementsJoined ==
  ASSUME NEW T, NEW s \in Seq(T), NEW t \in Seq(T)
  PROVE  /\ s \o t \in Seq(T) /\ Len(s \o t) = Len(s) + Len(t)
         /\ ToSet(s \o t) = ToSet(s) \cup ToSet(t)
<1>1. /\ s \o t \in Seq(T) /\ Len(s \o t) = Len(s) + Len(t)
      /\ \A i \in 1 .. Len(s) + Len(t) : (s \o t)[i] = IF i <= Len(s) THEN s[i] ELSE t[i - Len(s)]
  BY ConcatProperties
<1>2. Len(s) \in Nat /\ Len(t) \in Nat /\ DOMAIN s = 1..Len(s) /\ DOMAIN t = 1..Len(t)
      /\ DOMAIN (s \o t) = 1..(Len(s) + Len(t))
  BY <1>1
<1>3. ASSUME NEW x \in ToSet(s \o t) PROVE x \in ToSet(s) \cup ToSet(t)
  <2>1. PICK i \in 1..(Len(s) + Len(t)) : x = (s \o t)[i]
    BY <1>2 DEF ToSet
  <2>2. CASE i <= Len(s)
    BY <1>1, <1>2, <2>1, <2>2 DEF ToSet
  <2>3. CASE i > Len(s)
    BY <1>1, <1>2, <2>1, <2>3 DEF ToSet
  <2>4. QED
    BY <1>2, <2>1, <2>2, <2>3
<1>4. ASSUME NEW x \in ToSet(s) PROVE x \in ToSet(s \o t)
  BY <1>1, <1>2 DEF ToSet
<1>5. ASSUME NEW x \in ToSet(t) PROVE x \in ToSet(s \o t)
  <2>1. PICK i \in 1..Len(t) : x = t[i]
    BY <1>2 DEF ToSet
  <2>2. (s \o t)[i + Len(s)] = t[i] /\ i + Len(s) \in 1..(Len(s) + Len(t))
    BY <1>1, <1>2
  <2>3. QED
    BY <1>2, <2>1, <2>2 DEF ToSet
<1>6. QED
  BY <1>1, <1>3, <1>4, <1>5

\* A page: the rows up to it are passed, no row twice, and it is full when more are to come.
LEMMA PageOfShelf ==
  ASSUME ShelfInShape, scan.at \in Nat
  PROVE  LET q == scan.at + Len(Rows) IN
         /\ Rows \in Seq(1..MaxEntry) /\ Len(Rows) \in Nat /\ ToSet(Rows) \subseteq ToSet(shelf)
         /\ Cardinality(ToSet(Rows)) = Len(Rows)
         /\ Passed(q) = Passed(scan.at) \cup ToSet(Rows)
         /\ Ahead(scan.at) = Ahead(q) \cup ToSet(Rows) /\ Ahead(q) \cap ToSet(Rows) = {}
         /\ More => Through = q /\ NextAt = q /\ Through \in Nat /\ Len(Rows) >= Size
         /\ ~More => Passed(q) = ToSet(shelf) /\ Ahead(q) = {}
<1> DEFINE n == scan.at
           m == Len(shelf)
           e == IF More THEN Through ELSE m
           q == n + Len(Rows)
<1>1. /\ m \in Nat /\ DOMAIN shelf = 1..m /\ n \in Nat /\ Size \in Nat /\ Size > 0
      /\ \A k \in 1..m : shelf[k] \in 1..MaxEntry
      /\ \A j, k \in 1..m : shelf[j] = shelf[k] => j = k
  BY ReadAssumption, SMTT(40) DEF ShelfInShape, IsInjective
<1>2. /\ e \in Nat /\ e <= m /\ Through \in Nat
      /\ More => e = n + Size /\ e > n /\ e = Through
      /\ ~More => e = m
  <2>1. Through = (IF reader.by = "all" THEN m ELSE n + Size) /\ (More <=> Through < m)
    BY DEF More, Through
  <2> HIDE DEF m, n
  <2>2. Through \in Nat /\ (More => Through = n + Size /\ Through < m)
    BY <1>1, <2>1
  <2>3. QED
    BY <1>1, <2>2
<1>3a. Rows = SubSeq(shelf, n + 1, e)
  BY DEF Rows
<1> HIDE DEF e, m, n
<1>3. /\ Rows \in Seq(1..MaxEntry)
      /\ Len(Rows) = IF n < e THEN e - n ELSE 0
      /\ \A i \in 1..(e - n) : Rows[i] = shelf[n + i]
  <2>2. \A i \in (n + 1)..e : shelf[i] \in 1..MaxEntry
    BY <1>1, <1>2
  <2>3. n + 1 \in Int /\ e \in Int
    BY <1>1, <1>2
  <2>4. /\ Rows \in Seq(1..MaxEntry)
        /\ Len(Rows) = IF n + 1 <= e THEN e - (n + 1) + 1 ELSE 0
        /\ \A i \in 1 .. (e - (n + 1) + 1) : Rows[i] = shelf[(n + 1) + i - 1]
    BY <1>3a, <2>2, <2>3, SubSeqProperties
  <2>5. e - (n + 1) + 1 = e - n /\ (n + 1 <= e <=> n < e)
    BY <1>1, <1>2
  <2>6. \A i \in 1..(e - n) : (n + 1) + i - 1 = n + i
    BY <1>1, <1>2
  <2>7. QED
    BY <2>4, <2>5, <2>6
<1>4. q = (IF n < e THEN e ELSE n) /\ q \in Nat /\ Len(Rows) \in Nat /\ n <= q
  BY <1>1, <1>2, <1>3
<1>4a. Len(Rows) = q - n /\ (e > n => q = e) /\ (e <= n => q = n)
  BY <1>1, <1>2, <1>3
<1>5. \A x : x \in ToSet(Rows) <=> \E k \in 1..m : n < k /\ k <= q /\ x = shelf[k]
  <2>1. DOMAIN Rows = 1..Len(Rows)
    BY <1>3
  <2>2. ASSUME NEW x \in ToSet(Rows)
        PROVE  \E k \in 1..m : n < k /\ k <= q /\ x = shelf[k]
    <3>1. PICK i \in 1..Len(Rows) : x = Rows[i]
      BY <2>1 DEF ToSet
    <3>2. i \in 1..(e - n) /\ n + i \in 1..m /\ n < n + i /\ n + i <= q
      BY <1>1, <1>2, <1>3, <1>4
    <3>3. QED
      BY <1>3, <3>1, <3>2
  <2>3. ASSUME NEW k \in 1..m, n < k, k <= q PROVE shelf[k] \in ToSet(Rows)
    <3>1. k - n \in 1..Len(Rows) /\ Rows[k - n] = shelf[n + (k - n)]
      <4>1. k - n \in 1..(e - n) /\ k - n \in 1..Len(Rows)
        BY <1>1, <1>2, <1>4, <1>4a, <2>3
      <4>2. QED
        BY <1>3, <4>1
    <3>2. n + (k - n) = k
      BY <1>1
    <3>3. QED
      BY <2>1, <3>1, <3>2 DEF ToSet
  <2>4. QED
    BY <2>2, <2>3
<1>6. Cardinality(ToSet(Rows)) = Len(Rows)
  <2>1. IsInjective(Rows)
    <3>1. ASSUME NEW i \in 1..Len(Rows), NEW j \in 1..Len(Rows), Rows[i] = Rows[j] PROVE i = j
      <4>1. i \in 1..(e - n) /\ j \in 1..(e - n) /\ n + i \in 1..m /\ n + j \in 1..m
        BY <1>1, <1>2, <1>3, <1>4
      <4>2. shelf[n + i] = shelf[n + j]
        BY <1>3, <3>1, <4>1
      <4>3. n + i = n + j
        BY <1>1, <4>1, <4>2
      <4>4. QED
        BY <1>1, <4>1, <4>3
    <3>2. QED
      BY <1>3, <3>1 DEF IsInjective
  <2>2. QED
    BY <1>3, <2>1, ElementsCounted
<1>7. \A x : /\ x \in Passed(q) <=> \E k \in 1..m : k <= q /\ x = shelf[k]
             /\ x \in Passed(n) <=> \E k \in 1..m : k <= n /\ x = shelf[k]
             /\ x \in Ahead(q) <=> \E k \in 1..m : k > q /\ x = shelf[k]
             /\ x \in Ahead(n) <=> \E k \in 1..m : k > n /\ x = shelf[k]
             /\ x \in ToSet(shelf) <=> \E k \in 1..m : x = shelf[k]
  BY <1>1 DEF Passed, Ahead, ToSet, q
<1>8. n \in Nat /\ q \in Nat /\ n <= q
  BY <1>1, <1>4
<1> HIDE DEF q
<1>9. Passed(q) = Passed(n) \cup ToSet(Rows)
  <2>1. ASSUME NEW x PROVE x \in Passed(q) <=> x \in Passed(n) \cup ToSet(Rows)
    BY <1>1, <1>5, <1>7, <1>8
  <2>2. QED
    BY <2>1
<1>10. Ahead(n) = Ahead(q) \cup ToSet(Rows)
  <2>1. ASSUME NEW x PROVE x \in Ahead(n) <=> x \in Ahead(q) \cup ToSet(Rows)
    BY <1>1, <1>5, <1>7, <1>8
  <2>2. QED
    BY <2>1
<1>11. Ahead(q) \cap ToSet(Rows) = {}
  <2> SUFFICES ASSUME NEW x \in Ahead(q), x \in ToSet(Rows) PROVE FALSE
    OBVIOUS
  <2>1. PICK k \in 1..m : k > q /\ x = shelf[k]
    BY <1>7
  <2>2. PICK j \in 1..m : j <= q /\ x = shelf[j]
    BY <1>5
  <2>3. j = k
    BY <1>1, <2>1, <2>2
  <2>4. QED
    BY <1>1, <1>8, <2>1, <2>2, <2>3
<1>12. More => Through = q /\ NextAt = q /\ Through \in Nat /\ Len(Rows) >= Size
  <2>1. NextAt = IF reader.by = "rows" THEN q ELSE Through
    BY DEF NextAt, q, n
  <2>2. QED
    BY <1>1, <1>2, <1>4, <1>4a, <2>1
<1>13. ~More => Passed(q) = ToSet(shelf) /\ Ahead(q) = {}
  <2> SUFFICES ASSUME ~More PROVE Passed(q) = ToSet(shelf) /\ Ahead(q) = {}
    OBVIOUS
  <2>1. q >= m
    BY <1>1, <1>2, <1>4
  <2>2. \A k \in 1..m : k <= q /\ ~(k > q)
    BY <1>1, <1>8, <2>1
  <2>3. ASSUME NEW x PROVE (x \in Passed(q) <=> x \in ToSet(shelf)) /\ x \notin Ahead(q)
    BY <1>7, <2>2
  <2>4. QED
    BY <2>3
<1>14. ToSet(Rows) \subseteq ToSet(shelf)
  BY <1>5, <1>7
<1>15. QED
  BY <1>3, <1>4, <1>6, <1>9, <1>10, <1>11, <1>12, <1>13, <1>14 DEF q, n, m

\* Sets of rows are finite.
LEMMA RowsFinite ==
  ASSUME ShelfInShape, NEW s \in Scan
  PROVE  /\ IsFiniteSet(ToSet(shelf)) /\ IsFiniteSet(ToSet(s.got))
         /\ Cardinality(ToSet(s.got)) \in Nat /\ Len(s.got) \in Nat
         /\ \A n : IsFiniteSet(Passed(n)) /\ IsFiniteSet(Ahead(n)) /\ Passed(n) \subseteq ToSet(shelf)
                   /\ Ahead(n) \subseteq ToSet(shelf)
         /\ \A S : IsFiniteSet(S) => IsFiniteSet(Missed(s, S)) /\ Cardinality(Missed(s, S)) \in Nat
         /\ \A n : Cardinality(Ahead(n) \cap ToSet(s.got)) \in Nat
<1>1. IsFiniteSet(ToSet(shelf))
  BY ElementsCounted DEF ShelfInShape
<1>2. s.got \in Seq(1..MaxEntry)
  BY DEF Scan
<1>3. IsFiniteSet(ToSet(s.got)) /\ Cardinality(ToSet(s.got)) \in Nat /\ Len(s.got) \in Nat
  BY <1>2, ElementsCounted
<1>4. ASSUME NEW n
      PROVE  IsFiniteSet(Passed(n)) /\ IsFiniteSet(Ahead(n)) /\ Passed(n) \subseteq ToSet(shelf)
             /\ Ahead(n) \subseteq ToSet(shelf)
  <2>1. Passed(n) \subseteq ToSet(shelf) /\ Ahead(n) \subseteq ToSet(shelf)
    BY DEF Passed, Ahead, ToSet
  <2>2. QED
    BY <1>1, <2>1, FS_Subset
<1>5. ASSUME NEW S, IsFiniteSet(S)
      PROVE  IsFiniteSet(Missed(s, S)) /\ Cardinality(Missed(s, S)) \in Nat
  <2>1. Missed(s, S) \in SUBSET S
    BY DEF Missed
  <2>2. QED
    BY <1>5, <2>1, FS_Subset, FS_CardinalityType
<1>6. ASSUME NEW n PROVE Cardinality(Ahead(n) \cap ToSet(s.got)) \in Nat
  <2>1. Ahead(n) \cap ToSet(s.got) \in SUBSET ToSet(s.got)
    OBVIOUS
  <2>2. QED
    BY <1>3, <2>1, FS_Subset, FS_CardinalityType
<1>7. QED
  BY <1>1, <1>3, <1>4, <1>5, <1>6

\* A page received keeps the accounts: its rows were ahead, and those it repeats are counted.
LEMMA PageKeepsAccounts ==
  ASSUME ShelfInShape, scan \in Scan, Midway(scan)
  PROVE  LET q == scan.at + Len(Rows) IN
         /\ Cardinality(Missed(Got, Passed(q))) <= scan.removed
         /\ Cardinality(Ahead(q) \cap ToSet(Got.got)) + Repeats(Got) <= scan.added
         /\ ToSet(Got.got) = ToSet(scan.got) \cup ToSet(Rows)
<1> DEFINE q == scan.at + Len(Rows)
           R == ToSet(Rows)
           G == ToSet(scan.got)
           A == Ahead(scan.at)
<1>1. scan.at \in Nat /\ scan.got \in Seq(1..MaxEntry) /\ scan.removed \in Nat /\ scan.added \in Nat
      /\ Got.got = scan.got \o Rows /\ Got.start = scan.start
  BY DEF Scan, Got
<1>2. /\ Rows \in Seq(1..MaxEntry) /\ Len(Rows) \in Nat /\ R \subseteq ToSet(shelf)
      /\ Cardinality(R) = Len(Rows)
      /\ Passed(q) = Passed(scan.at) \cup R
      /\ A = Ahead(q) \cup R /\ Ahead(q) \cap R = {}
  BY <1>1, PageOfShelf
<1>3. ToSet(Got.got) = G \cup R /\ Len(Got.got) = Len(scan.got) + Len(Rows)
  BY <1>1, <1>2, ElementsJoined
<1>4. /\ IsFiniteSet(G) /\ Cardinality(G) \in Nat /\ Len(scan.got) \in Nat
      /\ IsFiniteSet(Missed(scan, Passed(scan.at))) /\ Cardinality(Missed(scan, Passed(scan.at))) \in Nat
      /\ IsFiniteSet(Ahead(q))
  BY RowsFinite
<1>5. IsFiniteSet(R) /\ Cardinality(R) \in Nat
  BY <1>2, ElementsCounted
<1> HIDE DEF q, R, G, A
<1>6. Cardinality(Missed(Got, Passed(q))) <= scan.removed
  <2>1. Missed(Got, Passed(q)) \in SUBSET Missed(scan, Passed(scan.at))
    BY <1>1, <1>2, <1>3 DEF Missed, G
  <2>2. Cardinality(Missed(Got, Passed(q))) <= Cardinality(Missed(scan, Passed(scan.at)))
        /\ Cardinality(Missed(Got, Passed(q))) \in Nat
    BY <1>4, <2>1, FS_Subset, FS_CardinalityType
  <2>3. QED
    BY <1>1, <1>4, <2>2 DEF Midway
<1>7. Cardinality(Ahead(q) \cap ToSet(Got.got)) + Repeats(Got) <= scan.added
  <2>1. Ahead(q) \cap ToSet(Got.got) = Ahead(q) \cap G
    BY <1>2, <1>3
  <2>2. IsFiniteSet(Ahead(q) \cap G) /\ IsFiniteSet(R \cap G)
        /\ Cardinality(Ahead(q) \cap G) \in Nat /\ Cardinality(R \cap G) \in Nat
    BY <1>4, FS_Subset, FS_CardinalityType
  <2>3. Cardinality(A \cap G) = Cardinality(Ahead(q) \cap G) + Cardinality(R \cap G)
    <3>1. A \cap G = (Ahead(q) \cap G) \cup (R \cap G)
      BY <1>2
    <3>2. (Ahead(q) \cap G) \cap (R \cap G) = {}
      BY <1>2
    <3>3. QED
      <4>1. Cardinality((Ahead(q) \cap G) \cup (R \cap G))
              = Cardinality(Ahead(q) \cap G) + Cardinality(R \cap G)
                - Cardinality((Ahead(q) \cap G) \cap (R \cap G))
        BY <2>2, FS_Union
      <4>2. Cardinality((Ahead(q) \cap G) \cap (R \cap G)) = 0
        BY <3>2, FS_EmptySet
      <4>3. Cardinality(A \cap G) = Cardinality((Ahead(q) \cap G) \cup (R \cap G))
        BY <3>1
      <4>4. Cardinality(Ahead(q) \cap G) \in Nat /\ Cardinality(R \cap G) \in Nat
        BY <2>2
      <4>5. QED
        BY <4>1, <4>2, <4>3, <4>4
  <2>4. Cardinality(G \cup R) = Cardinality(G) + Cardinality(R) - Cardinality(G \cap R)
    BY <1>4, <1>5, FS_Union
  <2>5. Cardinality(G \cap R) = Cardinality(R \cap G)
    <3>1. G \cap R = R \cap G
      OBVIOUS
    <3>2. QED
      BY <3>1
  <2>6. Cardinality(A \cap G) + Repeats(scan) <= scan.added
    BY DEF Midway, A, G
  <2>7. Repeats(scan) = Len(scan.got) - Cardinality(G)
        /\ Repeats(Got) = (Len(scan.got) + Len(Rows)) - Cardinality(G \cup R)
    BY <1>3 DEF Repeats, G
  <2>8. Repeats(Got) = Repeats(scan) + Cardinality(R \cap G) /\ Repeats(scan) \in Int
    <3>1. Cardinality(R) = Len(Rows) /\ Cardinality(R) \in Nat /\ Cardinality(G) \in Nat
          /\ Len(scan.got) \in Nat /\ Cardinality(R \cap G) \in Nat
      BY <1>2, <1>4, <1>5, <2>2
    <3>2. QED
      BY <2>4, <2>5, <2>7, <3>1
  <2>9. Cardinality(Ahead(q) \cap ToSet(Got.got)) = Cardinality(Ahead(q) \cap G)
        /\ Cardinality(Ahead(q) \cap G) \in Nat /\ Cardinality(R \cap G) \in Nat
        /\ scan.added \in Nat
    BY <1>1, <2>1, <2>2
  <2>10. QED
    BY <2>3, <2>6, <2>8, <2>9
<1>8. QED
  BY <1>3, <1>6, <1>7 DEF q, G, R

\* Rows move up by at most r places: no more than r of those ahead are now behind.
LEMMA RowsMoveUp ==
  ASSUME ShelfInShape, NEW s \in Scan, NEW r \in Nat, shelf' \in Seq(1..MaxEntry),
         \A n \in 1..Len(shelf') : \E p \in 1..Len(shelf) :
            shelf'[n] = shelf[p] /\ n <= p /\ p <= n + r
  PROVE  /\ Cardinality(Missed(s, Passed(s.at)')) <= Cardinality(Missed(s, Passed(s.at))) + r
         /\ Ahead(s.at)' \subseteq Ahead(s.at)
         /\ ToSet(shelf)' \subseteq ToSet(shelf)
<1> DEFINE m == s.at
           k == Len(shelf)
           k1 == Len(shelf')
           W == {p \in 1..k : m < p /\ p <= m + r}
           V == {shelf[p] : p \in W}
<1>1. /\ m \in Nat /\ k \in Nat /\ DOMAIN shelf = 1..k /\ k1 \in Nat /\ DOMAIN shelf' = 1..k1
  BY DEF Scan, ShelfInShape
<1>2. \A x : /\ x \in Passed(m) <=> \E j \in 1..k : j <= m /\ x = shelf[j]
             /\ x \in Ahead(m) <=> \E j \in 1..k : j > m /\ x = shelf[j]
             /\ x \in ToSet(shelf) <=> \E j \in 1..k : x = shelf[j]
  BY <1>1 DEF Passed, Ahead, ToSet
<1>3. \A x : /\ x \in Passed(s.at)' <=> \E j \in 1..k1 : j <= m /\ x = shelf'[j]
             /\ x \in Ahead(s.at)' <=> \E j \in 1..k1 : j > m /\ x = shelf'[j]
             /\ x \in ToSet(shelf)' <=> \E j \in 1..k1 : x = shelf'[j]
  BY <1>1 DEF Passed, Ahead, ToSet
<1>4. ASSUME NEW x \in Passed(s.at)' PROVE x \in Passed(m) \cup V
  <2>1. PICK j \in 1..k1 : j <= m /\ x = shelf'[j]
    BY <1>3
  <2>2. PICK p \in 1..k : shelf'[j] = shelf[p] /\ j <= p /\ p <= j + r
    OBVIOUS
  <2>3. CASE p <= m
    BY <1>2, <2>1, <2>2, <2>3
  <2>4. CASE p > m
    <3>1. p \in W
      BY <1>1, <2>1, <2>2, <2>4
    <3>2. QED
      BY <2>1, <2>2, <3>1
  <2>5. QED
    BY <1>1, <2>3, <2>4
<1>5. ASSUME NEW x \in Ahead(s.at)' PROVE x \in Ahead(m)
  <2>1. PICK j \in 1..k1 : j > m /\ x = shelf'[j]
    BY <1>3
  <2>2. PICK p \in 1..k : shelf'[j] = shelf[p] /\ j <= p /\ p <= j + r
    OBVIOUS
  <2>3. p > m
    BY <1>1, <2>1, <2>2
  <2>4. QED
    BY <1>2, <2>1, <2>2, <2>3
<1>6. ToSet(shelf)' \subseteq ToSet(shelf)
  BY <1>2, <1>3
<1>7. IsFiniteSet(V) /\ Cardinality(V) <= r /\ Cardinality(V) \in Nat
  <2>1. IsFiniteSet((m + 1)..(m + r)) /\ Cardinality((m + 1)..(m + r)) = r
    <3>1. m + 1 \in Int /\ m + r \in Int
      BY <1>1
    <3>2. IsFiniteSet((m + 1)..(m + r))
          /\ Cardinality((m + 1)..(m + r)) = IF m + 1 > m + r THEN 0 ELSE (m + r) - (m + 1) + 1
      BY <3>1, FS_Interval
    <3>3. QED
      BY <1>1, <3>2
  <2>2. W \in SUBSET ((m + 1)..(m + r))
    BY <1>1
  <2>3. IsFiniteSet(W) /\ Cardinality(W) <= r /\ Cardinality(W) \in Nat
    BY <2>1, <2>2, FS_Subset, FS_CardinalityType
  <2> DEFINE f == [p \in W |-> shelf[p]]
  <2>4. f \in Surjection(W, V)
    BY DEF Surjection
  <2> HIDE DEF f
  <2>5. IsFiniteSet(V) /\ Cardinality(V) <= Cardinality(W)
    BY <2>3, <2>4, FS_Surjection
  <2>6. QED
    BY <2>3, <2>5, FS_CardinalityType
<1> HIDE DEF V
<1>8. Cardinality(Missed(s, Passed(s.at)')) <= Cardinality(Missed(s, Passed(s.at))) + r
  <2> DEFINE M == Missed(s, Passed(s.at))
  <2>1. IsFiniteSet(M) /\ Cardinality(M) \in Nat
    BY RowsFinite
  <2>2. Missed(s, Passed(s.at)') \in SUBSET (M \cup V)
    BY <1>4 DEF Missed
  <2> HIDE DEF M
  <2>3. IsFiniteSet(M \cup V) /\ Cardinality(M \cup V) = Cardinality(M) + Cardinality(V) - Cardinality(M \cap V)
    BY <1>7, <2>1, FS_Union
  <2>4. Cardinality(M \cap V) \in Nat /\ Cardinality(M \cup V) \in Nat
    BY <2>1, <2>3, FS_Subset, FS_CardinalityType
  <2>5. Cardinality(Missed(s, Passed(s.at)')) <= Cardinality(M \cup V)
        /\ Cardinality(Missed(s, Passed(s.at)')) \in Nat
    BY <2>2, <2>3, FS_Subset, FS_CardinalityType
  <2>6. QED
    BY <1>7, <2>1, <2>3, <2>4, <2>5 DEF M
<1>9. QED
  BY <1>5, <1>6, <1>8

\* What a reader does about a bad page; one not known to take a kind of them never does.
Answers(r) ==
  /\ r.starved \in {"never", "raise", "end", "skip"} /\ r.stuck \in {"never", "raise", "end", "again"}
  /\ r.torn \in {"never", "raise", "end", "count"} /\ r.mute \in {"raise", "end", "short"}
  /\ r.bare \in {"raise", "end", "first"} /\ r.absent \in {"never", "first"}
Seeing(r) ==
  /\ r \notin Blind.starved => r.starved \in {"never", "raise"}
  /\ r \notin Blind.stuck => r.stuck \in {"never", "raise"}
  /\ r \notin Blind.torn => r.torn \in {"never", "raise", "count"}
  /\ r \notin Blind.mute => r.mute \in {"raise", "short"}
  /\ r \notin Blind.bare => r.bare = "raise"
  /\ r \notin Blind.absent => r.absent = "never"

LEMMA ReaderFields ==
  ASSUME NEW by, NEW starved, NEW stuck, NEW torn, NEW mute, NEW bare, NEW drops
  PROVE  LET r == Reader(by, starved, stuck, torn, mute, bare) IN
         \A q \in {r, Whole(r, drops), Paged(r, drops)} :
            /\ q.starved = starved /\ q.stuck = stuck /\ q.torn = torn
            /\ q.mute = mute /\ q.bare = bare /\ q.absent = "never"
<1> DEFINE r == Reader(by, starved, stuck, torn, mute, bare)
<1>1. /\ r.starved = starved /\ r.stuck = stuck /\ r.torn = torn
      /\ r.mute = mute /\ r.bare = bare /\ r.absent = "never"
  BY DEF Reader
<1>2. LET q == Whole(r, drops) IN
      /\ q.starved = starved /\ q.stuck = stuck /\ q.torn = torn
      /\ q.mute = mute /\ q.bare = bare /\ q.absent = "never"
  BY DEF Reader, Whole
<1>3. LET q == Paged(r, drops) IN
      /\ q.starved = starved /\ q.stuck = stuck /\ q.torn = torn
      /\ q.mute = mute /\ q.bare = bare /\ q.absent = "never"
  BY DEF Reader, Paged
<1>4. QED
  BY <1>1, <1>2, <1>3

\* The readers known to take a kind of bad page for a good one.
LEMMA BlindReaders ==
  /\ {SpotifyApi, Deezer, DeezerWebLibrary, Tidal, TidalPage, Amazon, AmazonLikes, YouTube,
      JellyfinLibrary, Lastfm} \subseteq Blind.starved
  /\ {SpotifyApi, Deezer, DeezerWebLibrary, Tidal, TidalPage, YouTube} \subseteq Blind.stuck
  /\ {DeezerWebLibrary, Tidal} \subseteq Blind.torn
  /\ FollowsLinks \cup {SpotifyApiPage, SpotifySaved, Apple, ApplePage, Lastfm, YouTubeBrowser}
       \subseteq Blind.mute
  /\ FollowsLinks \cup {SpotifyApiPage, SpotifySaved, Apple, ApplePage, Lastfm, Qobuz, QobuzPage,
                        QobuzLikes, JellyfinLibrary, JellyfinPage} \subseteq Blind.bare
  /\ {Apple, ApplePage} \subseteq Blind.absent
<1> HIDE DEF FollowsLinks
<1> QED
  BY DEF Blind

LEMMA ReadersAnswer ==
  ASSUME NEW r \in EveryReader
  PROVE  Answers(r) /\ Seeing(r)
<1> USE DEF Answers, Seeing, ByRows, ByLink
<1>1. CASE r \in {SpotifyContents, SpotifyPage}
  BY <1>1, ReaderFields DEF SpotifyContents, SpotifyPage
<1>2. CASE r \in {SpotifyLibrary, SpotifyLikes}
  BY <1>2, ReaderFields DEF SpotifyLibrary, SpotifyLikes
<1>3. CASE r \in {SpotifyApiPage, SpotifySaved}
  <2>1. r \in Blind.mute /\ r \in Blind.bare
    BY <1>3, BlindReaders
  <2>2. QED
    BY <1>3, <2>1, ReaderFields DEF SpotifyApiPage, SpotifySaved
<1>4. CASE r \in FollowsLinks
  <2>1. r \in Blind.mute /\ r \in Blind.bare
    BY <1>4, BlindReaders
  <2>2. CASE r \in {SpotifyApi, Deezer}
    <3>1. r \in Blind.starved /\ r \in Blind.stuck
      BY <2>2, BlindReaders
    <3>2. QED
      BY <2>1, <2>2, <3>1, ReaderFields DEF SpotifyApi, Deezer
  <2>3. CASE r \in {DeezerPage, DeezerWeb, DeezerWebLikes}
    BY <2>1, <2>3, ReaderFields DEF DeezerPage, DeezerWeb, DeezerWebLikes
  <2>4. CASE r \in {DeezerWebLibrary, Tidal}
    <3>1. r \in Blind.starved /\ r \in Blind.stuck /\ r \in Blind.torn
      BY <2>4, BlindReaders
    <3>2. QED
      BY <2>1, <2>4, <3>1, ReaderFields DEF DeezerWebLibrary, Tidal
  <2>5. CASE r \in {TidalPage, YouTube}
    <3>1. r \in Blind.starved /\ r \in Blind.stuck
      BY <2>5, BlindReaders
    <3>2. QED
      BY <2>1, <2>5, <3>1, ReaderFields DEF TidalPage, YouTube
  <2>6. CASE r \in {Amazon, AmazonLikes}
    <3>1. r \in Blind.starved
      BY <2>6, BlindReaders
    <3>2. QED
      BY <2>1, <2>6, <3>1, ReaderFields DEF Amazon, AmazonLikes
  <2>7. CASE r \in {AmazonPage, YouTubePage}
    BY <2>1, <2>7, ReaderFields DEF AmazonPage, YouTubePage
  <2>8. CASE r = YouTubeiPage
    BY <2>1, <2>8 DEF YouTubeiPage, Reader, Paged
  <2>9. QED
    BY <1>4, <2>2, <2>3, <2>4, <2>5, <2>6, <2>7, <2>8 DEF FollowsLinks
<1>5. CASE r \in {Qobuz, QobuzPage, QobuzLikes}
  <2>1. r \in Blind.bare
    BY <1>5, BlindReaders
  <2>2. QED
    BY <1>5, <2>1, ReaderFields DEF Qobuz, QobuzPage, QobuzLikes
<1>6. CASE r = YouTubeBrowser
  <2>1. r \in Blind.mute
    BY <1>6, BlindReaders
  <2>2. QED
    BY <1>6, <2>1 DEF YouTubeBrowser, Reader
<1>7. CASE r = JellyfinPage
  <2>1. r \in Blind.bare
    BY <1>7, BlindReaders
  <2>2. QED
    BY <1>7, <2>1 DEF JellyfinPage, Reader, Whole
<1>8. CASE r = JellyfinLibrary
  <2>1. r \in Blind.bare /\ r \in Blind.starved
    BY <1>8, BlindReaders
  <2>2. QED
    BY <1>8, <2>1 DEF JellyfinLibrary, Reader
<1>9. CASE r = Lastfm
  <2>1. r \in Blind.bare /\ r \in Blind.starved /\ r \in Blind.mute
    BY <1>9, BlindReaders
  <2>2. QED
    BY <1>9, <2>1 DEF Lastfm, Reader
<1>10. CASE r \in {Apple, ApplePage}
  <2>1. r \in Blind.bare /\ r \in Blind.mute /\ r \in Blind.absent
    BY <1>10, BlindReaders
  <2>2. CASE r = Apple
    BY <2>1, <2>2 DEF Apple, Reader, Whole
  <2>3. CASE r = ApplePage
    BY <2>1, <2>3 DEF ApplePage, Reader, Paged
  <2>4. QED
    BY <1>10, <2>2, <2>3
<1>11. CASE r = ListenBrainz
  BY <1>11 DEF ListenBrainz, Reader
<1>12. CASE r = Subsonic
  BY <1>12 DEF Subsonic, Reader, Whole
<1>13. QED
  BY <1>1, <1>2, <1>3, <1>4, <1>5, <1>6, <1>7, <1>8, <1>9, <1>10, <1>11, <1>12
     DEF EveryReader, FollowsLinks

\* What a step of a read leaves alone.
OnlyReads == UNCHANGED <<reader, shelf, fresh, cut, picked, erased>>

\* The read raises.
LEMMA RaiseSound ==
  ASSUME ReadInv, OnlyReads, Raise
  PROVE  ReadInv'
<1> USE DEF OnlyReads, Raise
<1>1. ShelfInShape' /\ CopiesInShape' /\ PicksInShape'
  BY DEF ReadInv, ShelfInShape, CopiesInShape, PicksInShape, Made, Stands
<1>2. ScanSound(scan)'
  <2>1. NoScan \in Scan
    <3>1. <<>> \in Seq(1..MaxEntry) /\ -1 \in -1..MaxEntry
      BY ReadAssumption
    <3>2. QED
      BY <3>1 DEF NoScan, Scan
  <2>2. ToSet(NoScan.got) = {}
    BY DEF NoScan, ToSet
  <2>3. QED
    BY <2>1, <2>2 DEF ScanSound, NoScan
<1>3. ReadAccounted'
  BY DEF ReadAccounted, NoScan
<1>4. QED
  BY <1>1, <1>2, <1>3 DEF ReadInv

\* The read goes on, with what it has by now.
LEMMA OnwardSound ==
  ASSUME ReadInv, OnlyReads, NEW s, ScanSound(s), s.open, NEW next \in Nat, Onward(s, next),
         s.sound => Midway([s EXCEPT !.at = next])
  PROVE  ReadInv'
<1>0. scan' = [s EXCEPT !.at = next] /\ s \in Scan /\ UNCHANGED <<view, cache>>
  BY DEF Onward, ScanSound
<1>1. ShelfInShape' /\ CopiesInShape' /\ PicksInShape'
  BY <1>0 DEF OnlyReads, ReadInv, ShelfInShape, CopiesInShape, PicksInShape, Made, Stands
<1>2. /\ scan' \in Scan /\ scan'.got = s.got /\ scan'.start = s.start /\ scan'.open /\ ~scan'.done
      /\ scan'.raced = s.raced /\ scan'.sound = s.sound
  BY <1>0 DEF Scan, ScanSound
<1>3. ScanSound(scan)'
  BY <1>2 DEF ScanSound, OnlyReads, Made
<1>4. ReadAccounted'
  <2>1. Counts' => Midway(scan')
    BY <1>0, <1>2 DEF Counts, OnlyReads
  <2>2. Midway(scan)' <=> Midway(scan')
    BY DEF Midway, OnlyReads, Passed, Ahead, Missed, Repeats
  <2>3. QED
    BY <1>2, <2>1, <2>2 DEF ReadAccounted
<1>5. QED
  BY <1>1, <1>3, <1>4 DEF ReadInv

\* The read ends, with what it has by now.
LEMMA DoneSound ==
  ASSUME ReadInv, OnlyReads, NEW s, ScanSound(s), s.open, Done(s),
         s.sound => Complete(s)
  PROVE  ReadInv'
<1>1. CASE Raise
  BY <1>1, RaiseSound
<1>2. CASE ~Raise
  <2>0. /\ scan' = [s EXCEPT !.open = FALSE, !.done = TRUE, !.at = 0, !.total = -1] /\ s \in Scan
        /\ view' = s.got
        /\ \/ reader.keeps /\ cache' = [held |-> TRUE, rows |-> s.got, raced |-> s.raced]
           \/ UNCHANGED cache
    BY <1>2 DEF Done, ScanSound
  <2>1. ShelfInShape' /\ PicksInShape'
    BY DEF OnlyReads, ReadInv, ShelfInShape, PicksInShape, Made, Stands
  <2>2. CopiesInShape'
    <3>1. view' \in Seq(1..MaxEntry) /\ s.raced \in BOOLEAN
      BY <2>0 DEF Scan
    <3>2. CASE reader.keeps /\ cache' = [held |-> TRUE, rows |-> s.got, raced |-> s.raced]
      BY <2>0, <3>1, <3>2 DEF OnlyReads, ScanSound, CopiesInShape
    <3>3. CASE UNCHANGED cache
      BY <3>1, <3>3 DEF OnlyReads, ReadInv, CopiesInShape
    <3>4. QED
      BY <2>0, <3>2, <3>3
  <2>3. /\ scan' \in Scan /\ scan'.got = s.got /\ scan'.start = s.start /\ ~scan'.open /\ scan'.done
        /\ scan'.sound = s.sound /\ scan'.removed = s.removed /\ scan'.added = s.added
    <3>1. MaxEntry \in Nat
      BY ReadAssumption
    <3>2. -1 \in -1..MaxEntry
      BY <3>1
    <3>3. [s EXCEPT !.open = FALSE, !.done = TRUE, !.at = 0, !.total = -1] \in Scan
      BY <2>0, <3>2 DEF Scan
    <3>4. QED
      BY <2>0, <3>3 DEF Scan
  <2>4. ScanSound(scan)'
    BY <2>3 DEF ScanSound, OnlyReads, Made
  <2>5. ReadAccounted'
    <3>1. Complete(scan)' <=> Complete(s)
      BY <2>3 DEF Complete, OnlyReads, Missed, Repeats
    <3>2. QED
      BY <2>3, <3>1 DEF ReadAccounted, Counts, OnlyReads
  <2>6. QED
    BY <2>1, <2>2, <2>4, <2>5 DEF ReadInv
<1>3. QED
  BY <1>1, <1>2

\* What a read has with the rows of one more page.
LEMMA GotSound ==
  ASSUME ReadInv, scan.open
  PROVE  /\ ScanSound(Got) /\ Got.open /\ Got.sound = scan.sound /\ Got.at = scan.at
         /\ scan.at \in Nat /\ scan.at + Len(Rows) \in Nat
         /\ Counts => Midway([Got EXCEPT !.at = scan.at + Len(Rows)])
         /\ Counts /\ ~More => Complete(Got)
<1> DEFINE q == scan.at + Len(Rows)
<1>1. scan \in Scan /\ ShelfInShape /\ ScanSound(scan)
  BY DEF ReadInv, ScanSound
<1>2. scan.at \in Nat /\ scan.got \in Seq(1..MaxEntry)
  BY <1>1 DEF Scan
<1>3. /\ Rows \in Seq(1..MaxEntry) /\ Len(Rows) \in Nat /\ ToSet(Rows) \subseteq ToSet(shelf)
      /\ ~More => Passed(q) = ToSet(shelf) /\ Ahead(q) = {}
  BY <1>1, <1>2, PageOfShelf
<1>4. /\ scan.got \o Rows \in Seq(1..MaxEntry)
      /\ ToSet(scan.got \o Rows) = ToSet(scan.got) \cup ToSet(Rows)
  BY <1>2, <1>3, ElementsJoined
<1>5. Len(shelf) \in 0..MaxEntry
  <2>1. shelf \in Seq(1..MaxEntry) /\ IsInjective(shelf) /\ MaxEntry \in Nat
    BY <1>1, ReadAssumption DEF ShelfInShape
  <2>2. ToSet(shelf) \in SUBSET (1..MaxEntry) /\ Cardinality(ToSet(shelf)) = Len(shelf)
    BY <2>1, ElementsCounted
  <2>3. IsFiniteSet(1..MaxEntry) /\ Cardinality(1..MaxEntry) = IF 1 > MaxEntry THEN 0 ELSE MaxEntry - 1 + 1
    <3>1. 1 \in Int /\ MaxEntry \in Int
      BY <2>1
    <3>2. QED
      BY <3>1, FS_Interval
  <2>4. Cardinality(ToSet(shelf)) <= Cardinality(1..MaxEntry)
    BY <2>2, <2>3, FS_Subset
  <2>5. Len(shelf) \in Nat
    BY <2>1
  <2>6. QED
    BY <2>1, <2>2, <2>3, <2>4, <2>5
<1>6. /\ Got \in Scan /\ Got.got = scan.got \o Rows /\ Got.start = scan.start /\ Got.open
      /\ ~Got.done /\ Got.sound = scan.sound /\ Got.raced = scan.raced /\ Got.at = scan.at
      /\ Got.removed = scan.removed /\ Got.added = scan.added
  <2>1. (IF scan.total = -1 /\ (reader.steady \/ reader.whole) THEN Len(shelf) ELSE scan.total)
           \in -1..MaxEntry
    BY <1>1, <1>5 DEF Scan
  <2>2. ~scan.done
    BY <1>1 DEF ScanSound
  <2>3. QED
    BY <1>1, <1>4, <2>1, <2>2 DEF Got, Scan
<1>7. ScanSound(Got)
  BY <1>1, <1>3, <1>4, <1>6 DEF ScanSound, ShelfInShape
<1>8. ASSUME Counts
      PROVE  /\ Midway([Got EXCEPT !.at = scan.at + Len(Rows)])
             /\ ~More => Complete(Got)
  <2>1. Midway(scan)
    BY <1>8 DEF ReadInv, ReadAccounted
  <2>2. /\ Cardinality(Missed(Got, Passed(q))) <= scan.removed
        /\ Cardinality(Ahead(q) \cap ToSet(Got.got)) + Repeats(Got) <= scan.added
    BY <1>1, <2>1, PageKeepsAccounts
  <2>3. Midway([Got EXCEPT !.at = q])
    <3> DEFINE s == [Got EXCEPT !.at = q]
    <3>1. s.at = q /\ s.got = Got.got /\ s.start = Got.start /\ s.removed = scan.removed
          /\ s.added = scan.added
      BY <1>6 DEF Scan
    <3> HIDE DEF s
    <3>2. Missed(s, Passed(q)) = Missed(Got, Passed(q)) /\ Repeats(s) = Repeats(Got)
      BY <3>1 DEF Missed, Repeats
    <3>3. Midway(s)
      BY <2>2, <3>1, <3>2 DEF Midway
    <3>4. QED
      BY <3>3 DEF s
  <2>4. ASSUME ~More PROVE Complete(Got)
    <3>1. Cardinality(Missed(Got, ToSet(shelf))) <= Got.removed
      BY <1>3, <1>6, <2>2, <2>4
    <3>2. Cardinality(Ahead(q) \cap ToSet(Got.got)) = 0
      <4>1. Ahead(q) \cap ToSet(Got.got) = {}
        BY <1>3, <2>4
      <4>2. QED
        BY <4>1, FS_EmptySet
    <3>3. Repeats(Got) \in Int
      <4>1. Cardinality(ToSet(Got.got)) \in Nat /\ Len(Got.got) \in Nat
        BY <1>1, <1>6, RowsFinite
      <4>2. QED
        BY <4>1 DEF Repeats
    <3>4. scan.added \in Nat
      BY <1>1 DEF Scan
    <3>5. QED
      BY <1>6, <2>2, <3>1, <3>2, <3>3, <3>4 DEF Complete
  <2>5. QED
    BY <2>3, <2>4
<1>9. QED
  BY <1>2, <1>3, <1>6, <1>7, <1>8

\* The same when the page says nothing of a total.
Untotalled == [scan EXCEPT !.got = @ \o Rows]
LEMMA UntotalledSound ==
  ASSUME ReadInv, scan.open
  PROVE  /\ ScanSound(Untotalled) /\ Untotalled.open /\ Untotalled.sound = scan.sound
         /\ Untotalled \in Scan
         /\ Counts => Midway([Untotalled EXCEPT !.at = scan.at + Len(Rows)])
         /\ Counts /\ ~More => Complete(Untotalled)
<1> DEFINE q == scan.at + Len(Rows)
           s == [Untotalled EXCEPT !.at = q]
           t == [Got EXCEPT !.at = q]
<1>1. scan \in Scan /\ ScanSound(scan) /\ ScanSound(Got) /\ Got \in Scan
  BY GotSound DEF ReadInv, ScanSound
<1>2. /\ Got.got = scan.got \o Rows /\ Got.start = scan.start /\ Got.open = scan.open
      /\ Got.done = scan.done /\ Got.raced = scan.raced
      /\ Got.removed = scan.removed /\ Got.added = scan.added
  BY <1>1 DEF Got, Scan
<1>3. Got.got \in Seq(1..MaxEntry)
  BY <1>1 DEF Scan
<1>4. /\ Untotalled \in Scan /\ Untotalled.got = Got.got /\ Untotalled.start = Got.start
      /\ Untotalled.open = Got.open /\ Untotalled.done = Got.done /\ Untotalled.raced = Got.raced
      /\ Untotalled.removed = Got.removed /\ Untotalled.added = Got.added
      /\ Untotalled.sound = scan.sound
  BY <1>1, <1>2, <1>3 DEF Untotalled, Scan
<1>5. ScanSound(Untotalled)
  BY <1>1, <1>4 DEF ScanSound
<1>6. Midway(t) => Midway(s)
  <2>1. s.at = q /\ s.got = Got.got /\ s.start = Got.start /\ s.removed = Got.removed
        /\ s.added = Got.added
    BY <1>1, <1>4 DEF Scan
  <2>2. t.at = q /\ t.got = Got.got /\ t.start = Got.start /\ t.removed = Got.removed
        /\ t.added = Got.added
    BY <1>1 DEF Scan
  <2> HIDE DEF s, t, q
  <2>3. Missed(s, Passed(q)) = Missed(t, Passed(q)) /\ Repeats(s) = Repeats(t)
    BY <2>1, <2>2 DEF Missed, Repeats
  <2>4. QED
    BY <2>1, <2>2, <2>3 DEF Midway
<1>7. Complete(Got) => Complete(Untotalled)
  BY <1>4 DEF Complete, Missed, Repeats
<1>8. QED
  BY <1>2, <1>4, <1>5, <1>6, <1>7, GotSound

\* The answers to a bad page.
LEMMA AnswerSound ==
  ASSUME ReadInv, scan.open, OnlyReads, NEW blind, NEW s \in {scan, Got, Untotalled},
         NEW does \in {"raise", "end", "first", "skip", "again", "count", "short"},
         Answer(does, blind, s),
         does \in {"count", "short"} => s \in {Got, Untotalled},
         reader \notin blind => does \in {"raise", "count", "short"}
  PROVE  ReadInv'
<1>1. /\ ScanSound(s) /\ s.open /\ ScanSound(scan) /\ scan \in Scan /\ s \in Scan
      /\ scan.at \in Nat /\ scan.at + Len(Rows) \in Nat
  BY GotSound, UntotalledSound DEF ReadInv, ScanSound
<1>2. ASSUME NEW t, ScanSound(t), t.open, reader \in blind
      PROVE  ScanSound(Misled(t, blind)) /\ Misled(t, blind).open /\ ~Misled(t, blind).sound
  BY <1>2 DEF ScanSound, Misled, Scan
<1>3. ASSUME Done(Misled(s, blind)), reader \in blind PROVE ReadInv'
  BY <1>1, <1>2, <1>3, DoneSound
<1>4. CASE does = "raise" \/ Raise
  BY <1>4, RaiseSound DEF Answer
<1>5. CASE does = "end"
  BY <1>3, <1>5 DEF Answer
<1>6. CASE does = "first"
  BY <1>3, <1>4, <1>6 DEF Answer
<1>7. CASE does = "skip"
  <2>1. Onward(Misled(s, blind), Through) /\ reader \in blind
    BY <1>7 DEF Answer
  <2>2. Through \in Nat
    BY <1>1, ReadAssumption DEF Through, ReadInv, ShelfInShape
  <2>3. QED
    BY <1>1, <1>2, <2>1, <2>2, OnwardSound
<1>8. CASE does = "again"
  <2> DEFINE t == [Misled(scan, blind) EXCEPT !.turn = ~@]
  <2>1. Onward(t, scan.at) /\ reader \in blind
    BY <1>8 DEF Answer
  <2>2. ScanSound(t) /\ t.open /\ ~t.sound
    BY <1>1, <2>1 DEF ScanSound, Misled, Scan
  <2> HIDE DEF t
  <2>3. QED
    BY <1>1, <2>1, <2>2, OnwardSound
<1>9. CASE does \in {"count", "short"}
  <2>1. /\ s.sound => Midway([s EXCEPT !.at = scan.at + Len(Rows)])
        /\ s.sound /\ ~More => Complete(s)
    BY <1>9, GotSound, UntotalledSound DEF Counts
  <2>2. CASE Onward(s, scan.at + Len(Rows))
    BY <1>1, <2>1, <2>2, OnwardSound
  <2>3. CASE does = "short" /\ Len(Rows) < Size /\ Done(s)
    <3>1. ~More
      <4>1. More => Len(Rows) >= Size
        BY <1>1, PageOfShelf DEF ReadInv
      <4>2. Len(Rows) \in Nat /\ Size \in Nat
        BY <1>1, ReadAssumption, PageOfShelf DEF ReadInv
      <4>3. QED
        BY <2>3, <4>1, <4>2
    <3>2. QED
      BY <1>1, <2>1, <2>3, <3>1, DoneSound
  <2>4. QED
    BY <1>9, <2>2, <2>3 DEF Answer
<1>10. QED
  BY <1>4, <1>5, <1>6, <1>7, <1>8, <1>9

\* A page, good or bad, keeps the accounts of the read.
LEMMA PageSound == ReadInv /\ AnswerPage => ReadInv'
<1> SUFFICES ASSUME ReadInv, AnswerPage PROVE ReadInv'
  OBVIOUS
<1>1. OnlyReads /\ scan.open
  BY DEF AnswerPage, ReadPage, Starved, Stuck, Torn, Mute, Bare, Absent, BadPage, OnlyReads
<1>2. reader \in EveryReader /\ Answers(reader) /\ Seeing(reader)
  BY ReadersAssumption, ReadersAnswer DEF ReadInv, ShelfInShape
<1>3. CASE ReadPage
  <2>1. /\ ScanSound(Got) /\ Got.open /\ Got.sound = scan.sound
        /\ scan.at + Len(Rows) \in Nat
        /\ Counts => Midway([Got EXCEPT !.at = scan.at + Len(Rows)])
        /\ Counts /\ ~More => Complete(Got)
    BY <1>1, GotSound
  <2>2. CASE Suspect
    BY <1>1, <1>3, <2>2, RaiseSound DEF ReadPage
  <2>3. CASE ~Suspect /\ More
    <3>1. Onward(Got, NextAt)
      BY <1>3, <2>3 DEF ReadPage
    <3>2. NextAt = scan.at + Len(Rows)
      BY <2>3, PageOfShelf DEF ReadInv, ScanSound, Scan
    <3>3. QED
      BY <1>1, <2>1, <3>1, <3>2, OnwardSound DEF Counts
  <2>4. CASE ~Suspect /\ ~More
    <3>1. Done(Got)
      BY <1>3, <2>4 DEF ReadPage
    <3>2. QED
      BY <1>1, <2>1, <2>4, <3>1, DoneSound DEF Counts
  <2>5. QED
    BY <2>2, <2>3, <2>4
<1>4. CASE Starved
  BY <1>1, <1>2, <1>4, AnswerSound DEF Starved, Answers, Seeing
<1>5. CASE Stuck
  BY <1>1, <1>2, <1>5, AnswerSound DEF Stuck, Answers, Seeing
<1>6. CASE Torn
  BY <1>1, <1>2, <1>6, AnswerSound DEF Torn, Answers, Seeing
<1>7. CASE Mute
  BY <1>1, <1>2, <1>7, AnswerSound DEF Mute, Untotalled, Answers, Seeing
<1>8. CASE Bare
  BY <1>1, <1>2, <1>8, AnswerSound DEF Bare, Answers, Seeing
<1>9. CASE Absent
  BY <1>1, <1>2, <1>9, AnswerSound DEF Absent, Answers, Seeing
<1>10. QED
  BY <1>3, <1>4, <1>5, <1>6, <1>7, <1>8, <1>9 DEF AnswerPage

\* A playlist is opened.
LEMMA OpenCachedSound == ReadInv /\ OpenCached => ReadInv'
<1> SUFFICES ASSUME ReadInv, OpenCached PROVE ReadInv'
  OBVIOUS
<1>1. ShelfInShape' /\ CopiesInShape' /\ PicksInShape'
  BY DEF OpenCached, ReadInv, ShelfInShape, CopiesInShape, PicksInShape, Made, Stands
<1>2. NoScan \in Scan /\ ToSet(NoScan.got) = {} /\ ~NoScan.open /\ ~NoScan.done /\ NoScan.start = {}
  <2>1. <<>> \in Seq(1..MaxEntry) /\ -1 \in -1..MaxEntry
    BY ReadAssumption
  <2>2. QED
    BY <2>1 DEF NoScan, Scan, ToSet
<1>3. ScanSound(scan)' /\ ReadAccounted'
  BY <1>2 DEF OpenCached, ScanSound, ReadAccounted
<1>4. QED
  BY <1>1, <1>3 DEF ReadInv

LEMMA OpenFreshSound == ReadInv /\ OpenFresh => ReadInv'
<1> SUFFICES ASSUME ReadInv, OpenFresh PROVE ReadInv'
  OBVIOUS
<1>1. ShelfInShape' /\ CopiesInShape' /\ PicksInShape'
  BY DEF OpenFresh, ReadInv, ShelfInShape, CopiesInShape, PicksInShape, Made, Stands
<1>2. ToSet(shelf) \subseteq 1..MaxEntry /\ ToSet(shelf) \subseteq Made
  BY ElementsCounted DEF ReadInv, ShelfInShape
<1>3. /\ scan' \in Scan /\ scan'.got = <<>> /\ scan'.start = ToSet(shelf) /\ scan'.open /\ ~scan'.done
      /\ scan'.raced = (cut.phase # "none") /\ scan'.at = 0 /\ scan'.removed = 0 /\ scan'.added = 0
  <2>1. <<>> \in Seq(1..MaxEntry) /\ -1 \in -1..MaxEntry
    BY ReadAssumption
  <2>2. QED
    BY <1>2, <2>1 DEF OpenFresh, NoScan, Scan
<1>4. ToSet(scan'.got) = {}
  BY <1>3 DEF ToSet
<1>5. ScanSound(scan)'
  BY <1>2, <1>3, <1>4 DEF OpenFresh, ScanSound, Made
<1>6. Midway(scan)'
  <2>1. Passed(scan.at)' = {}
    <3>1. DOMAIN shelf' = 1..Len(shelf')
      BY <1>1 DEF ShelfInShape
    <3>2. QED
      BY <1>3, <3>1 DEF Passed
  <2>2. Missed(scan, Passed(scan.at))' = {} /\ (Ahead(scan.at) \cap ToSet(scan.got))' = {}
    BY <1>4, <2>1 DEF Missed
  <2>3. Repeats(scan)' = 0
    <3>1. Len(scan'.got) = 0
      BY <1>3
    <3>2. Cardinality(ToSet(scan'.got)) = 0
      BY <1>4, FS_EmptySet
    <3>3. QED
      BY <3>1, <3>2 DEF Repeats
  <2>4. /\ Cardinality(Missed(scan, Passed(scan.at))') = 0
        /\ Cardinality((Ahead(scan.at) \cap ToSet(scan.got))') = 0
    BY <2>2, FS_EmptySet
  <2>5. scan'.removed = 0 /\ scan'.added = 0
    BY <1>3
  <2>6. QED
    BY <2>3, <2>4, <2>5 DEF Midway
<1>7. ReadAccounted'
  BY <1>3, <1>6 DEF ReadAccounted
<1>8. QED
  BY <1>1, <1>5, <1>7 DEF ReadInv

\* Removing picked entries.
LEMMA RemoveTracksSound ==
  ASSUME ReadInv, NEW picks \in SUBSET Shown, RemoveTracks(picks)
  PROVE  ReadInv'
<1>1. ShelfInShape'
  BY DEF RemoveTracks, ReadInv, ShelfInShape, Made
<1>2. CopiesInShape'
  <2>1. cache' = NoCache \/ cache' = [cache EXCEPT !.raced = cache.held]
    BY DEF RemoveTracks, Forget
  <2>2. cache' \in [held : BOOLEAN, rows : Seq(1..MaxEntry), raced : BOOLEAN]
        /\ (cache'.held => cache'.raced /\ cache.held)
    <3>1. <<>> \in Seq(1..MaxEntry)
      OBVIOUS
    <3>2. CASE cache' = NoCache
      BY <3>1, <3>2 DEF NoCache
    <3>3. CASE cache' = [cache EXCEPT !.raced = cache.held]
      BY <3>3 DEF ReadInv, CopiesInShape
    <3>4. QED
      BY <2>1, <3>2, <3>3
  <2>3. QED
    BY <2>2 DEF RemoveTracks, ReadInv, CopiesInShape
<1>3. PicksInShape'
  <2>1. picks \in SUBSET (Nat \X (1..MaxEntry))
    <3>1. DOMAIN view = 1..Len(view) /\ Len(view) \in Nat /\ \A k \in 1..Len(view) : view[k] \in 1..MaxEntry
      BY SequenceRows DEF ReadInv, CopiesInShape
    <3>2. Shown \subseteq Nat \X (1..MaxEntry)
      BY <3>1 DEF Shown
    <3>3. QED
      BY <3>2
  <2>2. /\ cut' \in [phase : {"none", "check", "send"}, picks : SUBSET (Nat \X (1..MaxEntry)),
                     drifted : BOOLEAN]
        /\ cut'.picks = picks
        /\ cut'.phase = "send" => reader.drops # "index"
    BY <2>1 DEF RemoveTracks, NoCut
  <2>3. picked' = picked \cup {p[2] : p \in picks} /\ reader' = reader
    BY DEF RemoveTracks
  <2>4. QED
    BY <2>1, <2>2, <2>3 DEF ReadInv, PicksInShape
<1>4. /\ scan' = [scan EXCEPT !.raced = TRUE] /\ scan \in Scan
      /\ UNCHANGED <<reader, shelf, fresh, erased>>
  BY DEF RemoveTracks, Overlapped, ReadInv, ScanSound
<1>5. /\ scan' \in Scan /\ scan'.got = scan.got /\ scan'.start = scan.start /\ scan'.open = scan.open
      /\ scan'.done = scan.done /\ scan'.raced /\ scan'.sound = scan.sound /\ scan'.at = scan.at
      /\ scan'.removed = scan.removed /\ scan'.added = scan.added
  BY <1>4 DEF Scan
<1>6. ScanSound(scan)'
  BY <1>4, <1>5 DEF ScanSound, ReadInv, Made
<1>7. ReadAccounted'
  BY <1>4, <1>5 DEF ReadInv, ReadAccounted, Counts, Midway, Complete, Missed, Repeats, Passed, Ahead
<1>8. QED
  BY <1>1, <1>2, <1>3, <1>6, <1>7 DEF ReadInv

LEMMA CheckPositionsSound == ReadInv /\ CheckPositions => ReadInv'
<1> SUFFICES ASSUME ReadInv, CheckPositions PROVE ReadInv'
  OBVIOUS
<1>1. UNCHANGED <<reader, shelf, fresh, scan, view, cache, picked, erased>> /\ cut.phase = "check"
  BY DEF CheckPositions
<1>2. /\ cut' = NoCut \/ (/\ cut' = [cut EXCEPT !.phase = "send", !.drifted = FALSE]
                          /\ \A p \in cut.picks : Stands(p))
  BY DEF CheckPositions
<1>3. /\ cut' \in [phase : {"none", "check", "send"}, picks : SUBSET (Nat \X (1..MaxEntry)),
                   drifted : BOOLEAN]
      /\ cut'.phase # "none" => cut'.picks = cut.picks
      /\ cut'.phase = "send" => \A p \in cut.picks : Stands(p)
  <2>1. CASE cut' = NoCut
    BY <2>1 DEF NoCut
  <2>2. CASE cut' = [cut EXCEPT !.phase = "send", !.drifted = FALSE] /\ \A p \in cut.picks : Stands(p)
    BY <2>2 DEF ReadInv, PicksInShape
  <2>3. QED
    BY <1>2, <2>1, <2>2
<1>4. ShelfInShape' /\ CopiesInShape' /\ PicksInShape' /\ ScanSound(scan)'
  BY <1>1, <1>3 DEF ReadInv, ShelfInShape, CopiesInShape, PicksInShape, ScanSound, Made, Stands
<1>5. ReadAccounted'
  BY <1>1 DEF ReadInv, ReadAccounted, Counts, Midway, Complete, Missed, Repeats, Passed, Ahead
<1>6. QED
  BY <1>4, <1>5 DEF ReadInv

\* Rows that go are counted: a read misses no more than the rows that moved up past it.
LEMMA RowsGoCounted ==
  ASSUME ReadInv, NEW r \in Nat, shelf' \in Seq(1..MaxEntry), reader' = reader, scan' \in Scan,
         \A n \in 1..Len(shelf') : \E p \in 1..Len(shelf) :
            shelf'[n] = shelf[p] /\ n <= p /\ p <= n + r,
         scan'.got = scan.got, scan'.start = scan.start, scan'.open = scan.open,
         scan'.done = scan.done, scan'.sound = scan.sound, scan'.at = scan.at,
         scan'.added = scan.added, scan'.removed = scan.removed + r
  PROVE  ReadAccounted'
<1>1. ShelfInShape /\ scan \in Scan /\ scan.added \in Nat /\ scan.removed \in Nat
  BY DEF ReadInv, ScanSound, Scan
<1>2. /\ Cardinality(Missed(scan, Passed(scan.at)')) <= Cardinality(Missed(scan, Passed(scan.at))) + r
      /\ Ahead(scan.at)' \subseteq Ahead(scan.at)
      /\ ToSet(shelf') \subseteq ToSet(shelf)
  BY <1>1, RowsMoveUp
<1>3. /\ Missed(scan, Passed(scan.at))' = Missed(scan, Passed(scan.at)')
      /\ Missed(scan, ToSet(shelf))' = Missed(scan, ToSet(shelf'))
      /\ Repeats(scan)' = Repeats(scan) /\ (Counts' <=> Counts)
  BY DEF Missed, Repeats, Counts
<1>4. /\ IsFiniteSet(ToSet(shelf)) /\ IsFiniteSet(ToSet(scan.got))
      /\ Cardinality(ToSet(scan.got)) \in Nat /\ Len(scan.got) \in Nat
      /\ IsFiniteSet(Missed(scan, ToSet(shelf))) /\ Cardinality(Missed(scan, ToSet(shelf))) \in Nat
      /\ Cardinality(Missed(scan, Passed(scan.at))) \in Nat
      /\ Cardinality(Ahead(scan.at) \cap ToSet(scan.got)) \in Nat
  BY <1>1, RowsFinite
<1>5. Repeats(scan) \in Int
  BY <1>4 DEF Repeats
<1>6. ASSUME Counts, scan.open PROVE Midway(scan)'
  <2>1. /\ Cardinality(Missed(scan, Passed(scan.at))) <= scan.removed
        /\ Cardinality(Ahead(scan.at) \cap ToSet(scan.got)) + Repeats(scan) <= scan.added
    BY <1>6 DEF ReadInv, ReadAccounted, Midway
  <2>2. (Ahead(scan.at) \cap ToSet(scan.got))' \in SUBSET (Ahead(scan.at) \cap ToSet(scan.got))
    BY <1>2
  <2>3. IsFiniteSet(Ahead(scan.at) \cap ToSet(scan.got))
    BY <1>4, FS_Subset
  <2>4. Cardinality((Ahead(scan.at) \cap ToSet(scan.got))') <= Cardinality(Ahead(scan.at) \cap ToSet(scan.got))
        /\ Cardinality((Ahead(scan.at) \cap ToSet(scan.got))') \in Nat
    BY <2>2, <2>3, FS_Subset, FS_CardinalityType
  <2>5. Cardinality(Missed(scan, Passed(scan.at))') \in Nat
    <3>1. Passed(scan.at)' \subseteq ToSet(shelf')
      BY DEF Passed, ToSet
    <3>2. IsFiniteSet(Passed(scan.at)')
      BY <1>2, <1>4, <3>1, FS_Subset
    <3>3. QED
      BY <1>1, <1>3, <3>2, RowsFinite
  <2>6. Cardinality(Missed(scan, Passed(scan.at))') <= scan'.removed
    BY <1>1, <1>2, <1>3, <1>4, <2>1, <2>5
  <2>7. Cardinality((Ahead(scan.at) \cap ToSet(scan.got))') + Repeats(scan)' <= scan'.added
    BY <1>1, <1>3, <1>4, <1>5, <2>1, <2>4
  <2>8. QED
    BY <2>6, <2>7 DEF Midway
<1>7. ASSUME Counts, scan.done PROVE Complete(scan)'
  <2>1. Cardinality(Missed(scan, ToSet(shelf))) <= scan.removed /\ Repeats(scan) <= scan.added
    BY <1>7 DEF ReadInv, ReadAccounted, Complete
  <2>2. Missed(scan, ToSet(shelf')) \in SUBSET Missed(scan, ToSet(shelf))
    BY <1>2 DEF Missed
  <2>3. Cardinality(Missed(scan, ToSet(shelf'))) <= Cardinality(Missed(scan, ToSet(shelf)))
        /\ Cardinality(Missed(scan, ToSet(shelf'))) \in Nat
    BY <1>4, <2>2, FS_Subset, FS_CardinalityType
  <2>4. QED
    BY <1>1, <1>3, <1>4, <2>1, <2>3 DEF Complete
<1>8. QED
  BY <1>3, <1>6, <1>7 DEF ReadAccounted

\* One row goes.
LEMMA OneGone ==
  ASSUME ShelfInShape, NEW k \in DOMAIN shelf, shelf' = RemoveAt(shelf, k)
  PROVE  /\ shelf' \in Seq(1..MaxEntry) /\ IsInjective(shelf')
         /\ \A n \in 1..Len(shelf') : \E p \in 1..Len(shelf) :
               shelf'[n] = shelf[p] /\ n <= p /\ p <= n + 1
<1> DEFINE m == Len(shelf)
           a == SubSeq(shelf, 1, k - 1)
           b == SubSeq(shelf, k + 1, m)
<1>1. /\ m \in Nat /\ DOMAIN shelf = 1..m /\ k \in 1..m
      /\ \A i \in 1..m : shelf[i] \in 1..MaxEntry
      /\ \A i, j \in 1..m : shelf[i] = shelf[j] => i = j
  BY SequenceRows DEF ShelfInShape
<1>2. shelf' = a \o b
  BY DEF RemoveAt
<1> HIDE DEF m
<1>3. a \in Seq(1..MaxEntry) /\ Len(a) = k - 1 /\ \A i \in 1..(k - 1) : a[i] = shelf[i]
  <2>1. 1 \in Int /\ k - 1 \in Int /\ \A i \in 1..(k - 1) : shelf[i] \in 1..MaxEntry
    BY <1>1
  <2>2. /\ a \in Seq(1..MaxEntry) /\ Len(a) = IF 1 <= k - 1 THEN (k - 1) - 1 + 1 ELSE 0
        /\ \A i \in 1..((k - 1) - 1 + 1) : a[i] = shelf[1 + i - 1]
    BY <2>1, SubSeqProperties
  <2>3. \A i \in 1..(k - 1) : i \in 1..((k - 1) - 1 + 1) /\ 1 + i - 1 = i
    BY <1>1
  <2>4. QED
    BY <1>1, <2>2, <2>3
<1>4. b \in Seq(1..MaxEntry) /\ Len(b) = m - k /\ \A i \in 1..(m - k) : b[i] = shelf[k + i]
  <2>1. k + 1 \in Int /\ m \in Int /\ \A i \in (k + 1)..m : shelf[i] \in 1..MaxEntry
    BY <1>1
  <2>2. /\ b \in Seq(1..MaxEntry) /\ Len(b) = IF k + 1 <= m THEN m - (k + 1) + 1 ELSE 0
        /\ \A i \in 1..(m - (k + 1) + 1) : b[i] = shelf[(k + 1) + i - 1]
    BY <2>1, SubSeqProperties
  <2>3. \A i \in 1..(m - k) : i \in 1..(m - (k + 1) + 1) /\ (k + 1) + i - 1 = k + i
    BY <1>1
  <2>4. QED
    BY <1>1, <2>2, <2>3
<1> HIDE DEF a, b
<1>5. /\ shelf' \in Seq(1..MaxEntry) /\ Len(shelf') = m - 1
      /\ \A i \in 1..(m - 1) : shelf'[i] = IF i <= k - 1 THEN a[i] ELSE b[i - (k - 1)]
  <2>1. /\ a \o b \in Seq(1..MaxEntry) /\ Len(a \o b) = Len(a) + Len(b)
        /\ \A i \in 1..(Len(a) + Len(b)) : (a \o b)[i] = IF i <= Len(a) THEN a[i] ELSE b[i - Len(a)]
    BY <1>3, <1>4, ConcatProperties
  <2>2. Len(a) + Len(b) = m - 1
    BY <1>1, <1>3, <1>4
  <2>3. QED
    BY <1>2, <1>3, <2>1, <2>2
<1>6. \A i \in 1..(m - 1) : shelf'[i] = shelf[IF i < k THEN i ELSE i + 1]
  <2> SUFFICES ASSUME NEW i \in 1..(m - 1) PROVE shelf'[i] = shelf[IF i < k THEN i ELSE i + 1]
    OBVIOUS
  <2>1. CASE i < k
    <3>1. i \in 1..(k - 1)
      BY <1>1, <2>1
    <3>2. QED
      BY <1>1, <1>3, <1>5, <2>1, <3>1
  <2>2. CASE ~(i < k)
    <3>1. i - (k - 1) \in 1..(m - k) /\ k + (i - (k - 1)) = i + 1 /\ ~(i <= k - 1)
      BY <1>1, <2>2
    <3>2. QED
      BY <1>4, <1>5, <2>2, <3>1
  <2>3. QED
    BY <2>1, <2>2
<1>7. IsInjective(shelf')
  <2>1. DOMAIN shelf' = 1..(m - 1)
    BY <1>5
  <2>2. ASSUME NEW i \in 1..(m - 1), NEW j \in 1..(m - 1), shelf'[i] = shelf'[j] PROVE i = j
    <3> DEFINE pi == IF i < k THEN i ELSE i + 1
               pj == IF j < k THEN j ELSE j + 1
    <3>1. pi \in 1..m /\ pj \in 1..m
      BY <1>1
    <3>2. shelf[pi] = shelf[pj]
      BY <1>6, <2>2
    <3>3. pi = pj
      BY <1>1, <3>1, <3>2
    <3>4. QED
      BY <1>1, <3>3
  <2>3. QED
    BY <2>1, <2>2 DEF IsInjective
<1>8. ASSUME NEW n \in 1..Len(shelf')
      PROVE  \E p \in 1..m : shelf'[n] = shelf[p] /\ n <= p /\ p <= n + 1
  <2> DEFINE p == IF n < k THEN n ELSE n + 1
  <2>1. n \in 1..(m - 1)
    BY <1>5
  <2>2. p \in 1..m /\ n <= p /\ p <= n + 1 /\ shelf'[n] = shelf[p]
    BY <1>1, <1>6, <2>1
  <2>3. QED
    BY <2>2
<1>9. QED
  BY <1>5, <1>7, <1>8 DEF m

\* What is kept of a sequence.
LEMMA RowsKept ==
  ASSUME NEW T, NEW s \in Seq(T), NEW S, NEW r, r = Kept(s, S)
  PROVE  /\ r \in Seq(T)
         /\ \A x : (\E k \in 1..Len(r) : r[k] = x) <=> x \in S /\ \E i \in 1..Len(s) : s[i] = x
         /\ (\A i, j \in 1..Len(s) : s[i] = s[j] => i = j)
               => \A k, l \in 1..Len(r) : r[k] = r[l] => k = l
<1>1. /\ Kept(s, S) \in Seq(T)
      /\ \A x : (\E k \in 1..Len(Kept(s, S)) : Kept(s, S)[k] = x)
                  <=> x \in S /\ \E i \in 1..Len(s) : s[i] = x
  BY KeptElements
<1>2. (\A i, j \in 1..Len(s) : s[i] = s[j] => i = j)
        => \A k, l \in 1..Len(Kept(s, S)) : Kept(s, S)[k] = Kept(s, S)[l] => k = l
  BY KeptDistinct
<1>3. QED
  BY <1>1, <1>2

\* Struck rows go: each of the others moves up by as many as went before it.
LEMMA StruckGone ==
  ASSUME NEW T, NEW s \in Seq(T), IsInjective(s), NEW K \in SUBSET ToSet(s), NEW r, r = Kept(s, K)
  PROVE  LET S == ToSet(s) \ K IN
         /\ r \in Seq(T) /\ IsInjective(r) /\ ToSet(r) = K
         /\ Cardinality(S) \in Nat
         /\ \A n \in 1..Len(r) : \E p \in 1..Len(s) :
               r[n] = s[p] /\ n <= p /\ p <= n + Cardinality(S)
<1> DEFINE m == Len(s)
<1>0. PICK S : S = ToSet(s) \ K
  OBVIOUS
<1> DEFINE P == Positions(s, K)
           D == {i \in 1..m : i \notin P}
<1>1. /\ m \in Nat /\ DOMAIN s = 1..m
      /\ \A i \in 1..m : s[i] \in T
      /\ \A i, j \in 1..m : s[i] = s[j] => i = j
      /\ s \in Seq(T)
      /\ \A x : x \in ToSet(s) <=> \E i \in 1..m : x = s[i]
  BY SequenceRows
<1>2. /\ r \in Seq(T) /\ DOMAIN r = 1..Len(r)
      /\ \A x : x \in ToSet(r) <=> \E k \in 1..Len(r) : x = r[k]
      /\ \A x : (\E k \in 1..Len(r) : r[k] = x) <=> x \in K /\ \E i \in 1..Len(s) : s[i] = x
      /\ IsInjective(r)
  <2>2. \A i, j \in 1..Len(s) : s[i] = s[j] => i = j
    BY <1>1
  <2>3. /\ r \in Seq(T)
        /\ \A x : (\E k \in 1..Len(r) : r[k] = x) <=> x \in K /\ \E i \in 1..Len(s) : s[i] = x
    BY RowsKept
  <2>4. \A k, l \in 1..Len(r) : r[k] = r[l] => k = l
    BY <2>2, RowsKept
  <2>5. /\ DOMAIN r = 1..Len(r)
        /\ \A x : x \in ToSet(r) <=> \E k \in 1..Len(r) : x = r[k]
    <3>1. r \in Seq(T)
      BY <2>3
    <3>2. DOMAIN r = 1..Len(r)
      BY <3>1, SequenceRows
    <3>3. QED
      BY <3>2 DEF ToSet
  <2>6. QED
    BY <2>3, <2>4, <2>5 DEF IsInjective
<1>4. ToSet(r) = K
  <2>1. ASSUME NEW x PROVE x \in ToSet(r) <=> x \in K
    <3>1. x \in K => \E i \in 1..m : s[i] = x
      BY <1>0, <1>1
    <3>2. QED
      BY <1>2, <3>1
  <2>2. QED
    BY <2>1
<1>5. IsFiniteSet(S) /\ Cardinality(S) \in Nat
  <2>1. S \in SUBSET ToSet(s) /\ IsFiniteSet(ToSet(s))
    BY <1>0, ElementsCounted
  <2>2. QED
    BY <2>1, FS_Subset, FS_CardinalityType
<1>6. P \in SUBSET (1..m) /\ \A i \in D : s[i] \in S
  BY <1>0, <1>1 DEF Positions
<1> HIDE DEF P
<1>7. IsFiniteSet(D) /\ Cardinality(D) <= Cardinality(S)
  <2> DEFINE f == [i \in D |-> s[i]]
  <2>1. f \in Injection(D, S)
    BY <1>1, <1>6 DEF Injection, IsInjective
  <2> HIDE DEF f, D
  <2>2. QED
    BY <1>5, <2>1, FS_Injection
<1>8. /\ Cardinality(P) \in Nat
      /\ \A n \in 1..Cardinality(P) : \E i \in P : Rank(P, i) = n
  BY <1>1, <1>6, RankIsBijection
<1>9. r = [n \in 1..Cardinality(P) |-> s[CHOOSE i \in P : Rank(P, i) = n]]
  BY DEF Kept, P
<1>10. ASSUME NEW n \in 1..Len(r)
       PROVE  \E p \in 1..m : r[n] = s[p] /\ n <= p /\ p <= n + Cardinality(S)
  <2>1. Len(r) = Cardinality(P)
    BY <1>8, <1>9
  <2>2. n \in 1..Cardinality(P)
    BY <2>1
  <2> DEFINE p == CHOOSE i \in P : Rank(P, i) = n
  <2>3. p \in P /\ Rank(P, p) = n /\ r[n] = s[p]
    BY <1>8, <1>9, <2>2
  <2> HIDE DEF p
  <2>4. p \in 1..m /\ p \in Nat /\ p \in Int
    BY <1>1, <1>6, <2>3
  <2> DEFINE B == {i \in P : i <= p}
             L == {i \in D : i <= p}
  <2>5. B \cup L = 1..p /\ B \cap L = {}
    <3>1. ASSUME NEW x \in B \cup L PROVE x \in 1..p
      BY <1>1, <1>6, <2>4
    <3>2. ASSUME NEW x \in 1..p PROVE x \in B \cup L
      BY <1>1, <1>6, <2>4
    <3>3. QED
      BY <3>1, <3>2
  <2>6. IsFiniteSet(1..p) /\ Cardinality(1..p) = p
    <3>1. IsFiniteSet(1..p) /\ Cardinality(1..p) = IF 1 > p THEN 0 ELSE p - 1 + 1
      BY <2>4, FS_Interval
    <3>2. QED
      BY <2>4, <3>1
  <2>7. IsFiniteSet(B) /\ Cardinality(B) \in Nat
    <3>1. B \in SUBSET (1..p)
      BY <2>5
    <3>2. QED
      BY <2>6, <3>1, FS_Subset, FS_CardinalityType
  <2>8. IsFiniteSet(L) /\ Cardinality(L) \in Nat /\ Cardinality(L) <= Cardinality(D)
    BY <1>7, FS_Subset, FS_CardinalityType
  <2>9. Cardinality(B) = n
    BY <2>3 DEF Rank
  <2> HIDE DEF B, L, D
  <2>10. Cardinality(B \cup L) = Cardinality(B) + Cardinality(L) - Cardinality(B \cap L)
    BY <2>7, <2>8, FS_Union
  <2>11. Cardinality(B \cup L) = p /\ Cardinality(B \cap L) = 0
    BY <2>5, <2>6, FS_EmptySet
  <2>12. Cardinality(D) \in Nat
    BY <1>7, FS_CardinalityType
  <2>13. n <= p /\ p <= n + Cardinality(S)
    BY <1>5, <1>7, <2>4, <2>7, <2>8, <2>9, <2>10, <2>11, <2>12
  <2>14. QED
    BY <2>3, <2>4, <2>13
<1>11. QED
  BY <1>2, <1>4, <1>5, <1>10, <1>0 DEF m

\* The removal requests.
LEMMA SendRemovalsSound == ReadInv /\ SendRemovals => ReadInv'
<1> SUFFICES ASSUME ReadInv, SendRemovals PROVE ReadInv'
  OBVIOUS
<1>1. PICK part \in SUBSET cut.picks :
         /\ shelf' = Kept(shelf, ToSet(shelf) \ Struck(part))
         /\ erased' = erased \cup Struck(part)
         /\ scan' = [Overlapped EXCEPT !.removed = @ + Cardinality(Struck(part))]
  BY DEF SendRemovals
<1>2. /\ cut.phase = "send" /\ cut' = NoCut /\ UNCHANGED <<reader, fresh, view, cache, picked>>
      /\ ShelfInShape /\ scan \in Scan
  BY DEF SendRemovals, ReadInv, ScanSound
<1>3. Struck(part) \subseteq ToSet(shelf)
  BY DEF Struck, ToSet
<1>4. PICK S : S = Struck(part)
  OBVIOUS
<1>5. PICK K \in SUBSET ToSet(shelf) : K = ToSet(shelf) \ S
  OBVIOUS
<1>6. ToSet(shelf) \ K = S
  BY <1>3, <1>4, <1>5
<1>7. /\ shelf' \in Seq(1..MaxEntry) /\ IsInjective(shelf') /\ ToSet(shelf') = K
      /\ Cardinality(S) \in Nat
      /\ \A n \in 1..Len(shelf') : \E p \in 1..Len(shelf) :
            shelf'[n] = shelf[p] /\ n <= p /\ p <= n + Cardinality(S)
  <2>1. shelf' = Kept(shelf, K)
    BY <1>1, <1>4, <1>5
  <2>2. shelf \in Seq(1..MaxEntry) /\ IsInjective(shelf)
    BY <1>2 DEF ShelfInShape
  <2>3. QED
    BY <1>6, <2>1, <2>2, StruckGone
<1>8. ShelfInShape'
  BY <1>1, <1>2, <1>4, <1>5, <1>6, <1>7 DEF ShelfInShape, Made
<1>9. scan' = [scan EXCEPT !.raced = TRUE, !.removed = @ + Cardinality(S)]
  BY <1>1, <1>2, <1>4 DEF Overlapped, Scan
<1>10. /\ scan' \in Scan /\ scan'.got = scan.got /\ scan'.start = scan.start /\ scan'.open = scan.open
       /\ scan'.done = scan.done /\ scan'.sound = scan.sound /\ scan'.at = scan.at
       /\ scan'.added = scan.added /\ scan'.removed = scan.removed + Cardinality(S) /\ scan'.raced
  <2>1. PICK c \in Nat : c = Cardinality(S)
    BY <1>7
  <2>2. scan' = [scan EXCEPT !.raced = TRUE, !.removed = @ + c]
    BY <1>9, <2>1
  <2>3. /\ scan' \in Scan /\ scan'.got = scan.got /\ scan'.start = scan.start /\ scan'.open = scan.open
        /\ scan'.done = scan.done /\ scan'.sound = scan.sound /\ scan'.at = scan.at
        /\ scan'.added = scan.added /\ scan'.removed = scan.removed + c /\ scan'.raced
    <3>1. scan \in Scan /\ scan.removed + c \in Nat
      BY <1>2, <2>1 DEF Scan
    <3>2. scan' = [scan EXCEPT !.raced = TRUE, !.removed = scan.removed + c]
      BY <2>2, <3>1 DEF Scan
    <3>3. scan' \in Scan
      BY <3>1, <3>2 DEF Scan
    <3>4. QED
      BY <3>1, <3>2, <3>3 DEF Scan
  <2>4. QED
    BY <2>1, <2>3
<1>11. ReadAccounted'
  BY <1>2, <1>7, <1>10, RowsGoCounted
<1>12. ScanSound(scan)'
  BY <1>2, <1>10 DEF ReadInv, ScanSound, Made
<1>13. CopiesInShape'
  <2>1. cache.held => cache.raced
    BY <1>2 DEF ReadInv, CopiesInShape
  <2>2. QED
    BY <1>2, <2>1 DEF ReadInv, CopiesInShape, NoCut
<1>14. PicksInShape'
  BY <1>2 DEF ReadInv, PicksInShape, NoCut
<1>15. QED
  BY <1>8, <1>11, <1>12, <1>13, <1>14 DEF ReadInv

\* A person's edit drifts a removal that is under way.
LEMMA EditedPicks ==
  ASSUME ReadInv, Edited, UNCHANGED <<reader, picked>>
  PROVE  PicksInShape' /\ (cut.phase # "none" <=> cut'.phase # "none")
<1>1. /\ cut' \in [phase : {"none", "check", "send"}, picks : SUBSET (Nat \X (1..MaxEntry)),
                   drifted : BOOLEAN]
      /\ cut'.phase = cut.phase /\ cut'.picks = cut.picks
      /\ cut'.phase = "send" => cut'.drifted
  BY DEF Edited, ReadInv, PicksInShape
<1>2. QED
  BY <1>1 DEF ReadInv, PicksInShape

LEMMA PersonTakesSound ==
  ASSUME ReadInv, NEW k \in DOMAIN shelf, PersonTakes(k)
  PROVE  ReadInv'
<1>1. /\ Edited /\ shelf' = RemoveAt(shelf, k) /\ scan' = [scan EXCEPT !.removed = @ + 1]
      /\ UNCHANGED <<reader, fresh, view, cache, picked, erased>>
      /\ ShelfInShape /\ scan \in Scan
  BY DEF PersonTakes, ReadInv, ScanSound
<1>2. /\ shelf' \in Seq(1..MaxEntry) /\ IsInjective(shelf')
      /\ \A n \in 1..Len(shelf') : \E p \in 1..Len(shelf) :
            shelf'[n] = shelf[p] /\ n <= p /\ p <= n + 1
  BY <1>1, OneGone
<1>3. PicksInShape' /\ (cut.phase # "none" <=> cut'.phase # "none")
  BY <1>1, EditedPicks
<1>4. /\ scan' \in Scan /\ scan'.got = scan.got /\ scan'.start = scan.start /\ scan'.open = scan.open
      /\ scan'.done = scan.done /\ scan'.sound = scan.sound /\ scan'.at = scan.at
      /\ scan'.added = scan.added /\ scan'.removed = scan.removed + 1 /\ scan'.raced = scan.raced
  BY <1>1, SMTT(40) DEF Scan
<1>5. ToSet(shelf') \subseteq ToSet(shelf)
  <2>1. ASSUME NEW x \in ToSet(shelf') PROVE x \in ToSet(shelf)
    <3>1. PICK n \in 1..Len(shelf') : x = shelf'[n]
      BY <1>2, SequenceRows
    <3>2. PICK p \in 1..Len(shelf) : shelf'[n] = shelf[p]
      BY <1>2
    <3>3. QED
      BY <1>1, <3>1, <3>2, SequenceRows DEF ShelfInShape
  <2>2. QED
    BY <2>1
<1>6. ShelfInShape'
  BY <1>1, <1>2, <1>5 DEF ShelfInShape, Made
<1>7. ReadAccounted'
  BY <1>1, <1>2, <1>4, RowsGoCounted
<1>8. ScanSound(scan)'
  BY <1>1, <1>3, <1>4 DEF ReadInv, ScanSound, Made
<1>9. CopiesInShape'
  BY <1>1, <1>3 DEF ReadInv, CopiesInShape
<1>10. QED
  BY <1>3, <1>6, <1>7, <1>8, <1>9 DEF ReadInv

\* A row is put at either end: each of the others stands where it was, or one place on.
LEMMA OnePut ==
  ASSUME NEW T, NEW s \in Seq(T), IsInjective(s), NEW f \in T, f \notin ToSet(s),
         NEW r, r = Append(s, f) \/ r = <<f>> \o s
  PROVE  /\ r \in Seq(T) /\ IsInjective(r)
         /\ \A i \in 1..Len(r) :
               r[i] = f \/ \E p \in 1..Len(s) : r[i] = s[p] /\ p <= i /\ i <= p + 1
<1>1. PICK m \in Nat : /\ m = Len(s) /\ DOMAIN s = 1..m
                       /\ \A i \in 1..m : s[i] \in T /\ s[i] # f
                       /\ \A i, j \in 1..m : s[i] = s[j] => i = j
  BY SequenceRows
<1>2. CASE r = Append(s, f)
  <2>1. /\ r \in Seq(T) /\ Len(r) = m + 1 /\ DOMAIN r = 1..(m + 1)
        /\ \A i \in 1..m : r[i] = s[i]
        /\ r[m + 1] = f
    BY <1>1, <1>2
  <2>2. \A i \in 1..(m + 1) : i \in 1..m \/ i = m + 1
    BY <1>1
  <2>3. IsInjective(r)
    BY <1>1, <2>1, <2>2 DEF IsInjective
  <2>4. ASSUME NEW i \in 1..Len(r)
        PROVE  r[i] = f \/ \E p \in 1..Len(s) : r[i] = s[p] /\ p <= i /\ i <= p + 1
    BY <1>1, <2>1, <2>2
  <2>5. QED
    BY <2>1, <2>3, <2>4
<1>3. CASE r = <<f>> \o s
  <2>1. <<f>> \in Seq(T) /\ Len(<<f>>) = 1 /\ <<f>>[1] = f
    OBVIOUS
  <2>2. /\ r \in Seq(T) /\ Len(r) = 1 + m
        /\ \A i \in 1..(1 + m) : r[i] = IF i <= 1 THEN <<f>>[i] ELSE s[i - 1]
    BY <1>1, <1>3, <2>1, ConcatProperties
  <2>3. DOMAIN r = 1..(m + 1) /\ Len(r) = m + 1
    BY <1>1, <2>2
  <2>4. r[1] = f /\ \A i \in 2..(m + 1) : r[i] = s[i - 1] /\ i - 1 \in 1..m
    BY <1>1, <2>1, <2>2
  <2>5. \A i \in 1..(m + 1) : i = 1 \/ i \in 2..(m + 1)
    BY <1>1
  <2>6. IsInjective(r)
    <3>1. ASSUME NEW i \in 1..(m + 1), NEW j \in 1..(m + 1), r[i] = r[j] PROVE i = j
      <4>1. CASE i = 1 \/ j = 1
        BY <1>1, <2>4, <2>5, <3>1, <4>1
      <4>2. CASE i # 1 /\ j # 1
        <5>1. i - 1 \in 1..m /\ j - 1 \in 1..m /\ s[i - 1] = s[j - 1]
          BY <2>4, <2>5, <3>1, <4>2
        <5>2. i - 1 = j - 1
          BY <1>1, <5>1
        <5>3. QED
          BY <5>2
      <4>3. QED
        BY <4>1, <4>2
    <3>2. QED
      BY <2>3, <3>1 DEF IsInjective
  <2>7. ASSUME NEW i \in 1..Len(r)
        PROVE  r[i] = f \/ \E p \in 1..Len(s) : r[i] = s[p] /\ p <= i /\ i <= p + 1
    BY <1>1, <2>3, <2>4, <2>5
  <2>8. QED
    BY <2>2, <2>6, <2>7
<1>4. QED
  BY <1>2, <1>3

\* A row put is new to the read, and at most one of those behind the read comes to stand ahead of it.
LEMMA RowPutCounted ==
  ASSUME ReadInv, reader' = reader, shelf' \in Seq(1..MaxEntry), scan' \in Scan,
         \A i \in 1..Len(shelf') :
            shelf'[i] = fresh \/ \E p \in 1..Len(shelf) : shelf'[i] = shelf[p] /\ p <= i /\ i <= p + 1,
         scan'.got = scan.got, scan'.start = scan.start, scan'.open = scan.open,
         scan'.done = scan.done, scan'.sound = scan.sound, scan'.at = scan.at,
         scan'.removed = scan.removed, scan'.added = scan.added + 1
  PROVE  ReadAccounted' /\ ToSet(shelf') \subseteq ToSet(shelf) \cup {fresh}
<1>1. ShelfInShape /\ scan \in Scan /\ scan.added \in Nat /\ scan.removed \in Nat /\ scan.at \in Nat
  BY DEF ReadInv, ScanSound, Scan
<1>2. fresh \notin scan.start /\ fresh \notin ToSet(scan.got)
  BY <1>1 DEF ReadInv, ShelfInShape, ScanSound, Made
<1>3. PICK m \in Nat : m = Len(shelf) /\ DOMAIN shelf = 1..m
  BY <1>1, SequenceRows DEF ShelfInShape
<1>4. PICK k1 \in Nat : k1 = Len(shelf') /\ DOMAIN shelf' = 1..k1
  BY SequenceRows
<1> DEFINE n == scan.at
<1>5. \A x : /\ x \in Passed(n) <=> \E j \in 1..m : j <= n /\ x = shelf[j]
             /\ x \in Ahead(n) <=> \E j \in 1..m : j > n /\ x = shelf[j]
             /\ x \in ToSet(shelf) <=> \E j \in 1..m : x = shelf[j]
  BY <1>3 DEF Passed, Ahead, ToSet
<1>6. \A x : /\ x \in Passed(scan.at)' <=> \E j \in 1..k1 : j <= n /\ x = shelf'[j]
             /\ x \in Ahead(scan.at)' <=> \E j \in 1..k1 : j > n /\ x = shelf'[j]
             /\ x \in ToSet(shelf') <=> \E j \in 1..k1 : x = shelf'[j]
  BY <1>4 DEF Passed, Ahead, ToSet
<1>7. ASSUME NEW x \in Passed(scan.at)' PROVE x \in Passed(n) \cup {fresh}
  <2>1. PICK j \in 1..k1 : j <= n /\ x = shelf'[j]
    BY <1>6
  <2>2. CASE x = fresh
    BY <2>2
  <2>3. CASE x # fresh
    <3>1. PICK p \in 1..m : shelf'[j] = shelf[p] /\ p <= j
      BY <1>3, <1>4, <2>1, <2>3
    <3>2. p <= n
      BY <1>1, <2>1, <3>1
    <3>3. QED
      BY <1>5, <2>1, <3>1, <3>2
  <2>4. QED
    BY <2>2, <2>3
<1>8. ASSUME NEW x \in Ahead(scan.at)' PROVE x \in Ahead(n) \cup {fresh, shelf[n]}
  <2>1. PICK j \in 1..k1 : j > n /\ x = shelf'[j]
    BY <1>6
  <2>2. CASE x = fresh
    BY <2>2
  <2>3. CASE x # fresh
    <3>1. PICK p \in 1..m : shelf'[j] = shelf[p] /\ j <= p + 1
      BY <1>3, <1>4, <2>1, <2>3
    <3>2. p > n \/ p = n
      BY <1>1, <2>1, <3>1
    <3>3. QED
      BY <1>5, <2>1, <3>1, <3>2
  <2>4. QED
    BY <2>2, <2>3
<1>9. ToSet(shelf') \subseteq ToSet(shelf) \cup {fresh}
  <2>1. ASSUME NEW x \in ToSet(shelf') PROVE x \in ToSet(shelf) \cup {fresh}
    <3>1. PICK j \in 1..k1 : x = shelf'[j]
      BY <1>6
    <3>2. QED
      BY <1>3, <1>4, <1>5, <3>1
  <2>2. QED
    BY <2>1
<1>10. PICK e : e = shelf[n]
  OBVIOUS
<1>11. /\ Missed(scan, Passed(scan.at))' \in SUBSET Missed(scan, Passed(n))
       /\ Missed(scan, ToSet(shelf))' \in SUBSET Missed(scan, ToSet(shelf))
       /\ (Ahead(scan.at) \cap ToSet(scan.got))' \in SUBSET ((Ahead(n) \cap ToSet(scan.got)) \cup {e})
       /\ Repeats(scan)' = Repeats(scan) /\ (Counts' <=> Counts)
  <2>1. Missed(scan, Passed(scan.at))' = (scan.start \cap Passed(scan.at)') \ ToSet(scan.got)
        /\ Missed(scan, ToSet(shelf))' = (scan.start \cap ToSet(shelf')) \ ToSet(scan.got)
        /\ Repeats(scan)' = Repeats(scan) /\ (Counts' <=> Counts)
    BY DEF Missed, Repeats, Counts
  <2>2. (Ahead(scan.at) \cap ToSet(scan.got))' = Ahead(scan.at)' \cap ToSet(scan.got)
    OBVIOUS
  <2>3. QED
    BY <1>2, <1>7, <1>8, <1>9, <1>10, <2>1, <2>2 DEF Missed
<1>12. /\ IsFiniteSet(Missed(scan, Passed(n))) /\ Cardinality(Missed(scan, Passed(n))) \in Nat
       /\ IsFiniteSet(Missed(scan, ToSet(shelf))) /\ Cardinality(Missed(scan, ToSet(shelf))) \in Nat
       /\ IsFiniteSet(Ahead(n) \cap ToSet(scan.got)) /\ Cardinality(Ahead(n) \cap ToSet(scan.got)) \in Nat
       /\ Repeats(scan) \in Int
  <2>1. /\ IsFiniteSet(ToSet(shelf)) /\ IsFiniteSet(Passed(n)) /\ IsFiniteSet(Ahead(n))
        /\ Cardinality(ToSet(scan.got)) \in Nat /\ Len(scan.got) \in Nat
        /\ Cardinality(Ahead(n) \cap ToSet(scan.got)) \in Nat
    BY <1>1, RowsFinite
  <2>2. Repeats(scan) \in Int /\ IsFiniteSet(Ahead(n) \cap ToSet(scan.got))
    BY <2>1, FS_Subset DEF Repeats
  <2>3. QED
    BY <1>1, <2>1, <2>2, RowsFinite
<1> HIDE DEF n
<1>13. ASSUME Counts, scan.open PROVE Midway(scan)'
  <2>1. /\ Cardinality(Missed(scan, Passed(n))) <= scan.removed
        /\ Cardinality(Ahead(n) \cap ToSet(scan.got)) + Repeats(scan) <= scan.added
    BY <1>13 DEF ReadInv, ReadAccounted, Midway, n
  <2>2. Cardinality(Missed(scan, Passed(scan.at))') <= Cardinality(Missed(scan, Passed(n)))
        /\ Cardinality(Missed(scan, Passed(scan.at))') \in Nat
    BY <1>11, <1>12, FS_Subset, FS_CardinalityType
  <2> DEFINE A == Ahead(n) \cap ToSet(scan.got)
             B == (Ahead(scan.at) \cap ToSet(scan.got))'
  <2>3. IsFiniteSet(A) /\ Cardinality(A) \in Nat /\ B \in SUBSET (A \cup {e})
    BY <1>11, <1>12
  <2> HIDE DEF A, B
  <2>4. IsFiniteSet(A \cup {e}) /\ Cardinality(A \cup {e}) <= Cardinality(A) + 1
        /\ Cardinality(A \cup {e}) \in Nat
    <3>1. IsFiniteSet(A \cup {e})
          /\ Cardinality(A \cup {e}) = IF e \in A THEN Cardinality(A) ELSE Cardinality(A) + 1
      BY <2>3, FS_AddElement
    <3>2. QED
      BY <2>3, <3>1
  <2>5. Cardinality(B) <= Cardinality(A \cup {e}) /\ Cardinality(B) \in Nat
    BY <2>3, <2>4, FS_Subset, FS_CardinalityType
  <2>6. Cardinality(A) + Repeats(scan) <= scan.added
    BY <2>1 DEF A
  <2>7. Cardinality(B) + Repeats(scan)' <= scan'.added
    BY <1>1, <1>11, <1>12, <2>3, <2>4, <2>5, <2>6
  <2>8. Cardinality(Missed(scan, Passed(scan.at))') <= scan'.removed
    BY <1>1, <1>12, <2>1, <2>2
  <2>9. QED
    BY <2>7, <2>8 DEF Midway, B
<1>14. ASSUME Counts, scan.done PROVE Complete(scan)'
  <2>1. Cardinality(Missed(scan, ToSet(shelf))) <= scan.removed /\ Repeats(scan) <= scan.added
    BY <1>14 DEF ReadInv, ReadAccounted, Complete
  <2>2. Cardinality(Missed(scan, ToSet(shelf))') <= Cardinality(Missed(scan, ToSet(shelf)))
        /\ Cardinality(Missed(scan, ToSet(shelf))') \in Nat
    BY <1>11, <1>12, FS_Subset, FS_CardinalityType
  <2>3. QED
    BY <1>1, <1>11, <1>12, <2>1, <2>2 DEF Complete
<1>15. QED
  BY <1>9, <1>11, <1>13, <1>14 DEF ReadAccounted

LEMMA PersonPutsSound == ReadInv /\ PersonPuts => ReadInv'
<1> SUFFICES ASSUME ReadInv, PersonPuts PROVE ReadInv'
  OBVIOUS
<1>1. /\ Edited /\ scan' = [scan EXCEPT !.added = @ + 1] /\ fresh <= MaxEntry /\ fresh' = fresh + 1
      /\ shelf' = Append(shelf, fresh) \/ shelf' = <<fresh>> \o shelf
      /\ UNCHANGED <<reader, view, cache, picked, erased>>
      /\ ShelfInShape /\ scan \in Scan
  BY DEF PersonPuts, ReadInv, ScanSound
<1>2. fresh \in 1..MaxEntry /\ fresh' \in 1..(MaxEntry + 1) /\ Made' = Made \cup {fresh}
      /\ fresh \notin ToSet(shelf) /\ fresh \notin erased
  BY <1>1, ReadAssumption, SMTT(40) DEF ShelfInShape, Made
<1>3. /\ shelf' \in Seq(1..MaxEntry) /\ IsInjective(shelf')
      /\ \A i \in 1..Len(shelf') :
            shelf'[i] = fresh \/ \E p \in 1..Len(shelf) : shelf'[i] = shelf[p] /\ p <= i /\ i <= p + 1
  <2>1. shelf \in Seq(1..MaxEntry) /\ IsInjective(shelf) /\ fresh \in 1..MaxEntry /\ fresh \notin ToSet(shelf)
    BY <1>1, <1>2 DEF ShelfInShape
  <2>2. PICK r : r = shelf'
    OBVIOUS
  <2>3. r = Append(shelf, fresh) \/ r = <<fresh>> \o shelf
    BY <1>1, <2>2
  <2>4. /\ r \in Seq(1..MaxEntry) /\ IsInjective(r)
        /\ \A i \in 1..Len(r) :
              r[i] = fresh \/ \E p \in 1..Len(shelf) : r[i] = shelf[p] /\ p <= i /\ i <= p + 1
    <3>1. PICK T : T = 1..MaxEntry
      OBVIOUS
    <3>2. shelf \in Seq(T) /\ fresh \in T
      BY <2>1, <3>1
    <3>3. /\ r \in Seq(T) /\ IsInjective(r)
          /\ \A i \in 1..Len(r) :
                r[i] = fresh \/ \E p \in 1..Len(shelf) : r[i] = shelf[p] /\ p <= i /\ i <= p + 1
      BY <2>1, <2>3, <3>2, OnePut
    <3>4. QED
      BY <3>1, <3>3
  <2>5. QED
    BY <2>2, <2>4
<1>4. PicksInShape' /\ (cut.phase # "none" <=> cut'.phase # "none")
  BY <1>1, EditedPicks
<1>5. /\ scan' \in Scan /\ scan'.got = scan.got /\ scan'.start = scan.start /\ scan'.open = scan.open
      /\ scan'.done = scan.done /\ scan'.sound = scan.sound /\ scan'.at = scan.at
      /\ scan'.added = scan.added + 1 /\ scan'.removed = scan.removed /\ scan'.raced = scan.raced
  <2>1. scan' = [scan EXCEPT !.added = @ + 1] /\ scan \in Scan
    BY <1>1
  <2>2. QED
    BY <2>1 DEF Scan
<1>6. ReadAccounted' /\ ToSet(shelf') \subseteq ToSet(shelf) \cup {fresh}
  BY <1>1, <1>3, <1>5, RowPutCounted
<1>7. ShelfInShape'
  BY <1>1, <1>2, <1>3, <1>6 DEF ShelfInShape
<1>8. ScanSound(scan)'
  BY <1>1, <1>2, <1>4, <1>5 DEF ReadInv, ScanSound
<1>9. CopiesInShape'
  BY <1>1, <1>4 DEF ReadInv, CopiesInShape
<1>10. QED
  BY <1>4, <1>6, <1>7, <1>8, <1>9 DEF ReadInv

LEMMA ReadInitInv == ReadInit => ReadInv
<1> SUFFICES ASSUME ReadInit PROVE ReadInv
  OBVIOUS
<1>1. PICK n \in 0..MaxEntry : shelf = [k \in 1..n |-> k] /\ fresh = n + 1
  BY DEF ReadInit
<1>2. MaxEntry \in Nat /\ n \in Nat /\ n <= MaxEntry
  BY <1>1, ReadAssumption
<1>3. /\ shelf \in Seq(1..MaxEntry) /\ IsInjective(shelf) /\ ToSet(shelf) = 1..n
  BY <1>1, <1>2 DEF IsInjective, ToSet
<1>4. ShelfInShape
  BY <1>1, <1>2, <1>3 DEF ReadInit, ShelfInShape, Made
<1>5. NoScan \in Scan /\ ToSet(NoScan.got) = {} /\ ~NoScan.open /\ ~NoScan.done /\ NoScan.start = {}
  <2>1. <<>> \in Seq(1..MaxEntry) /\ -1 \in -1..MaxEntry
    BY <1>2
  <2>2. QED
    BY <2>1 DEF NoScan, Scan, ToSet
<1>6. ScanSound(scan) /\ ReadAccounted
  BY <1>5 DEF ReadInit, ScanSound, ReadAccounted
<1>7. CopiesInShape /\ PicksInShape
  <2>1. <<>> \in Seq(1..MaxEntry)
    OBVIOUS
  <2>2. QED
    BY <2>1 DEF ReadInit, CopiesInShape, PicksInShape, NoCache, NoCut
<1>8. QED
  BY <1>4, <1>6, <1>7 DEF ReadInv

LEMMA ReadIdle == ReadInv /\ UNCHANGED readVars => ReadInv'
BY DEF ReadInv, readVars, ShelfInShape, ScanSound, CopiesInShape, PicksInShape, ReadAccounted, Made,
       Stands, Counts, Midway, Complete, Missed, Repeats, Passed, Ahead

\* Every step keeps the account of the read.
LEMMA ReadStep == ReadInv /\ [ReadNext]_readVars => ReadInv'
<1> SUFFICES ASSUME ReadInv, [ReadNext]_readVars PROVE ReadInv'
  OBVIOUS
<1>1. CASE OpenCached
  BY <1>1, OpenCachedSound
<1>2. CASE OpenFresh
  BY <1>2, OpenFreshSound
<1>3. CASE AnswerPage
  BY <1>3, PageSound
<1>4. ASSUME NEW picks \in SUBSET Shown, RemoveTracks(picks) PROVE ReadInv'
  BY <1>4, RemoveTracksSound
<1>5. CASE CheckPositions
  BY <1>5, CheckPositionsSound
<1>6. CASE SendRemovals
  BY <1>6, SendRemovalsSound
<1>7. CASE PersonPuts
  BY <1>7, PersonPutsSound
<1>8. ASSUME NEW k \in DOMAIN shelf, PersonTakes(k) PROVE ReadInv'
  BY <1>8, PersonTakesSound
<1>9. CASE UNCHANGED readVars
  BY <1>9, ReadIdle
<1>10. QED
  BY <1>1, <1>2, <1>3, <1>4, <1>5, <1>6, <1>7, <1>8, <1>9 DEF ReadNext, AnswerPage

\* The invariant says what the run checks.
LEMMA ReadInvTrue == ReadInv => ReadsAreTrue
<1> SUFFICES ASSUME ReadInv PROVE ReadsAreTrue
  OBVIOUS
<1>1. ReadTypeOK
  <2>1. /\ reader \in Readers /\ shelf \in Seq(1..MaxEntry) /\ IsInjective(shelf)
        /\ fresh \in 1..(MaxEntry + 1) /\ erased \subseteq 1..(fresh - 1)
    BY DEF ReadInv, ShelfInShape, Made
  <2>2. erased \subseteq 1..MaxEntry
    BY <2>1, ReadAssumption
  <2>3. /\ scan.at \in Nat /\ scan.got \in Seq(1..MaxEntry) /\ scan.total \in -1..MaxEntry
        /\ ~(scan.open /\ scan.done)
    BY DEF ReadInv, ScanSound, Scan
  <2>4. view \in Seq(1..MaxEntry) /\ cache.rows \in Seq(1..MaxEntry) /\ (cache.held => reader.keeps)
    BY DEF ReadInv, CopiesInShape
  <2>5. cut.phase \in {"none", "check", "send"} /\ picked \subseteq 1..MaxEntry
    BY DEF ReadInv, PicksInShape
  <2>6. QED
    BY <2>1, <2>2, <2>3, <2>4, <2>5 DEF ReadTypeOK
<1>2. MissedOnlyByShifts
  BY DEF ReadInv, ReadAccounted, Counts, Complete, Missed, Repeats, MissedOnlyByShifts
<1>3. RemovedIsForgotten
  BY DEF ReadInv, CopiesInShape, RemovedIsForgotten
<1>4. QED
  BY <1>1, <1>2, <1>3 DEF ReadsAreTrue

(* What a read of a playlist returns, and what Browse's cache shows of it  *)
(* later, is what the provider had: whatever the pages were and whoever    *)
(* edits meanwhile, it misses no more than was removed and repeats no more *)
(* than was added while it ran, except for the readers that take a bad     *)
(* page for a good one, when they are given one.                           *)
THEOREM ReadsAreTrueHolds == ReadSpec => []ReadsAreTrue
<1>1. ReadSpec => []ReadInv
  BY ReadInitInv, ReadStep, PTL DEF ReadSpec
<1>2. QED
  BY <1>1, ReadInvTrue, PTL

\* Only what a person picked is struck, as long as the positions hold.
LEMMA StruckArePicked ==
  ReadInv /\ [ReadNext]_readVars =>
    (erased' \subseteq picked' \/ cut.drifted \/ ~(erased \subseteq picked))
<1> SUFFICES ASSUME ReadInv, [ReadNext]_readVars, ~cut.drifted, erased \subseteq picked
             PROVE  erased' \subseteq picked'
  OBVIOUS
<1>1. CASE SendRemovals
  <2>1. PICK part \in SUBSET cut.picks : erased' = erased \cup Struck(part)
    BY <1>1 DEF SendRemovals
  <2>2. /\ \A p \in part : p[2] \in picked
        /\ reader.drops = "index" => \A p \in part : Stands(p)
    BY <1>1 DEF SendRemovals, ReadInv, PicksInShape
  <2>3. Struck(part) \subseteq picked
    BY <2>2 DEF Struck, Stands
  <2>4. QED
    BY <1>1, <2>1, <2>3 DEF SendRemovals
<1>2. CASE ~SendRemovals
  <2>1. erased' = erased /\ picked \subseteq picked'
    BY <1>2 DEF ReadNext, readVars, OpenCached, OpenFresh, ReadPage, Starved, Stuck, Torn, Mute,
                Bare, Absent, BadPage, RemoveTracks, CheckPositions, PersonPuts, PersonTakes
  <2>2. QED
    BY <2>1
<1>3. QED
  BY <1>1, <1>2

(* Of the entries a person did not pick none is removed, however the       *)
(* playlist drifted since it was opened; a provider that takes positions   *)
(* is safe only from its client's last look on.                            *)
THEOREM OnlyPickedGoHolds == ReadSpec => OnlyPickedGo
<1>1. ReadSpec => []ReadInv
  BY ReadInitInv, ReadStep, PTL DEF ReadSpec
<1>2. QED
  BY <1>1, StruckArePicked, PTL DEF ReadSpec, OnlyPickedGo

(***************************************************************************)
(* Sessions.                                                               *)
(***************************************************************************)

\* Every grant is of a session that was pasted.
Within(s, l) == s.access.line <= l /\ s.refresh.line <= l
GrantsIssued ==
  /\ pastes \in 0..MaxConnects /\ chosen <= pastes
  /\ \A g \in accepted \cup alive : g.line <= pastes
  /\ Within(settings, pastes) /\ Within(file, pastes) /\ Within(process, pastes)
  /\ \A c \in Holder : Within(client[c].held, pastes) /\ client[c].since <= pastes
ChosenStored ==
  /\ settings = Empty <=> chosen = 0
  /\ kind \in {"deezer", "amazon"} /\ chosen # 0 => chosen = pastes

\* TIDAL: settings and clients keep the paste, the file says which one it renews.
TidalSound ==
  /\ chosen # 0 => settings = Held(First(chosen))
  /\ \A c \in Holder : Open(c) => client[c].held = Held(First(client[c].since))
  /\ file.access.line = file.of /\ file.refresh.line = file.of
  /\ chosen # 0 /\ ~tainted => file.of = chosen /\ file.refresh \in accepted
  /\ ~strayed /\ ~refused

\* Spotify: the file is the paste, and the process's provider is made from it.
SpotifySound ==
  /\ file = IF chosen = 0 THEN Empty ELSE Held(First(chosen))
  /\ process # Empty => chosen # 0 /\ process.access.line = chosen /\ process.refresh.line = chosen
  /\ ~strayed

\* Deezer and Amazon: a client of an earlier connection holds no grant of this one, and every
\* renewal by one of this connection is in the file.
CopiesSound ==
  /\ file # Empty => file.refresh # NoGrant
  /\ \A c \in Holder : client[c].held.refresh.line <= client[c].since
  /\ chosen # 0 /\ ~tainted =>
       /\ settings.refresh.line = chosen
       /\ file = Empty => settings.refresh \in accepted
       /\ file # Empty => file.refresh.line = chosen /\ file.refresh \in accepted
       /\ \A c \in Holder : client[c].since = chosen => client[c].held.refresh.line = chosen

SessionInv ==
  /\ SessionTypeOK /\ kind \in Kind
  /\ GrantsIssued /\ ChosenStored
  /\ kind = "tidal" => TidalSound
  /\ kind = "spotify" => SpotifySound
  /\ kind \in {"deezer", "amazon"} => CopiesSound

IssuerSound ==
  /\ accepted \subseteq Grants /\ alive \subseteq Grants
  /\ \A g \in accepted \cup alive : g.line <= pastes

LEMMA GrantFacts ==
  /\ NoGrant \notin Grants /\ NoGrant.line = 0 /\ Empty \in Session /\ MaxConnects \in Nat
  /\ \A g \in Grants : g.line \in Line /\ g.line \in Nat /\ g.line > 0
  /\ \A l \in Line, k \in 0..MaxRotations : [line |-> l, n |-> k] \in Grants
  /\ \A l \in Line : First(l) \in Grants /\ First(l).line = l
<1>1. MaxConnects \in Nat /\ MaxRotations \in Nat
  BY SessionsAssumption
<1>2. NoGrant.line = 0
  BY DEF NoGrant
<1>3. \A g \in Grants : g.line \in Line /\ g.line \in Nat /\ g.line > 0
  BY <1>1 DEF Grants, Line
<1>3a. NoGrant \notin Grants
  BY <1>2, <1>3
<1>4. \A l \in Line, k \in 0..MaxRotations : [line |-> l, n |-> k] \in Grants
  BY DEF Grants
<1>5. \A l \in Line : First(l) \in Grants /\ First(l).line = l
  BY <1>1, <1>4 DEF First
<1>6. Empty \in Session
  BY <1>1 DEF Empty, Session
<1>7. QED
  BY <1>1, <1>2, <1>3, <1>3a, <1>4, <1>5, <1>6

LEMMA SessionFacts ==
  ASSUME NEW s \in Session
  PROVE  /\ s.access \in Grants \cup {NoGrant} /\ s.refresh \in Grants \cup {NoGrant}
         /\ s.of \in 0..MaxConnects
         /\ s.access.line \in Nat /\ s.refresh.line \in Nat
         /\ s.refresh # NoGrant => s.refresh \in Grants /\ s.refresh.line > 0
         /\ s.access # NoGrant => s.access \in Grants /\ s.access.line > 0
<1>1. /\ s.access \in Grants \cup {NoGrant} /\ s.refresh \in Grants \cup {NoGrant}
      /\ s.of \in 0..MaxConnects
  BY DEF Session
<1>2. QED
  BY <1>1, GrantFacts

LEMMA HeldFacts ==
  ASSUME NEW g \in Grants
  PROVE  /\ Held(g) \in Session /\ Held(g) # Empty /\ Held(g).access = g /\ Held(g).refresh = g
         /\ Held(g).of = g.line
<1>1. g.line \in Nat /\ g.line > 0 /\ g.line \in 0..MaxConnects /\ MaxConnects \in Nat
  BY GrantFacts DEF Line
<1>2. Held(g).access = g /\ Held(g).refresh = g /\ Held(g).of = g.line /\ Empty.of = 0
  BY DEF Held, Empty
<1>3. Held(g) \in Session
  BY <1>1 DEF Held, Session
<1>4. QED
  BY <1>1, <1>2, <1>3

\* A renewal yields a refresh token the provider takes, and spends those of its line only.
LEMMA RenewedSound ==
  ASSUME IssuerSound, NEW g, NEW m \in Grants, Renewed(g, m), pastes' = pastes
  PROVE  /\ IssuerSound' /\ g \in accepted /\ g \in Grants /\ m \in accepted' /\ m.line = g.line
         /\ \A h \in accepted : h.line # g.line => h \in accepted'
<1>1. g \in accepted /\ g \in Grants /\ g.line <= pastes
  BY DEF Renewed, IssuerSound
<1>2. CASE m = g /\ alive' = alive \cup {g} /\ accepted' = accepted
  BY <1>1, <1>2 DEF IssuerSound
<1>3. CASE /\ m = [line |-> g.line, n |-> newest[g.line] + 1]
           /\ accepted' \in {accepted \cup {m}, {h \in accepted : h.line # g.line} \cup {m}}
           /\ alive' = alive \cup {m}
  <2>1. m.line = g.line
    BY <1>3
  <2>2. \A x \in accepted' : x \in accepted \/ x = m
    BY <1>3
  <2>3. \A x \in alive' : x \in alive \/ x = m
    BY <1>3
  <2>4. m \in accepted' /\ \A h \in accepted : h.line # g.line => h \in accepted'
    BY <1>3
  <2>5. IssuerSound'
    BY <1>1, <2>1, <2>2, <2>3 DEF IssuerSound
  <2>6. QED
    BY <1>1, <2>1, <2>4, <2>5
<1>4. QED
  BY <1>2, <1>3 DEF Renewed

SessionsAfter(s) ==
  {[access |-> m, refresh |-> r, of |-> s.of] : m \in Grants, r \in Grants \cup {NoGrant}}

\* A session that is used is a good one afterwards, and the issuer stays in order.
LEMMA UseSound ==
  ASSUME IssuerSound, NEW s \in Session, Within(s, pastes), NEW t \in SessionsAfter(s), Use(s, t),
         pastes' = pastes
  PROVE  /\ IssuerSound' /\ t \in Session /\ t # Empty /\ t.of = s.of /\ Within(t, pastes)
         /\ \A h \in accepted : h.line # s.refresh.line => h \in accepted'
         /\ \/ s.access \in alive /\ t = s /\ accepted' = accepted
            \/ /\ s.access \notin alive /\ t.refresh \in accepted' /\ t.refresh \in Grants
               /\ t.access.line = s.refresh.line /\ t.refresh.line = s.refresh.line
               /\ s.refresh \in accepted
<1>1. PICK m1 \in Grants, r1 \in Grants \cup {NoGrant} : t = [access |-> m1, refresh |-> r1, of |-> s.of]
  BY DEF SessionsAfter
<1>2. t \in Session /\ t.of = s.of /\ t.access \in Grants
  BY <1>1 DEF Session
<1>3. t # Empty
  <2>1. Empty.access = NoGrant
    BY DEF Empty
  <2>2. QED
    BY <1>2, <2>1, GrantFacts
<1>4. CASE s.access \in alive /\ t = s /\ UNCHANGED issuer
  BY <1>2, <1>3, <1>4 DEF issuer, IssuerSound
<1>5. CASE s.access \notin alive
  <2>1. PICK m \in Grants : Renewed(s.refresh, m) /\ t = [s EXCEPT !.access = m, !.refresh = m]
    BY <1>5 DEF Use
  <2>2. /\ IssuerSound' /\ s.refresh \in accepted /\ s.refresh \in Grants /\ m \in accepted'
        /\ m.line = s.refresh.line /\ \A h \in accepted : h.line # s.refresh.line => h \in accepted'
    BY <2>1, RenewedSound
  <2>3. t.access = m /\ t.refresh = m
    BY <2>1 DEF Session
  <2>4. Within(t, pastes)
    BY <2>2, <2>3 DEF Within
  <2>5. QED
    BY <1>2, <1>3, <1>5, <2>2, <2>3, <2>4
<1>6. QED
  BY <1>4, <1>5 DEF Use

\* What a target is built with.
LEMMA StartingSound ==
  ASSUME SessionInv, Configured
  PROVE  /\ Starting \in Session /\ Within(Starting, pastes)
         /\ kind = "tidal" =>
              /\ Starting.of = chosen /\ Starting.access.line = chosen /\ Starting.refresh.line = chosen
              /\ ~tainted => Starting.refresh \in accepted
         /\ kind \in {"deezer", "amazon"} =>
              Starting.refresh = IF file.refresh # NoGrant THEN file.refresh ELSE settings.refresh
<1>1. /\ settings # Empty /\ chosen # 0 /\ chosen <= pastes /\ chosen \in 0..MaxConnects
      /\ settings \in Session /\ file \in Session
      /\ Within(settings, pastes) /\ Within(file, pastes)
      /\ kind \in {"spotify", "tidal", "deezer", "amazon", "youtube"}
  BY SessionsAssumption DEF Configured, SessionInv, ChosenStored, SessionTypeOK, GrantsIssued
<1>2. CASE kind = "tidal"
  <2>1. settings = Held(First(chosen)) /\ TidalSound
    BY <1>1, <1>2 DEF SessionInv, TidalSound
  <2>2. /\ settings.access.line = chosen /\ settings.refresh.line = chosen /\ settings.of = chosen
    <3>1. chosen \in Line /\ First(chosen) \in Grants /\ First(chosen).line = chosen
      BY <1>1, GrantFacts DEF Line
    <3>2. QED
      BY <2>1, <3>1, HeldFacts
  <2>3. Starting = ReadBack(settings)
    BY <1>2 DEF Starting
  <2>4. QED
    BY <1>1, <1>2, <2>1, <2>2, <2>3 DEF ReadBack, TidalSound
<1>3. CASE kind \in {"deezer", "amazon"}
  <2>1. Starting = DeezerSession(settings) \/ Starting = AmazonSession(settings)
    BY <1>3 DEF Starting
  <2>2. QED
    BY <1>1, <1>3, <2>1 DEF DeezerSession, AmazonSession, Session, Within
<1>4. CASE kind \in {"spotify", "youtube"}
  BY <1>1, <1>4 DEF Starting
<1>5. QED
  BY <1>1, <1>2, <1>3, <1>4

\* What a client works with.
LEMMA WorkingSound ==
  ASSUME SessionInv, NEW c \in Holder, Open(c)
  PROVE  LET s == Working(c)
             since == client[c].since IN
         /\ s \in Session /\ Within(s, pastes) /\ since \in Nat
         /\ kind = "tidal" =>
              /\ s.of = since /\ s.access.line = since /\ s.refresh.line = since
              /\ since = chosen /\ ~tainted => s.refresh \in accepted
         /\ kind = "spotify" =>
              \/ s = Empty
              \/ chosen # 0 /\ s.access.line = chosen /\ s.refresh.line = chosen
         /\ kind \in {"deezer", "amazon"} => s = client[c].held
<1> DEFINE since == client[c].since
<1>1. /\ since # 0 /\ since <= pastes /\ since \in 0..MaxConnects /\ client[c].held \in Session
      /\ file \in Session /\ process \in Session /\ chosen \in 0..MaxConnects
      /\ Within(client[c].held, pastes) /\ Within(file, pastes) /\ Within(process, pastes)
      /\ kind \in {"spotify", "tidal", "deezer", "amazon", "youtube"}
  BY SessionsAssumption DEF Open, SessionInv, SessionTypeOK, GrantsIssued
<1>2. CASE kind = "tidal"
  <2>1. client[c].held = Held(First(since)) /\ TidalSound
    BY <1>1, <1>2 DEF SessionInv, TidalSound, Open
  <2>2. /\ client[c].held.access.line = since /\ client[c].held.refresh.line = since
        /\ client[c].held.of = since
    <3>1. since \in Line /\ First(since) \in Grants /\ First(since).line = since
      BY <1>1, GrantFacts DEF Line
    <3>2. QED
      BY <2>1, <3>1, HeldFacts
  <2>3. Working(c) = ReadBack(client[c].held)
    BY <1>2 DEF Working
  <2>4. QED
    BY <1>1, <1>2, <2>1, <2>2, <2>3 DEF ReadBack, TidalSound
<1>3. CASE kind = "spotify"
  <2>1. SpotifySound /\ Working(c) = IF process # Empty THEN process ELSE file
    BY <1>3 DEF Working, SessionInv
  <2>2. chosen # 0 => file.access.line = chosen /\ file.refresh.line = chosen
    <3>1. chosen # 0 => First(chosen) \in Grants /\ First(chosen).line = chosen
      BY <1>1, GrantFacts DEF Line
    <3>2. QED
      BY <2>1, <3>1, HeldFacts DEF SpotifySound
  <2>3. QED
    BY <1>1, <1>3, <2>1, <2>2 DEF SpotifySound
<1>4. CASE kind \in {"deezer", "amazon", "youtube"}
  <2>1. Working(c) = client[c].held
    BY <1>4 DEF Working
  <2>2. QED
    BY <1>1, <1>4, <2>1
<1>5. QED
  BY <1>1, <1>2, <1>3, <1>4

\* What the steps of a connected account leave alone.
LEMMA SessionParts ==
  ASSUME SessionInv
  PROVE  /\ IssuerSound /\ SessionTypeOK /\ GrantsIssued /\ ChosenStored
         /\ kind = "tidal" => TidalSound
         /\ kind = "spotify" => SpotifySound
         /\ kind \in {"deezer", "amazon"} => CopiesSound
  BY DEF SessionInv, SessionTypeOK, GrantsIssued, IssuerSound

\* A client's call that is answered.
LEMMA CallUseSound ==
  ASSUME SessionInv, NEW c \in Holder, Open(c), NEW t \in SessionsAfter(Working(c)), Use(Working(c), t),
         Persist(Working(c), t), Remember(t),
         client' = [client EXCEPT ![c].held = IF kind \in {"tidal", "spotify"} THEN @ ELSE t],
         strayed' = (strayed \/ (client[c].since = chosen /\ t.access.line # chosen)),
         tainted' = (tainted \/ (file' # file /\ client[c].since # chosen)),
         UNCHANGED <<refused, kind, settings, chosen, pastes>>
  PROVE  SessionInv'
<1> DEFINE since == client[c].since
<1>0. PICK s : s = Working(c)
  OBVIOUS
<1>1. /\ s \in Session /\ Within(s, pastes) /\ since \in Nat
      /\ kind = "tidal" =>
           /\ s.of = since /\ s.access.line = since /\ s.refresh.line = since
           /\ since = chosen /\ ~tainted => s.refresh \in accepted
      /\ kind = "spotify" => s = Empty \/ (chosen # 0 /\ s.access.line = chosen /\ s.refresh.line = chosen)
      /\ kind \in {"deezer", "amazon"} => s = client[c].held
  BY <1>0, WorkingSound
<1>2. /\ IssuerSound' /\ t \in Session /\ t # Empty /\ t.of = s.of /\ Within(t, pastes)
      /\ \A h \in accepted : h.line # s.refresh.line => h \in accepted'
      /\ \/ s.access \in alive /\ t = s /\ accepted' = accepted
         \/ /\ s.access \notin alive /\ t.refresh \in accepted' /\ t.refresh \in Grants
            /\ t.access.line = s.refresh.line /\ t.refresh.line = s.refresh.line
            /\ s.refresh \in accepted
  BY <1>0, <1>1, UseSound, SessionParts
<1>3. /\ file' = IF kind = "tidal" \/ (kind # "spotify" /\ s.access \notin alive) THEN t ELSE file
      /\ process' = IF kind = "spotify" THEN t ELSE process
  BY <1>0 DEF Persist, Remember
<1>4. /\ client \in [Holder -> [held : Session, since : 0..MaxConnects]]
      /\ client' \in [Holder -> [held : Session, since : 0..MaxConnects]]
      /\ \A d \in Holder : client'[d].since = client[d].since
      /\ \A d \in Holder : client'[d].held = client[d].held
                           \/ (d = c /\ kind \notin {"tidal", "spotify"} /\ client'[d].held = t)
  <2>1. client \in [Holder -> [held : Session, since : 0..MaxConnects]]
    BY SessionParts DEF SessionTypeOK
  <2>2. client' = [client EXCEPT ![c] = 
                                    [client[c] EXCEPT !.held = IF kind \in {"tidal", "spotify"}
                                                               THEN client[c].held ELSE t]]
    OBVIOUS
  <2>3. client[c] \in [held : Session, since : 0..MaxConnects]
    BY <2>1
  <2>4. CASE kind \in {"tidal", "spotify"}
    BY <2>1, <2>2, <2>3, <2>4
  <2>5. CASE kind \notin {"tidal", "spotify"}
    BY <1>2, <2>1, <2>2, <2>3, <2>5
  <2>6. QED
    BY <2>4, <2>5
<1>5. SessionTypeOK'
  BY <1>2, <1>3, <1>4, SessionParts DEF SessionTypeOK, IssuerSound
<1>6. GrantsIssued'
  <2>1. GrantsIssued /\ UNCHANGED <<settings, pastes, chosen>>
    BY SessionParts
  <2>2. Within(file', pastes) /\ Within(process', pastes)
    BY <1>2, <1>3, <2>1 DEF GrantsIssued
  <2>3. \A d \in Holder : Within(client'[d].held, pastes) /\ client'[d].since <= pastes
    BY <1>2, <1>4, <2>1 DEF GrantsIssued
  <2>4. QED
    BY <1>2, <2>1, <2>2, <2>3 DEF GrantsIssued, IssuerSound, Within
<1>7. ChosenStored'
  BY SessionParts DEF ChosenStored
<1>8. ASSUME kind = "tidal" PROVE TidalSound'
  <2>1. TidalSound /\ file' = t /\ t.of = since
    BY <1>1, <1>2, <1>3, <1>8, SessionParts
  <2>2. t.access.line = since /\ t.refresh.line = since
    BY <1>1, <1>2, <1>8
  <2>3. ~strayed' /\ ~refused'
    BY <2>1, <2>2 DEF TidalSound
  <2>4. \A d \in Holder : Open(d)' => client'[d].held = Held(First(client'[d].since))
    BY <1>4, <1>8, <2>1 DEF TidalSound, Open
  <2>5. ASSUME chosen # 0, ~tainted' PROVE file'.of = chosen /\ file'.refresh \in accepted'
    <3>1. CASE since = chosen
      BY <1>1, <1>2, <1>8, <2>1, <2>5, <3>1
    <3>2. CASE since # chosen
      BY <1>1, <1>2, <1>8, <2>1, <2>5, <3>2 DEF TidalSound
    <3>3. QED
      BY <3>1, <3>2
  <2>6. QED
    BY <2>1, <2>2, <2>3, <2>4, <2>5 DEF TidalSound
<1>9. ASSUME kind = "spotify" PROVE SpotifySound'
  <2>1. SpotifySound /\ file' = file /\ process' = t
    BY <1>3, <1>9, SessionParts
  <2>2. s # Empty
    <3>1. Empty.access.line = 0 /\ Empty.refresh.line = 0 /\ Empty.access = NoGrant /\ Empty.refresh = NoGrant
      BY GrantFacts DEF Empty
    <3>2. NoGrant \notin alive /\ NoGrant \notin accepted
      BY GrantFacts, SessionParts DEF IssuerSound
    <3>3. QED
      BY <1>2, <3>1, <3>2
  <2>3. chosen # 0 /\ t.access.line = chosen /\ t.refresh.line = chosen
    BY <1>1, <1>2, <1>9, <2>2
  <2>4. QED
    BY <2>1, <2>3 DEF SpotifySound
<1>10. ASSUME kind \in {"deezer", "amazon"} PROVE CopiesSound'
  <2>1. /\ CopiesSound /\ s = client[c].held
        /\ file' = IF s.access \notin alive THEN t ELSE file
    BY <1>1, <1>3, <1>10, SessionParts
  <2>2. t.refresh.line = s.refresh.line
    BY <1>2
  <2>3. file' # Empty => file'.refresh # NoGrant
    BY <1>2, <2>1, GrantFacts DEF CopiesSound
  <2>4. \A d \in Holder : client'[d].held.refresh.line = client[d].held.refresh.line
    BY <1>4, <2>1, <2>2
  <2>5. \A d \in Holder : client'[d].held.refresh.line <= client'[d].since
    BY <1>4, <2>1, <2>4 DEF CopiesSound
  <2>6. ASSUME chosen # 0, ~tainted'
        PROVE  /\ settings.refresh.line = chosen
               /\ file' = Empty => settings.refresh \in accepted'
               /\ file' # Empty => file'.refresh.line = chosen /\ file'.refresh \in accepted'
               /\ \A d \in Holder : client'[d].since = chosen => client'[d].held.refresh.line = chosen
    <3>1. /\ settings.refresh.line = chosen
          /\ file = Empty => settings.refresh \in accepted
          /\ file # Empty => file.refresh.line = chosen /\ file.refresh \in accepted
          /\ \A d \in Holder : client[d].since = chosen => client[d].held.refresh.line = chosen
          /\ file' = file \/ since = chosen
      BY <2>1, <2>6 DEF CopiesSound
    <3>2. \A d \in Holder : client'[d].since = chosen => client'[d].held.refresh.line = chosen
      BY <1>4, <2>4, <3>1
    <3>3. CASE since = chosen /\ s.access \notin alive
      BY <1>2, <2>1, <2>2, <3>1, <3>2, <3>3
    <3>4. CASE s.access \in alive
      BY <1>2, <2>1, <3>1, <3>2, <3>4
    <3>5. CASE since # chosen /\ s.access \notin alive
      <4>1. s.refresh.line <= since /\ since <= pastes /\ chosen = pastes
        BY <1>10, <2>1, <2>6, SessionParts DEF CopiesSound, GrantsIssued, ChosenStored
      <4>2. s.refresh.line # chosen
        BY <1>1, <3>5, <4>1, SessionFacts, SessionParts DEF GrantsIssued
      <4>3. QED
        BY <1>2, <2>1, <3>1, <3>2, <3>5, <4>2
    <3>6. QED
      BY <3>3, <3>4, <3>5
  <2>7. QED
    BY <2>3, <2>5, <2>6 DEF CopiesSound
<1>11. QED
  BY <1>5, <1>6, <1>7, <1>8, <1>9, <1>10 DEF SessionInv

\* Clients that go, one or all: the others and their claims stay.
LEMMA ClientsGo ==
  ASSUME SessionInv, \A d \in Holder : client'[d] = client[d] \/ client'[d] = Closed,
         client' = [d \in Holder |-> client'[d]]
  PROVE  /\ client' \in [Holder -> [held : Session, since : 0..MaxConnects]]
         /\ \A d \in Holder : Within(client'[d].held, pastes) /\ client'[d].since <= pastes
         /\ kind = "tidal" => \A d \in Holder : Open(d)' => client'[d].held = Held(First(client'[d].since))
         /\ kind \in {"deezer", "amazon"} =>
              \A d \in Holder : /\ client'[d].held.refresh.line <= client'[d].since
                                /\ client'[d].since # 0 => client'[d] = client[d]
<1>1. /\ Closed.since = 0 /\ Closed.held = Empty /\ Empty.access.line = 0 /\ Empty.refresh.line = 0
      /\ pastes \in Nat /\ Empty \in Session /\ MaxConnects \in Nat
  BY GrantFacts, SessionParts DEF Closed, Empty, GrantsIssued
<1>2. Closed \in [held : Session, since : 0..MaxConnects]
  BY <1>1 DEF Closed
<1>3. client \in [Holder -> [held : Session, since : 0..MaxConnects]]
  BY SessionParts DEF SessionTypeOK
<1>4. client' \in [Holder -> [held : Session, since : 0..MaxConnects]]
  <2>1. \A d \in Holder : client'[d] \in [held : Session, since : 0..MaxConnects]
    BY <1>2, <1>3
  <2>2. QED
    BY <2>1
<1>5. \A d \in Holder : Within(client'[d].held, pastes) /\ client'[d].since <= pastes
  BY <1>1, SessionParts DEF GrantsIssued, Within
<1>6. ASSUME kind = "tidal", NEW d \in Holder, Open(d)'
      PROVE  client'[d].held = Held(First(client'[d].since))
  <2>1. client'[d].since # 0 /\ client'[d] = client[d]
    BY <1>1, <1>6 DEF Open
  <2>2. QED
    BY <1>6, <2>1, SessionParts DEF TidalSound, Open
<1>7. ASSUME kind \in {"deezer", "amazon"}, NEW d \in Holder
      PROVE  /\ client'[d].held.refresh.line <= client'[d].since
             /\ client'[d].since # 0 => client'[d] = client[d]
  BY <1>1, <1>7, SessionParts DEF CopiesSound
<1>8. QED
  BY <1>4, <1>5, <1>6, <1>7

\* A step that leaves the issuer, the settings and the connection alone and loses clients at most.
LEMMA SessionRests ==
  ASSUME SessionInv, \A d \in Holder : client'[d] = client[d] \/ client'[d] = Closed,
         client' = [d \in Holder |-> client'[d]],
         UNCHANGED <<kind, settings, file, process, accepted, alive, chosen, strayed, tainted, refused, pastes>>
  PROVE  SessionInv'
<1>1. /\ client' \in [Holder -> [held : Session, since : 0..MaxConnects]]
      /\ \A d \in Holder : Within(client'[d].held, pastes) /\ client'[d].since <= pastes
      /\ kind = "tidal" => \A d \in Holder : Open(d)' => client'[d].held = Held(First(client'[d].since))
      /\ kind \in {"deezer", "amazon"} =>
           \A d \in Holder : /\ client'[d].held.refresh.line <= client'[d].since
                             /\ client'[d].since # 0 => client'[d] = client[d]
  BY ClientsGo
<1>2. SessionTypeOK'
  BY <1>1, SessionParts DEF SessionTypeOK
<1>3. GrantsIssued' /\ ChosenStored'
  BY <1>1, SessionParts DEF GrantsIssued, ChosenStored, Within
<1>4. kind' = "tidal" => TidalSound'
  BY <1>1, SessionParts DEF TidalSound
<1>5. kind' = "spotify" => SpotifySound'
  BY SessionParts DEF SpotifySound
<1>6. kind' \in {"deezer", "amazon"} => CopiesSound'
  <2> SUFFICES ASSUME kind \in {"deezer", "amazon"} PROVE CopiesSound'
    OBVIOUS
  <2>1. CopiesSound
    BY SessionParts
  <2>2. ASSUME chosen # 0, ~tainted, NEW d \in Holder, client'[d].since = chosen
        PROVE  client'[d].held.refresh.line = chosen
    BY <1>1, <2>1, <2>2 DEF CopiesSound
  <2>3. QED
    BY <1>1, <2>1, <2>2 DEF CopiesSound
<1>7. QED
  BY <1>2, <1>3, <1>4, <1>5, <1>6 DEF SessionInv

LEMMA CloseSound ==
  ASSUME SessionInv, NEW c \in Holder, Close(c)
  PROVE  SessionInv'
<1>1. client' = [client EXCEPT ![c] = Closed]
      /\ UNCHANGED <<kind, settings, file, process, accepted, alive, chosen, strayed, tainted, refused, pastes>>
  BY DEF Close, issuer, history
<1>2. client = [d \in Holder |-> client[d]]
  BY SessionParts DEF SessionTypeOK
<1>3. (\A d \in Holder : client'[d] = client[d] \/ client'[d] = Closed)
      /\ client' = [d \in Holder |-> client'[d]]
  BY <1>1, <1>2
<1>4. QED
  BY <1>1, <1>3, SessionRests

\* A renewal of TIDAL's is refused to none that reads the connection's file.
LEMMA RefuseSound ==
  ASSUME SessionInv, NEW s, Refuse(s), kind = "tidal", tainted \/ s.refresh \in accepted \/ s.refresh.line # chosen
  PROVE  ~refused'
  BY SessionParts DEF Refuse, Refusal, TidalSound

\* A call that is refused: a TIDAL client has seeded the file all the same.
LEMMA CallRefusedSound ==
  ASSUME SessionInv, NEW c \in Holder, Open(c), Refuse(Working(c)),
         file' = IF kind = "tidal" THEN Working(c) ELSE file,
         tainted' = (tainted \/ (file' # file /\ client[c].since # chosen)),
         client' = [client EXCEPT ![c] = Closed],
         UNCHANGED <<strayed, process, kind, settings, chosen, pastes>>
  PROVE  SessionInv'
<1>0. PICK s : s = Working(c)
  OBVIOUS
<1> DEFINE since == client[c].since
<1>1. UNCHANGED <<accepted, alive>>
  BY DEF Refuse, issuer
<1>2. /\ s \in Session /\ Within(s, pastes) /\ since \in Nat
      /\ kind = "tidal" =>
           /\ s.of = since /\ s.access.line = since /\ s.refresh.line = since
           /\ since = chosen /\ ~tainted => s.refresh \in accepted
  BY <1>0, WorkingSound
<1>3. client = [d \in Holder |-> client[d]]
  BY SessionParts DEF SessionTypeOK
<1>4. (\A d \in Holder : client'[d] = client[d] \/ client'[d] = Closed)
      /\ client' = [d \in Holder |-> client'[d]]
  BY <1>3
<1>5. CASE kind # "tidal"
  <2>1. file' = file /\ (tainted' <=> tainted)
    BY <1>5, SessionParts DEF GrantsIssued
  <2>2. /\ client' \in [Holder -> [held : Session, since : 0..MaxConnects]]
        /\ \A d \in Holder : Within(client'[d].held, pastes) /\ client'[d].since <= pastes
        /\ kind \in {"deezer", "amazon"} =>
             \A d \in Holder : /\ client'[d].held.refresh.line <= client'[d].since
                               /\ client'[d].since # 0 => client'[d] = client[d]
    BY <1>4, ClientsGo
  <2>3. SessionTypeOK' /\ GrantsIssued' /\ ChosenStored'
    BY <1>1, <2>1, <2>2, SessionParts DEF SessionTypeOK, GrantsIssued, ChosenStored, Within
  <2>4. kind' = "spotify" => SpotifySound'
    BY <2>1, SessionParts DEF SpotifySound
  <2>5. kind' \in {"deezer", "amazon"} => CopiesSound'
    <3> SUFFICES ASSUME kind \in {"deezer", "amazon"} PROVE CopiesSound'
      OBVIOUS
    <3>1. CopiesSound
      BY SessionParts
    <3>2. ASSUME chosen # 0, ~tainted, NEW d \in Holder, client'[d].since = chosen
          PROVE  client'[d].held.refresh.line = chosen
      BY <2>2, <3>1, <3>2 DEF CopiesSound
    <3>3. QED
      BY <1>1, <2>1, <2>2, <3>1, <3>2 DEF CopiesSound
  <2>6. QED
    BY <1>5, <2>3, <2>4, <2>5 DEF SessionInv
<1>6. CASE kind = "tidal"
  <2>1. file' = s /\ TidalSound
    BY <1>0, <1>6, SessionParts
  <2>2. /\ client' \in [Holder -> [held : Session, since : 0..MaxConnects]]
        /\ \A d \in Holder : Within(client'[d].held, pastes) /\ client'[d].since <= pastes
        /\ \A d \in Holder : Open(d)' => client'[d].held = Held(First(client'[d].since))
    BY <1>4, <1>6, ClientsGo
  <2>3. SessionTypeOK' /\ GrantsIssued' /\ ChosenStored'
    BY <1>1, <1>2, <2>1, <2>2, SessionParts DEF SessionTypeOK, GrantsIssued, ChosenStored, Within
  <2>4. ~refused'
    BY <1>0, <1>2, <1>6, RefuseSound
  <2>5. ASSUME chosen # 0, ~tainted' PROVE file'.of = chosen /\ file'.refresh \in accepted'
    <3>1. CASE since = chosen
      BY <1>1, <1>2, <1>6, <2>1, <2>5, <3>1
    <3>2. CASE since # chosen
      BY <1>1, <1>2, <1>6, <2>1, <2>5, <3>2 DEF TidalSound
    <3>3. QED
      BY <3>1, <3>2
  <2>6. TidalSound'
    BY <1>2, <1>6, <2>1, <2>2, <2>4, <2>5 DEF TidalSound
  <2>7. QED
    BY <1>6, <2>3, <2>6 DEF SessionInv
<1>7. QED
  BY <1>5, <1>6

LEMMA CallSound ==
  ASSUME SessionInv, NEW c \in Holder, Call(c)
  PROVE  SessionInv'
<1>1. Open(c) /\ UNCHANGED <<kind, settings, chosen, pastes>>
  BY DEF Call
<1>2. CASE /\ Refuse(Working(c))
           /\ file' = IF kind = "tidal" THEN Working(c) ELSE file
           /\ tainted' = (tainted \/ (file' # file /\ client[c].since # chosen))
           /\ client' = [client EXCEPT ![c] = Closed]
           /\ UNCHANGED <<strayed, process>>
  BY <1>1, <1>2, CallRefusedSound
<1>3. CASE /\ \E t \in SessionsAfter(Working(c)) :
                /\ Use(Working(c), t)
                /\ Persist(Working(c), t) /\ Remember(t)
                /\ client' = [client EXCEPT ![c].held =
                                IF kind \in {"tidal", "spotify"} THEN @ ELSE t]
                /\ strayed' = (strayed \/ (client[c].since = chosen /\ t.access.line # chosen))
           /\ tainted' = (tainted \/ (file' # file /\ client[c].since # chosen))
           /\ UNCHANGED refused
  <2>1. PICK t \in SessionsAfter(Working(c)) :
           /\ Use(Working(c), t)
           /\ Persist(Working(c), t) /\ Remember(t)
           /\ client' = [client EXCEPT ![c].held =
                           IF kind \in {"tidal", "spotify"} THEN @ ELSE t]
           /\ strayed' = (strayed \/ (client[c].since = chosen /\ t.access.line # chosen))
    BY <1>3
  <2>2. QED
    BY <1>1, <1>3, <2>1, CallUseSound
<1>4. QED
  BY <1>2, <1>3 DEF Call, SessionsAfter

\* The process dies within a renewal.
LEMMA SessionCrashSound ==
  ASSUME SessionInv, NEW c \in Holder, Crash(c)
  PROVE  SessionInv'
<1>1. /\ Open(c) /\ client' = [d \in Holder |-> Closed] /\ process' = Empty /\ tainted'
      /\ file' \in {file, Empty} /\ (kind = "spotify" => file' = file)
      /\ UNCHANGED <<kind, settings, chosen, strayed, refused, pastes>>
  BY DEF Crash
<1>2. PICK m \in Grants : Renewed(Working(c).refresh, m)
  BY DEF Crash
<1>3. IssuerSound'
  BY <1>1, <1>2, RenewedSound, SessionParts
<1>4. /\ client' \in [Holder -> [held : Session, since : 0..MaxConnects]]
      /\ \A d \in Holder : Within(client'[d].held, pastes) /\ client'[d].since <= pastes
      /\ kind = "tidal" => \A d \in Holder : Open(d)' => client'[d].held = Held(First(client'[d].since))
      /\ kind \in {"deezer", "amazon"} =>
           \A d \in Holder : client'[d].held.refresh.line <= client'[d].since
  BY <1>1, ClientsGo
<1>5. /\ Empty \in Session /\ Empty.access.line = 0 /\ Empty.refresh.line = 0 /\ Empty.of = 0
      /\ pastes \in Nat
  BY GrantFacts, SessionParts DEF Empty, GrantsIssued
<1>6. SessionTypeOK' /\ GrantsIssued' /\ ChosenStored'
  BY <1>1, <1>3, <1>4, <1>5, SessionParts DEF SessionTypeOK, GrantsIssued, ChosenStored, Within, IssuerSound
<1>7. kind' = "tidal" => TidalSound'
  BY <1>1, <1>4, <1>5, SessionParts DEF TidalSound
<1>8. kind' = "spotify" => SpotifySound'
  BY <1>1, SessionParts DEF SpotifySound
<1>9. kind' \in {"deezer", "amazon"} => CopiesSound'
  BY <1>1, <1>4, SessionParts DEF CopiesSound
<1>10. QED
  BY <1>1, <1>6, <1>7, <1>8, <1>9 DEF SessionInv

\* A target is built or a status asked for: the renewal, if any, is in the file.
LEMMA StartUse ==
  ASSUME SessionInv, Configured, NEW t \in SessionsAfter(Starting), Use(Starting, t), Persist(Starting, t),
         pastes' = pastes
  PROVE  /\ IssuerSound' /\ t \in Session /\ t # Empty /\ Within(t, pastes) /\ chosen # 0
         /\ file' \in Session /\ Within(file', pastes)
         /\ kind = "tidal" =>
              /\ file' = t /\ t.of = chosen /\ t.access.line = chosen /\ t.refresh.line = chosen
              /\ ~tainted => t.refresh \in accepted'
         /\ kind = "spotify" => file' = file
         /\ kind \in {"deezer", "amazon"} =>
              /\ t.refresh.line <= chosen
              /\ file' # Empty => file'.refresh # NoGrant
              /\ ~tainted =>
                   /\ settings.refresh.line = chosen /\ t.refresh.line = chosen
                   /\ file' = Empty => settings.refresh \in accepted' /\ t.refresh \in accepted'
                   /\ file' # Empty => file'.refresh.line = chosen /\ file'.refresh \in accepted'
<1>0. PICK s : s = Starting
  OBVIOUS
<1>1. /\ s \in Session /\ Within(s, pastes)
      /\ kind = "tidal" =>
           /\ s.of = chosen /\ s.access.line = chosen /\ s.refresh.line = chosen
           /\ ~tainted => s.refresh \in accepted
      /\ kind \in {"deezer", "amazon"} =>
           s.refresh = IF file.refresh # NoGrant THEN file.refresh ELSE settings.refresh
  BY <1>0, StartingSound
<1>2. /\ IssuerSound' /\ t \in Session /\ t # Empty /\ t.of = s.of /\ Within(t, pastes)
      /\ \A h \in accepted : h.line # s.refresh.line => h \in accepted'
      /\ \/ s.access \in alive /\ t = s /\ accepted' = accepted
         \/ /\ s.access \notin alive /\ t.refresh \in accepted' /\ t.refresh \in Grants
            /\ t.access.line = s.refresh.line /\ t.refresh.line = s.refresh.line
            /\ s.refresh \in accepted
  BY <1>0, <1>1, UseSound, SessionParts
<1>3. file' = IF kind = "tidal" \/ (kind # "spotify" /\ s.access \notin alive) THEN t ELSE file
  BY <1>0 DEF Persist
<1>4. chosen # 0 /\ file \in Session /\ Within(file, pastes)
  BY SessionParts DEF Configured, ChosenStored, SessionTypeOK, GrantsIssued
<1>5. ASSUME kind \in {"deezer", "amazon"}
      PROVE  /\ t.refresh.line <= chosen
             /\ file' # Empty => file'.refresh # NoGrant
             /\ ~tainted =>
                  /\ settings.refresh.line = chosen /\ t.refresh.line = chosen
                  /\ file' = Empty => settings.refresh \in accepted' /\ t.refresh \in accepted'
                  /\ file' # Empty => file'.refresh.line = chosen /\ file'.refresh \in accepted'
  <2>1. CopiesSound /\ chosen = pastes
    BY <1>4, <1>5, SessionParts DEF ChosenStored
  <2>2. file # Empty => file.refresh # NoGrant
    BY <2>1 DEF CopiesSound
  <2>3. file = Empty => file.refresh = NoGrant
    BY DEF Empty
  <2>4. s.refresh = IF file # Empty THEN file.refresh ELSE settings.refresh
    BY <1>1, <1>5, <2>2, <2>3
  <2>5. t.refresh.line <= chosen /\ (file' # Empty => file'.refresh # NoGrant)
    <3>1. t.refresh.line <= chosen
      BY <1>2, <2>1 DEF Within
    <3>2. file' = file \/ (file' = t /\ t.refresh \in Grants)
      BY <1>2, <1>3, <1>5
    <3>3. QED
      BY <2>2, <3>1, <3>2, GrantFacts
  <2>6. ASSUME ~tainted
        PROVE  /\ settings.refresh.line = chosen /\ t.refresh.line = chosen
               /\ file' = Empty => settings.refresh \in accepted' /\ t.refresh \in accepted'
               /\ file' # Empty => file'.refresh.line = chosen /\ file'.refresh \in accepted'
    <3>1. /\ settings.refresh.line = chosen
          /\ file = Empty => settings.refresh \in accepted
          /\ file # Empty => file.refresh.line = chosen /\ file.refresh \in accepted
      BY <1>4, <2>1, <2>6 DEF CopiesSound
    <3>2. s.refresh.line = chosen /\ s.refresh \in accepted
      BY <2>4, <3>1
    <3>3. CASE s.access \in alive
      BY <1>2, <1>3, <1>5, <2>4, <3>1, <3>2, <3>3
    <3>4. CASE s.access \notin alive
      BY <1>2, <1>3, <1>5, <3>1, <3>2, <3>4
    <3>5. QED
      BY <3>3, <3>4
  <2>7. QED
    BY <2>5, <2>6
<1>6. QED
  BY <1>1, <1>2, <1>3, <1>4, <1>5

\* A renewal refused to a target being built.
LEMMA StartRefused ==
  ASSUME SessionInv, Configured, Refuse(Starting),
         file' = IF kind = "tidal" THEN Starting ELSE file,
         UNCHANGED <<kind, settings, process, client, chosen, strayed, tainted, pastes>>
  PROVE  SessionInv'
<1>0. PICK s : s = Starting
  OBVIOUS
<1>1. UNCHANGED <<accepted, alive>> /\ chosen # 0
  BY SessionParts DEF Refuse, issuer, Configured, ChosenStored
<1>2. /\ s \in Session /\ Within(s, pastes)
      /\ kind = "tidal" =>
           /\ s.of = chosen /\ s.access.line = chosen /\ s.refresh.line = chosen
           /\ ~tainted => s.refresh \in accepted
  BY <1>0, StartingSound
<1>3. SessionTypeOK' /\ GrantsIssued' /\ ChosenStored'
  BY <1>0, <1>1, <1>2, SessionParts DEF SessionTypeOK, GrantsIssued, ChosenStored, Within
<1>4. ASSUME kind = "tidal" PROVE TidalSound'
  <2>1. file' = s /\ TidalSound /\ ~refused'
    BY <1>0, <1>2, <1>4, RefuseSound, SessionParts
  <2>2. QED
    BY <1>1, <1>2, <1>4, <2>1 DEF TidalSound, Open
<1>5. ASSUME kind = "spotify" PROVE SpotifySound'
  BY <1>5, SessionParts DEF SpotifySound
<1>6. ASSUME kind \in {"deezer", "amazon"} PROVE CopiesSound'
  BY <1>1, <1>6, SessionParts DEF CopiesSound
<1>7. QED
  BY <1>3, <1>4, <1>5, <1>6 DEF SessionInv

\* A target is built.
LEMMA Builds ==
  ASSUME SessionInv, NEW c \in Holder, ~Open(c), NEW t \in Session, Within(t, pastes), chosen # 0,
         client' = [client EXCEPT ![c] = Built(t)]
  PROVE  /\ client' \in [Holder -> [held : Session, since : 0..MaxConnects]]
         /\ \A d \in Holder : Within(client'[d].held, pastes) /\ client'[d].since <= pastes
         /\ client'[c].since = chosen /\ \A d \in Holder : d # c => client'[d] = client[d]
         /\ kind = "tidal" => \A d \in Holder : client'[d].since # 0 => client'[d].held = Held(First(client'[d].since))
         /\ kind \in {"deezer", "amazon"} => client'[c].held = t
<1>1. /\ client \in [Holder -> [held : Session, since : 0..MaxConnects]] /\ chosen \in 0..MaxConnects
      /\ settings \in Session /\ Within(settings, pastes) /\ chosen <= pastes
      /\ Empty \in Session /\ Within(Empty, pastes)
      /\ \A d \in Holder : Within(client[d].held, pastes) /\ client[d].since <= pastes
  <2>1. Empty \in Session /\ Empty.access.line = 0 /\ Empty.refresh.line = 0 /\ pastes \in Nat
    BY GrantFacts, SessionParts DEF Empty, GrantsIssued
  <2>2. QED
    BY <2>1, SessionParts DEF SessionTypeOK, GrantsIssued, Within
<1>2. Built(t).since = chosen /\ Built(t) \in [held : Session, since : 0..MaxConnects]
      /\ Within(Built(t).held, pastes)
      /\ (kind = "tidal" => Built(t).held = settings)
      /\ (kind \in {"deezer", "amazon"} => Built(t).held = t)
  BY <1>1 DEF Built
<1>3. client'[c] = Built(t) /\ \A d \in Holder : d # c => client'[d] = client[d]
  BY <1>1
<1>4. client' \in [Holder -> [held : Session, since : 0..MaxConnects]]
  BY <1>1, <1>2
<1>5. \A d \in Holder : Within(client'[d].held, pastes) /\ client'[d].since <= pastes
  BY <1>1, <1>2, <1>3
<1>6. ASSUME kind = "tidal", NEW d \in Holder, client'[d].since # 0
      PROVE  client'[d].held = Held(First(client'[d].since))
  BY <1>2, <1>3, <1>6, SessionParts DEF TidalSound, Open
<1>7. QED
  BY <1>2, <1>3, <1>4, <1>5, <1>6

LEMMA BuildSound ==
  ASSUME SessionInv, NEW c \in Holder, Build(c)
  PROVE  SessionInv'
<1>1. /\ ~Open(c) /\ Configured
      /\ UNCHANGED <<kind, settings, process, chosen, strayed, tainted, pastes>>
  BY DEF Build
<1>2. CASE /\ kind \in {"tidal", "deezer"}
           /\ \E t \in SessionsAfter(Starting) :
                 Use(Starting, t) /\ Persist(Starting, t) /\ client' = [client EXCEPT ![c] = Built(t)]
           /\ UNCHANGED refused
  <2>1. PICK t \in SessionsAfter(Starting) :
           Use(Starting, t) /\ Persist(Starting, t) /\ client' = [client EXCEPT ![c] = Built(t)]
    BY <1>2
  <2>2. /\ IssuerSound' /\ t \in Session /\ t # Empty /\ Within(t, pastes) /\ chosen # 0
        /\ file' \in Session /\ Within(file', pastes)
        /\ kind = "tidal" =>
             /\ file' = t /\ t.of = chosen /\ t.access.line = chosen /\ t.refresh.line = chosen
             /\ ~tainted => t.refresh \in accepted'
        /\ kind \in {"deezer", "amazon"} =>
             /\ t.refresh.line <= chosen
             /\ file' # Empty => file'.refresh # NoGrant
             /\ ~tainted =>
                  /\ settings.refresh.line = chosen /\ t.refresh.line = chosen
                  /\ file' = Empty => settings.refresh \in accepted' /\ t.refresh \in accepted'
                  /\ file' # Empty => file'.refresh.line = chosen /\ file'.refresh \in accepted'
    BY <1>1, <2>1, StartUse
  <2>3. /\ client' \in [Holder -> [held : Session, since : 0..MaxConnects]]
        /\ \A d \in Holder : Within(client'[d].held, pastes) /\ client'[d].since <= pastes
        /\ client'[c].since = chosen /\ \A d \in Holder : d # c => client'[d] = client[d]
        /\ kind = "tidal" => \A d \in Holder : client'[d].since # 0 => client'[d].held = Held(First(client'[d].since))
        /\ kind \in {"deezer", "amazon"} => client'[c].held = t
    BY <1>1, <2>1, <2>2, Builds
  <2>4. SessionTypeOK' /\ GrantsIssued' /\ ChosenStored'
    BY <1>1, <2>2, <2>3, SessionParts DEF SessionTypeOK, GrantsIssued, ChosenStored, Within, IssuerSound
  <2>5. ASSUME kind = "tidal" PROVE TidalSound'
    BY <1>1, <1>2, <2>2, <2>3, <2>5, SessionParts DEF TidalSound, Open
  <2>6. ASSUME kind \in {"deezer", "amazon"} PROVE CopiesSound'
    BY <1>1, <2>2, <2>3, <2>6, SessionParts DEF CopiesSound
  <2>7. QED
    BY <1>1, <1>2, <2>4, <2>5, <2>6 DEF SessionInv
<1>3. CASE /\ Refuse(Starting)
           /\ file' = IF kind = "tidal" THEN Starting ELSE file
           /\ UNCHANGED client
  BY <1>1, <1>3, StartRefused
<1>4. CASE /\ kind \notin {"tidal", "deezer"}
           /\ client' = [client EXCEPT ![c] = Built(Starting)]
           /\ UNCHANGED <<issuer, file, refused>>
  <2>1. PICK s : s = Starting
    OBVIOUS
  <2>2. /\ s \in Session /\ Within(s, pastes) /\ chosen # 0
        /\ kind = "amazon" => s.refresh = IF file.refresh # NoGrant THEN file.refresh ELSE settings.refresh
    BY <1>1, <2>1, StartingSound, SessionParts DEF Configured, ChosenStored
  <2>3. /\ client' \in [Holder -> [held : Session, since : 0..MaxConnects]]
        /\ \A d \in Holder : Within(client'[d].held, pastes) /\ client'[d].since <= pastes
        /\ client'[c].since = chosen /\ \A d \in Holder : d # c => client'[d] = client[d]
        /\ kind \in {"deezer", "amazon"} => client'[c].held = s
    BY <1>1, <1>4, <2>1, <2>2, Builds
  <2>4. UNCHANGED <<accepted, alive, file, refused>>
    BY <1>4 DEF issuer
  <2>5. SessionTypeOK' /\ GrantsIssued' /\ ChosenStored'
    BY <1>1, <2>3, <2>4, SessionParts DEF SessionTypeOK, GrantsIssued, ChosenStored, Within
  <2>6. ASSUME kind = "spotify" PROVE SpotifySound'
    BY <1>1, <2>4, <2>6, SessionParts DEF SpotifySound
  <2>7. ASSUME kind = "amazon" PROVE CopiesSound'
    <3>1. CopiesSound /\ chosen = pastes /\ s.refresh.line <= chosen
      BY <2>2, <2>7, SessionParts DEF ChosenStored, Within
    <3>2. file = Empty => file.refresh = NoGrant
      BY DEF Empty
    <3>3. ~tainted => s.refresh.line = chosen
      BY <2>2, <2>7, <3>1, <3>2 DEF CopiesSound
    <3>4. QED
      BY <1>1, <2>2, <2>3, <2>4, <2>7, <3>1, <3>3 DEF CopiesSound
  <2>8. QED
    BY <1>1, <1>4, <2>5, <2>6, <2>7, SessionParts DEF SessionInv
<1>5. QED
  BY <1>2, <1>3, <1>4 DEF Build, SessionsAfter

LEMMA StatusSound == SessionInv /\ Status => SessionInv'
<1> SUFFICES ASSUME SessionInv, Status PROVE SessionInv'
  OBVIOUS
<1>1. /\ kind \in {"tidal", "deezer", "amazon"} /\ Configured
      /\ UNCHANGED <<kind, process, client, chosen, strayed, tainted, pastes>>
  BY DEF Status, Configured
<1>2. CASE /\ \E t \in SessionsAfter(Starting) :
                 /\ Use(Starting, t) /\ Persist(Starting, t)
                 /\ settings' = IF kind = "tidal" THEN settings ELSE t
           /\ UNCHANGED refused
  <2>1. PICK t \in SessionsAfter(Starting) :
           /\ Use(Starting, t) /\ Persist(Starting, t)
           /\ settings' = IF kind = "tidal" THEN settings ELSE t
    BY <1>2
  <2>2. /\ IssuerSound' /\ t \in Session /\ t # Empty /\ Within(t, pastes) /\ chosen # 0
        /\ file' \in Session /\ Within(file', pastes)
        /\ kind = "tidal" =>
             /\ file' = t /\ t.of = chosen /\ t.access.line = chosen /\ t.refresh.line = chosen
             /\ ~tainted => t.refresh \in accepted'
        /\ kind \in {"deezer", "amazon"} =>
             /\ t.refresh.line <= chosen
             /\ file' # Empty => file'.refresh # NoGrant
             /\ ~tainted =>
                  /\ settings.refresh.line = chosen /\ t.refresh.line = chosen
                  /\ file' = Empty => settings.refresh \in accepted' /\ t.refresh \in accepted'
                  /\ file' # Empty => file'.refresh.line = chosen /\ file'.refresh \in accepted'
    BY <1>1, <2>1, StartUse
  <2>3. settings' \in Session /\ Within(settings', pastes) /\ settings' # Empty
    BY <1>1, <2>1, <2>2, SessionParts DEF SessionTypeOK, GrantsIssued, ChosenStored
  <2>4. SessionTypeOK' /\ GrantsIssued' /\ ChosenStored'
    BY <1>1, <2>2, <2>3, SessionParts DEF SessionTypeOK, GrantsIssued, ChosenStored, Within, IssuerSound
  <2>5. ASSUME kind = "tidal" PROVE TidalSound'
    BY <1>1, <1>2, <2>1, <2>2, <2>5, SessionParts DEF TidalSound, Open
  <2>6. ASSUME kind \in {"deezer", "amazon"} PROVE CopiesSound'
    BY <1>1, <2>1, <2>2, <2>6, SessionParts DEF CopiesSound
  <2>7. QED
    BY <1>1, <2>4, <2>5, <2>6 DEF SessionInv
<1>3. CASE /\ Refuse(Starting)
           /\ file' = IF kind = "tidal" THEN Starting ELSE file
           /\ UNCHANGED settings
  BY <1>1, <1>3, StartRefused
<1>4. QED
  BY <1>2, <1>3 DEF Status, SessionsAfter

LEMMA ExpireSound == SessionInv /\ Expire => SessionInv'
<1> SUFFICES ASSUME SessionInv, Expire PROVE SessionInv'
  OBVIOUS
<1>1. alive' = {} /\ UNCHANGED <<kind, settings, file, process, client, newest, accepted, chosen,
                                 strayed, tainted, refused, pastes>>
  BY DEF Expire, history
<1>2. SessionTypeOK' /\ GrantsIssued' /\ ChosenStored'
  BY <1>1, SessionParts DEF SessionTypeOK, GrantsIssued, ChosenStored, Within
<1>3. (kind = "tidal" => TidalSound') /\ (kind = "spotify" => SpotifySound')
      /\ (kind \in {"deezer", "amazon"} => CopiesSound')
  BY <1>1, SessionParts DEF TidalSound, SpotifySound, CopiesSound, Open
<1>4. QED
  BY <1>1, <1>2, <1>3 DEF SessionInv

\* A paste: a line nobody holds a grant of yet.
LEMMA PasteFacts ==
  ASSUME SessionInv, Paste
  PROVE  /\ NewLine \in Line /\ pastes' = NewLine /\ pastes \in Nat /\ pastes <= NewLine /\ NewLine # 0
         /\ First(NewLine) \in Grants /\ First(NewLine).line = NewLine
         /\ Held(First(NewLine)) \in Session /\ Within(Held(First(NewLine)), NewLine)
         /\ Held(First(NewLine)) # Empty
         /\ \A s \in Session : Within(s, pastes) => Within(s, NewLine)
         /\ \A g \in accepted \cup alive : g.line <= NewLine
         /\ \A d \in Holder : /\ Within(client[d].held, NewLine) /\ client[d].since <= NewLine
                              /\ client[d].since # NewLine
         /\ \A k \in 0..MaxRotations :
              LET spent == [line |-> NewLine, n |-> k] IN
              /\ spent \in Grants /\ Held(spent) \in Session /\ Within(Held(spent), NewLine)
              /\ Held(spent) # Empty
              /\ [Held(spent) EXCEPT !.of = NewLine] = Held(spent)
<1>1. /\ pastes \in Nat /\ MaxConnects \in Nat /\ pastes < MaxConnects /\ pastes' = pastes + 1
      /\ NewLine = pastes + 1 /\ pastes' = NewLine
      /\ SessionTypeOK /\ GrantsIssued
  BY SessionsAssumption, SessionParts DEF Paste, NewLine, GrantsIssued
<1>2. NewLine \in Line /\ NewLine \in Nat /\ pastes <= NewLine /\ NewLine # 0 /\ NewLine # pastes
  BY <1>1 DEF Line
<1> HIDE DEF NewLine
<1>3. First(NewLine) \in Grants /\ First(NewLine).line = NewLine
  BY <1>2, GrantFacts
<1>4. ASSUME NEW g \in Grants, g.line = NewLine
      PROVE  Held(g) \in Session /\ Within(Held(g), NewLine) /\ Held(g) # Empty
  BY <1>2, <1>4, HeldFacts DEF Within
<1>5. ASSUME NEW s \in Session, Within(s, pastes) PROVE Within(s, NewLine)
  BY <1>1, <1>2, <1>5, SessionFacts DEF Within
<1>6. \A g \in accepted \cup alive : g.line <= NewLine
  <2>1. \A g \in accepted \cup alive : g \in Grants /\ g.line <= pastes
    BY <1>1 DEF SessionTypeOK, GrantsIssued
  <2>2. QED
    BY <1>1, <1>2, <2>1, GrantFacts
<1>7. \A d \in Holder : Within(client[d].held, NewLine) /\ client[d].since <= NewLine
                        /\ client[d].since # NewLine
  <2>1. \A d \in Holder : client[d].held \in Session /\ client[d].since \in 0..MaxConnects
                          /\ Within(client[d].held, pastes) /\ client[d].since <= pastes
    BY <1>1 DEF SessionTypeOK, GrantsIssued
  <2>2. \A n \in 0..MaxConnects : n <= pastes => n <= pastes + 1 /\ n # pastes + 1
    BY <1>1
  <2>3. NewLine = pastes + 1
    BY <1>1
  <2>4. QED
    BY <1>5, <2>1, <2>2, <2>3
<1>8. ASSUME NEW k \in 0..MaxRotations
      PROVE  LET spent == [line |-> NewLine, n |-> k] IN
             /\ spent \in Grants /\ Held(spent) \in Session /\ Within(Held(spent), NewLine)
             /\ Held(spent) # Empty
             /\ [Held(spent) EXCEPT !.of = NewLine] = Held(spent)
  <2> DEFINE spent == [line |-> NewLine, n |-> k]
  <2>1. spent \in Grants /\ spent.line = NewLine
    BY <1>2, GrantFacts
  <2>2. [Held(spent) EXCEPT !.of = NewLine] = Held(spent)
    BY <2>1 DEF Held
  <2>3. QED
    BY <1>4, <2>1, <2>2
<1>9. QED
  BY <1>1, <1>2, <1>3, <1>4, <1>5, <1>6, <1>7, <1>8

\* What the page has issued is good.
LEMMA IssueSound ==
  ASSUME SessionInv, Paste, NEW k \in 0..MaxRotations, Issue([line |-> NewLine, n |-> k])
  PROVE  /\ accepted' \subseteq Grants /\ alive' \subseteq Grants
         /\ \A g \in accepted' \cup alive' : g.line <= NewLine
         /\ accepted \subseteq accepted' /\ First(NewLine) \in accepted'
         /\ [line |-> NewLine, n |-> k] \in accepted'
<1>1. /\ First(NewLine) \in Grants /\ First(NewLine).line = NewLine /\ NewLine \in Nat
      /\ [line |-> NewLine, n |-> k] \in Grants
      /\ \A g \in accepted \cup alive : g.line <= NewLine
  <2>1. /\ First(NewLine) \in Grants /\ First(NewLine).line = NewLine /\ NewLine \in Line
        /\ \A g \in accepted \cup alive : g.line <= NewLine
    BY PasteFacts
  <2>2. NewLine \in Nat
    BY <2>1, SessionsAssumption DEF Line
  <2>3. [line |-> NewLine, n |-> k] \in Grants
    <3> HIDE DEF NewLine
    <3>1. NewLine \in Line
      BY <2>1
    <3>2. QED
      BY <3>1 DEF Grants
  <2>4. QED
    BY <2>1, <2>2, <2>3
<1>2. accepted \subseteq Grants /\ alive \subseteq Grants
  BY SessionParts DEF SessionTypeOK
<1> DEFINE spent == [line |-> NewLine, n |-> k]
<1>3. spent \in Grants /\ spent.line = NewLine
  BY <1>1
<1>4. accepted' = accepted \cup {First(NewLine), spent} /\ alive' = alive \cup {First(NewLine), spent}
  BY DEF Issue
<1> HIDE DEF spent, NewLine
<1>5. QED
  BY <1>1, <1>2, <1>3, <1>4 DEF spent

\* A connection that succeeds, whatever the settings and the file are left with.
LEMMA ConnectedSound ==
  ASSUME SessionInv, Paste, NEW k \in 0..MaxRotations, Issue([line |-> NewLine, n |-> k]),
         settings' \in Session, settings' # Empty, Within(settings', NewLine),
         file' \in Session, Within(file', NewLine),
         process' \in {process, Empty},
         UNCHANGED <<kind, client>>, chosen' = NewLine
  PROVE  SessionTypeOK' /\ GrantsIssued' /\ ChosenStored'
<1>1. /\ accepted' \subseteq Grants /\ alive' \subseteq Grants
      /\ \A g \in accepted' \cup alive' : g.line <= NewLine
  BY IssueSound
<1>2. /\ NewLine \in Line /\ pastes' = NewLine /\ NewLine # 0 /\ NewLine \in 0..MaxConnects /\ NewLine <= NewLine
      /\ \A s \in Session : Within(s, pastes) => Within(s, NewLine)
      /\ \A d \in Holder : Within(client[d].held, NewLine) /\ client[d].since <= NewLine
  BY PasteFacts DEF Line
<1>3. Empty \in Session /\ Within(Empty, NewLine)
  <2>1. Empty \in Session /\ Empty.access.line = 0 /\ Empty.refresh.line = 0 /\ NewLine \in Nat
    BY <1>2, GrantFacts DEF Empty
  <2>2. QED
    BY <2>1 DEF Within
<1>4. process' \in Session /\ Within(process', NewLine)
  BY <1>2, <1>3, SessionParts DEF SessionTypeOK, GrantsIssued
<1> HIDE DEF NewLine
<1>5. SessionTypeOK'
  BY <1>1, <1>2, <1>4, SessionParts DEF SessionTypeOK
<1>6. GrantsIssued'
  BY <1>1, <1>2, <1>4 DEF GrantsIssued, Within
<1>7. ChosenStored'
  BY <1>2 DEF ChosenStored
<1>8. QED
  BY <1>5, <1>6, <1>7

LEMMA ConnectTidalSound == SessionInv /\ ConnectTidal => SessionInv'
<1> SUFFICES ASSUME SessionInv, ConnectTidal PROVE SessionInv'
  OBVIOUS
<1>1. /\ kind = "tidal" /\ Paste /\ UNCHANGED <<kind, process, strayed, refused>>
      /\ TidalSound
  BY SessionParts DEF ConnectTidal
<1>2. /\ NewLine \in Line /\ pastes' = NewLine /\ NewLine # 0 /\ NewLine \in 0..MaxConnects
      /\ chosen \in 0..MaxConnects /\ chosen <= pastes /\ pastes \in Nat /\ pastes <= NewLine
      /\ First(NewLine) \in Grants /\ First(NewLine).line = NewLine
      /\ Held(First(NewLine)) \in Session /\ Within(Held(First(NewLine)), NewLine)
      /\ Held(First(NewLine)) # Empty
      /\ \A s \in Session : Within(s, pastes) => Within(s, NewLine)
      /\ \A g \in accepted \cup alive : g.line <= NewLine
      /\ \A d \in Holder : Within(client[d].held, NewLine) /\ client[d].since <= NewLine
      /\ 0 \in 0..MaxRotations
  BY <1>1, PasteFacts, SessionsAssumption, SessionParts DEF Line, SessionTypeOK, GrantsIssued
<1>3. CASE /\ \E k \in {0, 1} :
                LET spent == [line |-> NewLine, n |-> k] IN
                /\ k <= MaxRotations
                /\ Issue(spent)
                /\ Connected(Held(First(NewLine)), [Held(spent) EXCEPT !.of = NewLine])
           /\ tainted' = FALSE
           /\ UNCHANGED <<client, sessionFaults>>
  <2>1. PICK k \in {0, 1} :
           /\ k <= MaxRotations /\ Issue([line |-> NewLine, n |-> k])
           /\ Connected(Held(First(NewLine)), [Held([line |-> NewLine, n |-> k]) EXCEPT !.of = NewLine])
    BY <1>3
  <2>2. PICK spent : spent = [line |-> NewLine, n |-> k]
    OBVIOUS
  <2>3. /\ k \in 0..MaxRotations /\ spent \in Grants /\ Held(spent) \in Session
        /\ Within(Held(spent), NewLine) /\ spent.line = NewLine
        /\ [Held(spent) EXCEPT !.of = NewLine] = Held(spent)
    <3>1. k \in 0..MaxRotations
      BY <2>1, SessionsAssumption
    <3>2. QED
      BY <1>1, <2>2, <3>1, PasteFacts
  <2>4. settings' = Held(First(NewLine)) /\ file' = Held(spent) /\ chosen' = NewLine
    BY <2>1, <2>2, <2>3 DEF Connected
  <2>5. spent \in accepted'
    BY <1>1, <2>1, <2>2, <2>3, IssueSound
  <2>6. SessionTypeOK' /\ GrantsIssued' /\ ChosenStored'
    BY <1>1, <1>2, <1>3, <2>1, <2>3, <2>4, ConnectedSound
  <2>7. file'.access = spent /\ file'.refresh = spent /\ file'.of = NewLine
    BY <2>3, <2>4, HeldFacts
  <2>8. TidalSound'
    BY <1>1, <1>3, <2>3, <2>4, <2>5, <2>7 DEF TidalSound, Open
  <2>9. QED
    BY <1>1, <2>6, <2>8, SessionParts DEF SessionInv
<1>4. CASE SessionFault /\ UNCHANGED <<issuer, settings, file, client, chosen, tainted>>
  <2>1. UNCHANGED <<accepted, alive, settings, file, client, chosen, tainted>>
    BY <1>4 DEF issuer
  <2>2. SessionTypeOK' /\ ChosenStored'
    BY <1>1, <2>1, SessionParts DEF SessionTypeOK, ChosenStored
  <2>3. GrantsIssued'
    <3>1. NewLine \in Nat /\ chosen <= NewLine
      BY <1>2
    <3>2. Within(settings, NewLine) /\ Within(file, NewLine) /\ Within(process, NewLine)
      BY <1>2, SessionParts DEF SessionTypeOK, GrantsIssued
    <3> HIDE DEF NewLine
    <3>3. QED
      BY <1>1, <1>2, <2>1, <3>1, <3>2 DEF GrantsIssued, Within
  <2>4. TidalSound'
    BY <1>1, <2>1 DEF TidalSound, Open
  <2>5. QED
    BY <1>1, <2>2, <2>3, <2>4, SessionParts DEF SessionInv
<1>5. CASE /\ SessionFault /\ Issue(First(NewLine))
           /\ file' = Held(First(NewLine))
           /\ client' = [d \in Holder |-> Closed]
           /\ tainted' = TRUE
           /\ UNCHANGED <<settings, chosen>>
  <2>1. /\ accepted' \subseteq Grants /\ alive' \subseteq Grants
        /\ \A g \in accepted' \cup alive' : g.line <= NewLine
    <3>1. First(NewLine) = [line |-> NewLine, n |-> 0]
      BY DEF First
    <3>2. QED
      BY <1>1, <1>2, <1>5, <3>1, IssueSound
  <2>2. /\ client' \in [Holder -> [held : Session, since : 0..MaxConnects]]
        /\ \A d \in Holder : Within(client'[d].held, pastes) /\ client'[d].since <= pastes
        /\ \A d \in Holder : Open(d)' => client'[d].held = Held(First(client'[d].since))
    BY <1>1, <1>5, ClientsGo
  <2>3. \A d \in Holder : Within(client'[d].held, NewLine) /\ client'[d].since <= NewLine
    <3>1. \A d \in Holder : client'[d].held \in Session /\ client'[d].since \in Nat
      BY <2>2
    <3> HIDE DEF NewLine
    <3>2. \A n \in Nat : n <= pastes => n <= NewLine
      BY <1>2
    <3>3. QED
      BY <1>2, <2>2, <3>1, <3>2
  <2>4. SessionTypeOK' /\ ChosenStored'
    BY <1>1, <1>2, <1>5, <2>1, <2>2, SessionParts DEF SessionTypeOK, ChosenStored
  <2>5. GrantsIssued'
    <3>1. NewLine \in Nat /\ chosen <= NewLine
      BY <1>2
    <3>2. Within(settings, NewLine) /\ Within(process, NewLine)
      BY <1>2, SessionParts DEF SessionTypeOK, GrantsIssued
    <3> HIDE DEF NewLine
    <3>3. QED
      BY <1>1, <1>2, <1>5, <2>1, <2>3, <3>1, <3>2 DEF GrantsIssued, Within
  <2>6. file'.access.line = file'.of /\ file'.refresh.line = file'.of
    BY <1>2, <1>5, HeldFacts
  <2>7. TidalSound'
    BY <1>1, <1>5, <2>2, <2>6 DEF TidalSound
  <2>8. QED
    BY <1>1, <2>4, <2>5, <2>7, SessionParts DEF SessionInv
<1>6. QED
  BY <1>3, <1>4, <1>5 DEF ConnectTidal

\* Deezer's and Amazon's claims about a connection that has just been made.
LEMMA CopiesConnected ==
  ASSUME SessionInv, Paste, kind \in {"deezer", "amazon"}, NEW k \in 0..MaxRotations,
         Issue([line |-> NewLine, n |-> k]), UNCHANGED client, chosen' = NewLine,
         file' # Empty => file'.refresh # NoGrant,
         ~tainted' => /\ settings'.refresh.line = NewLine
                      /\ file' = Empty => settings'.refresh \in accepted'
                      /\ file' # Empty => file'.refresh.line = NewLine /\ file'.refresh \in accepted'
  PROVE  CopiesSound'
<1>1. CopiesSound
  BY SessionParts
<1>2. \A d \in Holder : client[d].since # NewLine
  BY PasteFacts
<1>3. QED
  BY <1>1, <1>2 DEF CopiesSound

\* A connection that proves a renewal before anything is stored.
LEMMA UsedConnected ==
  ASSUME SessionInv, Paste, kind \in {"deezer", "amazon"}, NEW k \in 0..MaxRotations,
         Issue([line |-> NewLine, n |-> k]),
         Connected(Held([line |-> NewLine, n |-> k]), Held([line |-> NewLine, n |-> k])),
         UNCHANGED <<kind, process, client, strayed, refused>>
  PROVE  SessionInv'
<1>1. PICK spent : spent = [line |-> NewLine, n |-> k]
  OBVIOUS
<1>2. /\ spent \in Grants /\ spent.line = NewLine
      /\ Held(spent) \in Session /\ Within(Held(spent), NewLine) /\ Held(spent) # Empty
  BY <1>1, PasteFacts
<1>3. settings' = Held(spent) /\ file' = Held(spent) /\ chosen' = NewLine
  BY <1>1 DEF Connected
<1>4. spent \in accepted'
  BY <1>1, IssueSound
<1>5. SessionTypeOK' /\ GrantsIssued' /\ ChosenStored'
  BY <1>2, <1>3, ConnectedSound
<1>6. file'.refresh = spent /\ settings'.refresh = spent
  BY <1>2, <1>3, HeldFacts
<1>7. CopiesSound'
  BY <1>2, <1>3, <1>4, <1>6, GrantFacts, CopiesConnected
<1>8. QED
  BY <1>5, <1>7, SessionParts DEF SessionInv

LEMMA ConnectDeezerSound == SessionInv /\ ConnectDeezer => SessionInv'
<1> SUFFICES ASSUME SessionInv, ConnectDeezer PROVE SessionInv'
  OBVIOUS
<1>1. kind = "deezer" /\ Paste /\ UNCHANGED <<kind, process, client, strayed, refused>> /\ CopiesSound
  BY SessionParts DEF ConnectDeezer
<1>2. /\ First(NewLine) \in Grants /\ First(NewLine).line = NewLine
      /\ Held(First(NewLine)) \in Session /\ Within(Held(First(NewLine)), NewLine)
      /\ Held(First(NewLine)) # Empty
      /\ \A s \in Session : Within(s, pastes) => Within(s, NewLine)
      /\ 0 \in 0..MaxRotations
  BY <1>1, PasteFacts, SessionsAssumption
<1>3. CASE Issue(First(NewLine)) /\ Connected(Held(First(NewLine)), file) /\ tainted' = (file # Empty)
  <2>1. settings' = Held(First(NewLine)) /\ file' = file /\ chosen' = NewLine
        /\ Issue([line |-> NewLine, n |-> 0])
    BY <1>3 DEF Connected, First
  <2>2. SessionTypeOK' /\ GrantsIssued' /\ ChosenStored'
    <3>1. file \in Session /\ Within(file, NewLine)
      BY <1>2, SessionParts DEF SessionTypeOK, GrantsIssued
    <3>2. QED
      BY <1>1, <1>2, <2>1, <3>1, ConnectedSound
  <2>3. First(NewLine) \in accepted'
    BY <1>1, <1>2, <2>1, IssueSound
  <2>4. settings'.refresh = First(NewLine)
    BY <1>2, <2>1, HeldFacts
  <2>5. CopiesSound'
    BY <1>1, <1>2, <1>3, <2>1, <2>3, <2>4, CopiesConnected DEF CopiesSound
  <2>6. QED
    BY <1>1, <2>2, <2>5, SessionParts DEF SessionInv
<1>4. CASE \E k \in {0, 1} :
             LET spent == [line |-> NewLine, n |-> k] IN
             /\ k <= MaxRotations
             /\ Issue(spent) /\ Connected(Held(spent), Held(spent))
             /\ tainted' = FALSE
  <2>1. PICK k \in {0, 1} :
           /\ k <= MaxRotations /\ Issue([line |-> NewLine, n |-> k])
           /\ Connected(Held([line |-> NewLine, n |-> k]), Held([line |-> NewLine, n |-> k]))
    BY <1>4
  <2>2. k \in 0..MaxRotations
    BY <2>1, SessionsAssumption
  <2>3. QED
    BY <1>1, <2>1, <2>2, UsedConnected
<1>5. QED
  BY <1>3, <1>4 DEF ConnectDeezer

LEMMA ConnectAmazonSound == SessionInv /\ ConnectAmazon => SessionInv'
<1> SUFFICES ASSUME SessionInv, ConnectAmazon PROVE SessionInv'
  OBVIOUS
<1>1. kind = "amazon" /\ Paste /\ UNCHANGED <<kind, process, client, strayed, refused>>
  BY DEF ConnectAmazon
<1>2. PICK k \in {0, 1} :
         /\ k <= MaxRotations /\ Issue([line |-> NewLine, n |-> k])
         /\ Connected(Held([line |-> NewLine, n |-> k]), Held([line |-> NewLine, n |-> k]))
  BY DEF ConnectAmazon
<1>3. k \in 0..MaxRotations
  BY <1>2, SessionsAssumption
<1>4. QED
  BY <1>1, <1>2, <1>3, UsedConnected

LEMMA ConnectFileSound == SessionInv /\ ConnectFile => SessionInv'
<1> SUFFICES ASSUME SessionInv, ConnectFile PROVE SessionInv'
  OBVIOUS
<1>1. /\ kind \in {"spotify", "youtube"} /\ Paste /\ UNCHANGED <<kind, client, strayed, refused>>
      /\ Issue([line |-> NewLine, n |-> 0]) /\ Connected(Held(First(NewLine)), Held(First(NewLine)))
      /\ process' = IF kind = "spotify" THEN Empty ELSE process
  BY DEF ConnectFile, First, Reset
<1>2. /\ Held(First(NewLine)) \in Session /\ Within(Held(First(NewLine)), NewLine)
      /\ Held(First(NewLine)) # Empty /\ NewLine # 0
      /\ 0 \in 0..MaxRotations
  BY <1>1, PasteFacts, SessionsAssumption
<1>3. settings' = Held(First(NewLine)) /\ file' = Held(First(NewLine)) /\ chosen' = NewLine
  BY <1>1 DEF Connected
<1>4. SessionTypeOK' /\ GrantsIssued' /\ ChosenStored'
  BY <1>1, <1>2, <1>3, ConnectedSound
<1>5. kind = "spotify" => SpotifySound'
  BY <1>1, <1>2, <1>3, SessionParts DEF SpotifySound
<1>6. QED
  BY <1>1, <1>4, <1>5, SessionParts DEF SessionInv

LEMMA DisconnectSound == SessionInv /\ Disconnect => SessionInv'
<1> SUFFICES ASSUME SessionInv, Disconnect PROVE SessionInv'
  OBVIOUS
<1>1. /\ settings' = Empty /\ file' = (IF kind = "youtube" THEN file ELSE Empty)
      /\ process' = (IF kind = "spotify" THEN Empty ELSE process)
      /\ chosen' = 0 /\ tainted' = FALSE
      /\ UNCHANGED <<kind, client, accepted, alive, strayed, refused, pastes>>
  BY DEF Disconnect, issuer, Reset
<1>2. /\ Empty \in Session /\ Empty.access.line = 0 /\ Empty.refresh.line = 0 /\ Empty.of = 0
      /\ pastes \in Nat /\ 0 \in 0..MaxConnects
  BY GrantFacts, SessionParts DEF Empty, GrantsIssued
<1>3. SessionTypeOK' /\ GrantsIssued' /\ ChosenStored'
  BY <1>1, <1>2, SessionParts DEF SessionTypeOK, GrantsIssued, ChosenStored, Within
<1>4. kind = "tidal" => TidalSound'
  BY <1>1, <1>2, SessionParts DEF TidalSound, Open
<1>5. kind = "spotify" => SpotifySound'
  BY <1>1, SessionParts DEF SpotifySound
<1>6. kind \in {"deezer", "amazon"} => CopiesSound'
  BY <1>1, SessionParts DEF CopiesSound
<1>7. QED
  BY <1>1, <1>3, <1>4, <1>5, <1>6, SessionParts DEF SessionInv

LEMMA SessionInitInv == SessionInit => SessionInv
<1> SUFFICES ASSUME SessionInit PROVE SessionInv
  OBVIOUS
<1>1. /\ Empty \in Session /\ Empty.access.line = 0 /\ Empty.refresh.line = 0 /\ Empty.of = 0
      /\ 0 \in 0..MaxConnects /\ MaxConnects \in Nat
  BY GrantFacts DEF Empty
<1>2. Closed \in [held : Session, since : 0..MaxConnects] /\ Closed.held = Empty /\ Closed.since = 0
  BY <1>1 DEF Closed
<1>3. \A c \in Holder : client[c] = Closed
  BY DEF SessionInit
<1>4. client \in [Holder -> [held : Session, since : 0..MaxConnects]]
  BY <1>2 DEF SessionInit
<1>5. SessionTypeOK /\ GrantsIssued /\ ChosenStored
  BY <1>1, <1>2, <1>3, <1>4 DEF SessionInit, SessionTypeOK, GrantsIssued, ChosenStored, Within
<1>6. TidalSound /\ SpotifySound /\ CopiesSound
  BY <1>1, <1>2, <1>3 DEF SessionInit, TidalSound, SpotifySound, CopiesSound, Open
<1>7. QED
  BY <1>5, <1>6 DEF SessionInv, SessionInit

\* Every step keeps the sessions in order.
LEMMA SessionStep == SessionInv /\ [SessionNext]_sessionVars => SessionInv'
<1> SUFFICES ASSUME SessionInv, [SessionNext]_sessionVars PROVE SessionInv'
  OBVIOUS
<1>1. ASSUME NEW c \in Holder, Build(c) PROVE SessionInv'
  BY <1>1, BuildSound
<1>2. ASSUME NEW c \in Holder, Call(c) PROVE SessionInv'
  BY <1>2, CallSound
<1>3. ASSUME NEW c \in Holder, Close(c) PROVE SessionInv'
  BY <1>3, CloseSound
<1>4. ASSUME NEW c \in Holder, Crash(c) PROVE SessionInv'
  BY <1>4, SessionCrashSound
<1>5. CASE Status
  BY <1>5, StatusSound
<1>6. CASE Expire
  BY <1>6, ExpireSound
<1>7. CASE ConnectTidal \/ ConnectDeezer \/ ConnectAmazon \/ ConnectFile
  BY <1>7, ConnectTidalSound, ConnectDeezerSound, ConnectAmazonSound, ConnectFileSound
<1>8. CASE Disconnect
  BY <1>8, DisconnectSound
<1>9. CASE UNCHANGED sessionVars
  <2>1. UNCHANGED <<kind, settings, file, process, accepted, alive, chosen, strayed, tainted, refused, pastes>>
        /\ client' = client
    BY <1>9 DEF sessionVars, issuer, history
  <2>2. client = [d \in Holder |-> client[d]]
    BY SessionParts DEF SessionTypeOK
  <2>3. QED
    BY <2>1, <2>2, SessionRests
<1>10. QED
  BY <1>1, <1>2, <1>3, <1>4, <1>5, <1>6, <1>7, <1>8, <1>9 DEF SessionNext

\* The invariant says what the run checks.
LEMMA SessionInvHolds == SessionInv => SessionsHold
<1> SUFFICES ASSUME SessionInv PROVE SessionsHold
  OBVIOUS
<1>1. TiedUsesChosen
  BY SessionParts DEF TiedUsesChosen, UsesChosen, TidalSound, SpotifySound
<1>2. NeverRefused
  BY SessionParts DEF NeverRefused, TidalSound
<1>3. RenewalKept
  <2> SUFFICES ASSUME kind \in {"tidal", "deezer", "amazon"}, chosen # 0, ~tainted
               PROVE  Durable.refresh \in accepted
    BY DEF RenewalKept
  <2>1. CASE kind = "tidal"
    <3>1. TidalSound /\ chosen \in Line
      BY <2>1, SessionParts DEF SessionTypeOK, Line
    <3>2. settings.of = chosen
      BY <3>1, GrantFacts, HeldFacts DEF TidalSound
    <3>3. QED
      BY <2>1, <3>1, <3>2 DEF Durable, ReadBack, TidalSound
  <2>2. CASE kind \in {"deezer", "amazon"}
    <3>1. CopiesSound /\ (file = Empty => file.refresh = NoGrant)
      BY <2>2, SessionParts DEF Empty
    <3>2. QED
      BY <2>2, <3>1 DEF Durable, CopiesSound
  <2>3. QED
    BY <2>1, <2>2
<1>4. QED
  BY <1>1, <1>2, <1>3, SessionParts DEF SessionsHold

(* Clients speak for the session that was chosen (TIDAL and Spotify), a    *)
(* restart finds a refresh token the provider still takes unless the       *)
(* process died in a renewal or another connection's client wrote the      *)
(* file, and no renewal of TIDAL's is refused because another client       *)
(* rotated the token first.                                                *)
THEOREM SessionsHoldAlways == SessionSpec => []SessionsHold
<1>1. SessionSpec => []SessionInv
  BY SessionInitInv, SessionStep, PTL DEF SessionSpec
<1>2. QED
  BY <1>1, SessionInvHolds, PTL

(***************************************************************************)
(* Writes.                                                                 *)
(***************************************************************************)

\* The entries of an id: all, those the call is to leave, those that were there or that the call
\* added; and the appends of an id.
EntriesOf(i) == {e \in Entry : e.id = i}
StayingOf(i) == {e \in Entry : e.id = i /\ e.mark = 0}
OwnOf(i) == {e \in Entry : e.id = i /\ e.mark # -2}
PutsOf(i) == {q \in Request : q.do = "put" /\ q.id = i}

Active == call.phase # "idle"
Asked(n) == call.todo[n].do = "put"

\* What a call has to do is in its plan, the appends in their order and before any removal that
\* follows; an append that is due has not landed.
PlanInShape ==
  /\ Active <=> call.todo # <<>>
  /\ Active /\ target # "apple" => call.id = req.id
  /\ call.kind = "drop" => target # "apple"
  /\ call.kind # "drop" => \A n \in DOMAIN call.todo : Asked(n)
  /\ \A n \in DOMAIN call.todo :
        ~Asked(n) => (call.todo[n].do = "wipe" <=> target \in Deezers)
  /\ \A m, n \in DOMAIN call.todo :
        m # n /\ call.todo[m].do = "wipe" /\ call.todo[n].do = "wipe" => call.todo[m].id # call.todo[n].id
  /\ \A n \in DOMAIN call.todo : Asked(n) =>
        call.todo[n].nth \in DOMAIN call.plan /\ call.plan[call.todo[n].nth] = call.todo[n]
  /\ \A m, n \in DOMAIN call.todo : m < n =>
        /\ Asked(n) => Asked(m)
        /\ Asked(n) => call.todo[m].nth < call.todo[n].nth
  /\ landed \subseteq DOMAIN call.plan
  /\ \A k \in landed : \A n \in DOMAIN call.todo :
        Asked(n) => k < call.todo[n].nth \/ (n = 1 /\ k = call.todo[1].nth)

\* The marks in the playlist are of requests that landed, in order, each once; the provider has
\* only ids it takes.
MarksInOrder ==
  /\ \A j \in DOMAIN list : list[j].mark > 0 => list[j].mark \in landed
  /\ \A j \in DOMAIN list : list[j].id \notin Gone /\ (Active => list[j].id \in seen)
  /\ Steady /\ target \notin Resending =>
       \A j, k \in DOMAIN list : j < k /\ list[j].mark > 0 /\ list[k].mark > 0 =>
         \/ list[j].mark < list[k].mark
         \/ list[j].mark = list[k].mark /\ target = "apple" /\ list[k].id \in taken

\* A request that waits for its answer has not landed, or the client cannot tell.
DueOnce ==
  Active /\ Steady /\ target \notin Resending =>
    /\ target # "apple" /\ req.do = "put" => req.nth \notin landed
    /\ target = "apple" /\ req.nth \in landed =>
         /\ call.id \notin Gone
         /\ \A j \in DOMAIN list : list[j].mark = req.nth => list[j].id = call.id
         /\ call.id \in taken \/ (call.phase = "verify" /\ Copies(list, call.id) > call.before)

\* What Apple's client believes of the playlist: the copies it counts are there, or a person
\* took some; the ids it goes by are the ones asked for, unless these are gone.
AppleCounts ==
  target = "apple" /\ Steady =>
    /\ \A i \in Id : call.counts[i] <= Copies(list, i) \/ i \in taken
    /\ \A i \in Gone : call.counts[i] = 0
    /\ \A i \in Id \ Gone : alias[i] = i
    /\ Active => /\ call.before <= Copies(list, call.id) \/ call.id \in taken
                 /\ call.base = call.before
                 /\ ~call.fixed => call.base = call.counts[call.id]
                 /\ call.id = req.id \/ req.id \in Gone
                 /\ call.bad => call.id \in Gone

\* A request the client is done with landed or has a reason not to have.
Accounted(j) ==
  \/ j \in landed
  \/ call.plan[j].id \in Gone \cup call.unrestored
  \/ HadIt(call.plan[j].id) \/ HadIt(alias[call.plan[j].id])
AllAccounted ==
  Steady /\ Active =>
    \A j \in DOMAIN call.plan : call.plan[j].do = "put" =>
      Accounted(j) \/ \E n \in DOMAIN call.todo : Asked(n) /\ call.todo[n].nth = j

\* The copies to keep are in the playlist, or a Deezer client has yet to append them again.
Wiping(i) == \E n \in DOMAIN call.todo : call.todo[n].do = "wipe" /\ call.todo[n].id = i
Lost(i) == target = "deezerweb" /\ i \in call.givenup
KeepersSound ==
  /\ target \notin Deezers => \A i \in Id : CountIn(list, StayingOf(i)) >= kept[i]
  /\ target \in Deezers /\ call.kind # "drop" => \A i \in Id : CountIn(list, OwnOf(i)) >= kept[i]
  /\ target \in Deezers /\ call.kind = "drop" =>
       \A i \in Id :
         /\ Wiping(i) => call.keep[i] >= kept[i]
         /\ Wiping(i) /\ target = "deezer" => CountIn(list, OwnOf(i)) >= kept[i]
         /\ Active => \/ i \in call.unrestored \/ Lost(i) \/ Wiping(i)
                      \/ CountIn(list, OwnOf(i)) + CountIn(call.todo, PutsOf(i)) >= kept[i]
         /\ ~Active /\ call.result = "done" => Lost(i) \/ CountIn(list, OwnOf(i)) >= kept[i]

WriteInv == /\ TypeOK /\ PlanInShape /\ MarksInOrder /\ DueOnce /\ AppleCounts
            /\ AllAccounted /\ NothingPassedOver /\ ConfirmedIsThere /\ KeepersSound

\* Without the element at k.
LEMMA RemoveAtRows ==
  ASSUME NEW T, NEW s \in Seq(T), NEW k \in 1..Len(s)
  PROVE  /\ RemoveAt(s, k) \in Seq(T) /\ Len(RemoveAt(s, k)) = Len(s) - 1
         /\ \A j \in 1..(Len(s) - 1) : RemoveAt(s, k)[j] = IF j < k THEN s[j] ELSE s[j + 1]
<1> DEFINE n == Len(s)  a == SubSeq(s, 1, k - 1)  b == SubSeq(s, k + 1, Len(s))
<1>1. n \in Nat /\ k \in Nat /\ 1 <= k /\ k <= n /\ \A i \in 1..n : s[i] \in T
  OBVIOUS
<1>2. /\ a \in Seq(T) /\ Len(a) = k - 1 /\ \A i \in 1..(k - 1) : a[i] = s[i]
  <2>1. \A i \in 1..(k - 1) : s[i] \in T
    BY <1>1
  <2>2. 1 \in Int /\ k - 1 \in Int
    BY <1>1
  <2>3. /\ a \in Seq(T) /\ Len(a) = (IF 1 <= k - 1 THEN (k - 1) - 1 + 1 ELSE 0)
        /\ \A i \in 1..((k - 1) - 1 + 1) : a[i] = s[1 + i - 1]
    BY <2>1, <2>2, SubSeqProperties
  <2>4. (k - 1) - 1 + 1 = k - 1 /\ (~(1 <= k - 1) => k - 1 = 0) /\ \A i \in 1..(k - 1) : 1 + i - 1 = i
    BY <1>1
  <2>5. QED
    BY <2>3, <2>4
<1>3. /\ b \in Seq(T) /\ Len(b) = n - k /\ \A i \in 1..(n - k) : b[i] = s[k + i]
  <2>1. \A i \in (k + 1)..n : s[i] \in T
    BY <1>1
  <2>2. k + 1 \in Int /\ n \in Int
    BY <1>1
  <2>3. /\ b \in Seq(T) /\ Len(b) = (IF k + 1 <= n THEN n - (k + 1) + 1 ELSE 0)
        /\ \A i \in 1..(n - (k + 1) + 1) : b[i] = s[(k + 1) + i - 1]
    BY <2>1, <2>2, SubSeqProperties
  <2>4. n - (k + 1) + 1 = n - k /\ (~(k + 1 <= n) => n - k = 0) /\ \A i \in 1..(n - k) : (k + 1) + i - 1 = k + i
    BY <1>1
  <2>5. QED
    BY <2>3, <2>4
<1>4. RemoveAt(s, k) = a \o b
  BY DEF RemoveAt
<1> HIDE DEF n, a, b
<1>5. /\ a \o b \in Seq(T) /\ Len(a \o b) = Len(a) + Len(b)
      /\ \A i \in 1..(Len(a) + Len(b)) : (a \o b)[i] = IF i <= Len(a) THEN a[i] ELSE b[i - Len(a)]
  BY <1>2, <1>3, ConcatProperties
<1>6. Len(a) + Len(b) = n - 1
  BY <1>1, <1>2, <1>3
<1>7. ASSUME NEW j \in 1..(n - 1) PROVE (a \o b)[j] = IF j < k THEN s[j] ELSE s[j + 1]
  <2>1. (a \o b)[j] = IF j <= k - 1 THEN a[j] ELSE b[j - (k - 1)]
    BY <1>2, <1>5, <1>6
  <2>2. CASE j < k
    BY <1>1, <1>2, <2>1, <2>2
  <2>3. CASE ~(j < k)
    <3>1. j - (k - 1) \in 1..(n - k) /\ k + (j - (k - 1)) = j + 1 /\ ~(j <= k - 1)
      BY <1>1, <2>3
    <3>2. QED
      BY <1>3, <2>1, <2>3, <3>1
  <2>4. QED
    BY <2>2, <2>3
<1>8. QED
  BY <1>4, <1>5, <1>6, <1>7 DEF n

LEMMA RemoveAtShrinks ==
  ASSUME NEW T, NEW s \in Seq(T), NEW k \in 1..Len(s), NEW E
  PROVE  /\ \E place \in [1..Len(RemoveAt(s, k)) -> 1..Len(s)] : Shrinks(s, RemoveAt(s, k), place)
         /\ CountIn(RemoveAt(s, k), E) = CountIn(s, E) - IF s[k] \in E THEN 1 ELSE 0
<1> DEFINE n == Len(s)
           t == RemoveAt(s, k)
           place == [j \in 1..(n - 1) |-> IF j < k THEN j ELSE j + 1]
<1>1. n \in Nat /\ k \in Nat /\ 1 <= k /\ k <= n
  OBVIOUS
<1>2. /\ t \in Seq(T) /\ Len(t) = n - 1
      /\ \A j \in 1..(n - 1) : t[j] = IF j < k THEN s[j] ELSE s[j + 1]
  BY RemoveAtRows
<1>3. /\ Positions(s, E) = {i \in 1..n : s[i] \in E} /\ IsFiniteSet(Positions(s, E))
      /\ CountIn(s, E) \in Nat
  BY CountFacts
<1>4. /\ Positions(t, E) = {i \in 1..(n - 1) : t[i] \in E} /\ IsFiniteSet(Positions(t, E))
      /\ CountIn(t, E) \in Nat
  BY <1>2, CountFacts
<1> HIDE DEF n, t
<1>5. /\ place \in [1..(n - 1) -> 1..n] /\ \A j \in 1..(n - 1) : t[j] = s[place[j]] /\ place[j] # k
      /\ \A i, j \in 1..(n - 1) : i < j => place[i] < place[j]
  BY <1>1, <1>2
<1>6. \A i \in 1..n : i # k => \E j \in 1..(n - 1) : place[j] = i
  <2>1. ASSUME NEW i \in 1..n, i # k PROVE \E j \in 1..(n - 1) : place[j] = i
    <3>1. CASE i < k
      <4>1. i \in 1..(n - 1) /\ place[i] = i
        BY <1>1, <2>1, <3>1
      <4>2. QED
        BY <4>1
    <3>2. CASE i > k
      <4>1. i - 1 \in 1..(n - 1) /\ ~(i - 1 < k) /\ (i - 1) + 1 = i
        BY <1>1, <2>1, <3>2
      <4>2. place[i - 1] = i
        BY <4>1
      <4>3. QED
        BY <4>1, <4>2
    <3>3. QED
      BY <1>1, <2>1, <3>1, <3>2
  <2>2. QED
    BY <2>1
<1>7. Len(t) = n - 1
  BY <1>2
<1> HIDE DEF place
<1>8. Shrinks(s, t, place)
  BY <1>5, <1>7 DEF Shrinks
<1> DEFINE g == [j \in Positions(t, E) |-> place[j]]
           P == Positions(s, E) \ {k}
<1>9. g \in [Positions(t, E) -> P]
  BY <1>3, <1>4, <1>5
<1>10. \A i, j \in Positions(t, E) : g[i] = g[j] => i = j
  <2>1. ASSUME NEW i \in Positions(t, E), NEW j \in Positions(t, E), g[i] = g[j] PROVE i = j
    <3>1. i \in 1..(n - 1) /\ j \in 1..(n - 1) /\ place[i] = place[j]
      BY <1>4, <2>1
    <3>2. ~(i < j) /\ ~(j < i)
      BY <1>1, <1>5, <3>1
    <3>3. QED
      BY <1>1, <3>1, <3>2
  <2>2. QED
    BY <2>1
<1>11. \A i \in P : \E j \in Positions(t, E) : g[j] = i
  <2>1. ASSUME NEW i \in P PROVE \E j \in Positions(t, E) : g[j] = i
    <3>1. PICK j \in 1..(n - 1) : place[j] = i
      BY <1>3, <1>6
    <3>2. j \in Positions(t, E)
      BY <1>3, <1>4, <1>5, <3>1
    <3>3. QED
      BY <3>1, <3>2
  <2>2. QED
    BY <2>1
<1>12. g \in Bijection(Positions(t, E), P)
  BY <1>9, <1>10, <1>11 DEF Bijection, Injection, Surjection, IsInjective
<1>13. Cardinality(P) = Cardinality(Positions(t, E))
  BY <1>4, <1>12, FS_Bijection DEF ExistsBijection
<1>14. Cardinality(P) = Cardinality(Positions(s, E)) - IF k \in Positions(s, E) THEN 1 ELSE 0
  <2> HIDE DEF P
  <2>1. \A S : IsFiniteSet(S) => Cardinality(S \ {k}) = IF k \in S THEN Cardinality(S) - 1 ELSE Cardinality(S)
    BY FS_RemoveElement
  <2>2. P = Positions(s, E) \ {k}
    BY DEF P
  <2>3. Cardinality(Positions(s, E)) \in Nat
    BY <1>3 DEF CountIn
  <2>4. QED
    BY <1>3, <2>1, <2>2, <2>3
<1>15. k \in Positions(s, E) <=> s[k] \in E
  BY <1>1, <1>3
<1>16. CountIn(t, E) = CountIn(s, E) - IF s[k] \in E THEN 1 ELSE 0
  BY <1>13, <1>14, <1>15 DEF CountIn
<1>17. QED
  BY <1>1, <1>5, <1>7, <1>8, <1>16 DEF t, n

\* Without the first element.
LEMMA CountTail ==
  ASSUME NEW T, NEW s \in Seq(T), s # <<>>, NEW E
  PROVE  /\ Tail(s) \in Seq(T) /\ Len(Tail(s)) = Len(s) - 1 /\ Len(s) \in Nat /\ Len(s) >= 1
         /\ \A i \in 1..(Len(s) - 1) : Tail(s)[i] = s[i + 1]
         /\ Head(s) = s[1] /\ s[1] \in T
         /\ CountIn(Tail(s), E) = CountIn(s, E) - IF s[1] \in E THEN 1 ELSE 0
<1>1. /\ Tail(s) \in Seq(T) /\ Len(Tail(s)) = Len(s) - 1 /\ Len(s) \in Nat /\ Len(s) >= 1
      /\ \A i \in 1..(Len(s) - 1) : Tail(s)[i] = s[i + 1]
      /\ Head(s) = s[1] /\ s[1] \in T
  OBVIOUS
<1>2. 1 \in 1..Len(s)
  BY <1>1
<1>3. /\ RemoveAt(s, 1) \in Seq(T) /\ Len(RemoveAt(s, 1)) = Len(s) - 1
      /\ \A j \in 1..(Len(s) - 1) : RemoveAt(s, 1)[j] = IF j < 1 THEN s[j] ELSE s[j + 1]
      /\ CountIn(RemoveAt(s, 1), E) = CountIn(s, E) - IF s[1] \in E THEN 1 ELSE 0
  BY <1>2, RemoveAtRows, RemoveAtShrinks
<1>4. \A j \in 1..(Len(s) - 1) : RemoveAt(s, 1)[j] = s[j + 1]
  BY <1>1, <1>3
<1>5. RemoveAt(s, 1) = Tail(s)
  BY <1>1, <1>3, <1>4, SeqEqual
<1>6. QED
  BY <1>1, <1>3, <1>5

\* Some numbers have a smallest.
LEMMA SmallestOf ==
  ASSUME NEW S \in SUBSET Nat, S # {}
  PROVE  \E x \in S : \A y \in S : x <= y
<1>1. PICK x \in S : \A y \in S : ~(<<y, x>> \in OpToRel(<, Nat))
  BY NatLessThanWellFounded, WFMin
<1>2. \A y \in S : ~(y < x)
  BY <1>1 DEF OpToRel
<1>3. \A y \in S : x <= y
  <2>1. x \in Nat /\ \A y \in S : y \in Nat
    BY <1>1
  <2>2. QED
    BY <1>2, <2>1
<1>4. QED
  BY <1>3

\* A call in its shape, and the request it waits for.
LEMMA CallFields ==
  ASSUME NEW c \in WriteCall
  PROVE  /\ c.kind \in {"add", "copies", "drop"} /\ c.plan \in Seq(Request) /\ c.todo \in Seq(Request)
         /\ c.id \in Id /\ c.phase \in {"idle", "send", "verify"} /\ c.tries \in Nat
         /\ c.checks \in 0..2 /\ c.renewed \in BOOLEAN /\ c.fixed \in BOOLEAN /\ c.bad \in BOOLEAN
         /\ c.base \in Nat /\ c.before \in Nat /\ c.counts \in [Id -> Nat] /\ c.keep \in [Id -> Nat]
         /\ c.size \in Nat /\ c.ok \in SUBSET (Nat \X Id) /\ c.unrestored \in SUBSET Id
         /\ c.givenup \in SUBSET Id /\ c.result \in {"none", "done", "raised"}
  BY DEF WriteCall

LEMMA RequestFields ==
  ASSUME NEW q \in Request
  PROVE  q.do \in {"put", "cut", "sweep", "wipe"} /\ q.id \in Id /\ q.nth \in Nat
  BY DEF Request

LEMMA ReqFacts ==
  ASSUME TypeOK, PlanInShape, Active
  PROVE  /\ call \in WriteCall /\ call.todo \in Seq(Request) /\ call.todo # <<>>
         /\ Len(call.todo) \in Nat /\ Len(call.todo) >= 1 /\ DOMAIN call.todo = 1..Len(call.todo)
         /\ req = call.todo[1] /\ req \in Request /\ req.id \in Id /\ req.nth \in Nat /\ call.id \in Id
         /\ req.do \in {"put", "cut", "sweep", "wipe"}
         /\ Tail(call.todo) \in Seq(Request) /\ Len(Tail(call.todo)) = Len(call.todo) - 1
         /\ \A i \in 1..(Len(call.todo) - 1) : Tail(call.todo)[i] = call.todo[i + 1]
<1>1. call \in WriteCall /\ call.todo \in Seq(Request) /\ call.todo # <<>> /\ call.id \in Id
  BY CallFields DEF TypeOK, PlanInShape
<1>2. /\ Tail(call.todo) \in Seq(Request) /\ Len(Tail(call.todo)) = Len(call.todo) - 1
      /\ Len(call.todo) \in Nat /\ Len(call.todo) >= 1
      /\ \A i \in 1..(Len(call.todo) - 1) : Tail(call.todo)[i] = call.todo[i + 1]
      /\ Head(call.todo) = call.todo[1] /\ call.todo[1] \in Request
  BY <1>1, CountTail
<1>3. DOMAIN call.todo = 1..Len(call.todo)
  BY <1>1
<1>4. QED
  BY <1>1, <1>2, <1>3, RequestFields DEF req

\* What an entry is, and which sets it is in.
LEMMA EntryFacts ==
  ASSUME NEW e \in Entry, NEW i
  PROVE  /\ e.id \in Id /\ e.mark \in Int
         /\ e \in EntriesOf(i) <=> e.id = i
         /\ e \in StayingOf(i) <=> e.id = i /\ e.mark = 0
         /\ e \in OwnOf(i) <=> e.id = i /\ e.mark # -2
  BY DEF Entry, EntriesOf, StayingOf, OwnOf

LEMMA PutFacts ==
  ASSUME NEW q \in Request, NEW i
  PROVE  q \in PutsOf(i) <=> q.do = "put" /\ q.id = i
  BY DEF PutsOf

LEMMA EntryMade ==
  ASSUME NEW i \in Id, NEW n \in Int
  PROVE  [id |-> i, mark |-> n] \in Entry
  BY DEF Entry

LEMMA CopiesCounted ==
  ASSUME NEW l \in Seq(Entry), NEW i
  PROVE  Copies(l, i) = CountIn(l, EntriesOf(i)) /\ Copies(l, i) \in Nat
<1>1. /\ Positions(l, EntriesOf(i)) = {k \in 1..Len(l) : l[k] \in EntriesOf(i)}
      /\ CountIn(l, EntriesOf(i)) \in Nat
  BY CountFacts
<1>2. DOMAIN l = 1..Len(l) /\ \A k \in 1..Len(l) : l[k] \in Entry
  OBVIOUS
<1>3. {k \in DOMAIN l : l[k].id = i} = Positions(l, EntriesOf(i))
  BY <1>1, <1>2, EntryFacts
<1>4. QED
  BY <1>1, <1>3 DEF Copies, CountIn

\* The number of an id's own entries is between that of those to stay and that of all.
LEMMA OwnCounted ==
  ASSUME NEW l \in Seq(Entry), NEW i
  PROVE  /\ CountIn(l, StayingOf(i)) <= CountIn(l, OwnOf(i))
         /\ CountIn(l, OwnOf(i)) <= Copies(l, i)
         /\ CountIn(l, StayingOf(i)) \in Nat /\ CountIn(l, OwnOf(i)) \in Nat
<1>1. \A k \in 1..Len(l) : l[k] \in Entry
  OBVIOUS
<1>2. \A k \in 1..Len(l) : l[k] \in StayingOf(i) => l[k] \in OwnOf(i)
  BY <1>1, EntryFacts
<1>3. \A k \in 1..Len(l) : l[k] \in OwnOf(i) => l[k] \in EntriesOf(i)
  BY <1>1, EntryFacts
<1>4. CountIn(l, StayingOf(i)) <= CountIn(l, OwnOf(i))
  BY <1>2, CountPart
<1>5. CountIn(l, OwnOf(i)) <= CountIn(l, EntriesOf(i))
  BY <1>3, CountPart
<1>6. QED
  BY <1>4, <1>5, CountFacts, CopiesCounted

\* What the request the call waits for does to the playlist.
Applies == Sending /\ ~Refuses /\ Apply

LEMMA EffectCases ==
  ASSUME TypeOK, PlanInShape, Active
  PROVE  /\ Effect \in Seq(Entry)
         /\ req.do = "put" => Effect = list \/ Effect = Append(list, [id |-> call.id, mark |-> req.nth])
         /\ req.do = "put" /\ Effect = list =>
              call.kind = "add" /\ target \in Suppressing /\ call.id \in Ids(list)
         /\ req.do # "put" =>
              \E place \in [1..Len(Effect) -> 1..Len(list)] : Shrinks(list, Effect, place)
         /\ req.do \in {"cut", "sweep"} => \A i \in Id :
              CountIn(Effect, StayingOf(i)) = CountIn(list, StayingOf(i))
         /\ req.do = "wipe" => \A i \in Id : i # req.id =>
              CountIn(Effect, OwnOf(i)) = CountIn(list, OwnOf(i))
<1>1. list \in Seq(Entry) /\ Len(list) \in Nat /\ DOMAIN list = 1..Len(list)
      /\ \A k \in 1..Len(list) : list[k] \in Entry
  BY DEF TypeOK
<1>2. CASE req.do = "put"
  <2>1. [id |-> call.id, mark |-> req.nth] \in Entry
    BY ReqFacts, EntryMade
  <2>2. /\ Append(list, [id |-> call.id, mark |-> req.nth]) \in Seq(Entry)
        /\ Len(Append(list, [id |-> call.id, mark |-> req.nth])) = Len(list) + 1
    BY <1>1, <2>1, AppendProperties
  <2>3. CASE call.kind = "add" /\ target \in Suppressing /\ call.id \in Ids(list)
    <3>1. Effect = list
      BY <1>2, <2>3 DEF Effect
    <3>2. QED
      BY <1>1, <1>2, <2>3, <3>1
  <2>4. CASE ~(call.kind = "add" /\ target \in Suppressing /\ call.id \in Ids(list))
    <3>1. Effect = Append(list, [id |-> call.id, mark |-> req.nth])
      BY <1>2, <2>4 DEF Effect
    <3>2. QED
      BY <1>2, <2>2, <3>1
  <2>5. QED
    BY <2>3, <2>4
<1>3. CASE req.do = "cut" /\ Flagged = {}
  <2>1. Effect = list
    BY <1>3 DEF Effect
  <2>2. \E place \in [1..Len(list) -> 1..Len(list)] : Shrinks(list, list, place)
    <3> DEFINE place == [k \in 1..Len(list) |-> k]
    <3>1. place \in [1..Len(list) -> 1..Len(list)] /\ Shrinks(list, list, place)
      BY DEF Shrinks
    <3>2. QED
      BY <3>1
  <2>3. QED
    BY <1>1, <1>3, <2>1, <2>2
<1>4. CASE req.do = "cut" /\ Flagged # {}
  <2> DEFINE k == CHOOSE k \in Flagged : \A m \in Flagged : k <= m
  <2>1. k \in Flagged
    <3>1. Flagged \in SUBSET Nat /\ Flagged # {}
      BY <1>1, <1>4 DEF Flagged
    <3>2. \E j \in Flagged : \A m \in Flagged : j <= m
      BY <3>1, SmallestOf
    <3>3. QED
      BY <3>2
  <2>2. k \in 1..Len(list) /\ list[k].mark = -1 /\ Effect = RemoveAt(list, k)
    BY <1>1, <1>4, <2>1 DEF Effect, Flagged
  <2> HIDE DEF k
  <2>3. /\ Effect \in Seq(Entry)
        /\ \E place \in [1..Len(Effect) -> 1..Len(list)] : Shrinks(list, Effect, place)
    BY <1>1, <2>2, RemoveAtRows, RemoveAtShrinks
  <2>4. ASSUME NEW i \in Id PROVE CountIn(Effect, StayingOf(i)) = CountIn(list, StayingOf(i))
    <3>1. list[k] \notin StayingOf(i)
      BY <1>1, <2>2, EntryFacts
    <3>2. CountIn(Effect, StayingOf(i)) = CountIn(list, StayingOf(i)) - 0
      BY <1>1, <2>2, <3>1, RemoveAtShrinks
    <3>3. QED
      BY <1>1, <3>2, CountFacts
  <2>5. QED
    BY <1>4, <2>3, <2>4
<1>5. CASE req.do = "sweep"
  <2> DEFINE S == {e \in ToSet(list) : e.mark # -1}
  <2>1. Effect = Kept(list, S)
    BY <1>5 DEF Effect
  <2>2. \A i \in Id : \A k \in 1..Len(list) : list[k] \in StayingOf(i) => list[k] \in S
    BY <1>1, EntryFacts DEF ToSet
  <2>3. QED
    BY <1>1, <1>5, <2>1, <2>2, KeptShrinks, ZenonT(40)
<1>6. CASE req.do = "wipe"
  <2> DEFINE S == {e \in ToSet(list) : e.id # req.id}
  <2>1. Effect = Kept(list, S)
    BY <1>6 DEF Effect
  <2>2. \A i \in Id : i # req.id => \A k \in 1..Len(list) : list[k] \in OwnOf(i) => list[k] \in S
    BY <1>1, EntryFacts DEF ToSet
  <2>3. QED
    BY <1>1, <1>6, <2>1, <2>2, KeptShrinks, ZenonT(40)
<1>7. QED
  BY <1>2, <1>3, <1>4, <1>5, <1>6, ReqFacts

\* What a step may do to the playlist while a call waits: nothing, or what its request does.
Grown ==
  /\ target' = target /\ taken' = taken /\ kept' = kept
  /\ Applies \/ UNCHANGED <<list, landed, seen>>

\* The playlist, its record of ids and what has landed, after such a step.
LEMMA GrownTypes ==
  ASSUME WriteInv, Active, Grown
  PROVE  /\ list' \in Seq(Entry) /\ seen' \in SUBSET Id /\ seen \subseteq seen'
         /\ landed \subseteq landed' /\ landed' \subseteq landed \cup {req.nth}
         /\ landed' # landed => req.do = "put"
         /\ landed' \in SUBSET Nat /\ landed' \subseteq DOMAIN call.plan
<1>1. TypeOK /\ PlanInShape /\ list \in Seq(Entry) /\ seen \subseteq Id /\ landed \subseteq Nat
      /\ landed \subseteq DOMAIN call.plan
  BY DEF WriteInv, TypeOK, PlanInShape
<1>2. req.nth \in Nat /\ (req.do = "put" => req.nth \in DOMAIN call.plan)
  <2>1. req = call.todo[1] /\ 1 \in DOMAIN call.todo /\ req.nth \in Nat
    BY <1>1, ReqFacts
  <2>2. QED
    BY <1>1, <2>1 DEF PlanInShape, Asked
<1>3. CASE Applies
  <2>1. list' = Effect /\ seen' = seen \cup Ids(Effect)
        /\ landed' = IF Effect # list /\ req.do = "put" THEN landed \cup {req.nth} ELSE landed
    BY <1>3 DEF Applies, Apply
  <2>2. Effect \in Seq(Entry)
    BY <1>1, EffectCases
  <2>3. Ids(Effect) \subseteq Id
    BY <2>2, EntryFacts DEF Ids
  <2>4. QED
    BY <1>1, <1>2, <2>1, <2>2, <2>3
<1>4. CASE UNCHANGED <<list, landed, seen>>
  BY <1>1, <1>4
<1>5. QED
  BY <1>3, <1>4 DEF Grown

\* The appended entry, when there is one.
LEMMA PutGrown ==
  ASSUME WriteInv, Active, Applies, req.do = "put"
  PROVE  LET e == [id |-> call.id, mark |-> req.nth] IN
         \/ /\ list' = list /\ landed' = landed
            /\ call.kind = "add" /\ target \in Suppressing /\ call.id \in Ids(list)
         \/ /\ e \in Entry /\ list' = Append(list, e)
            /\ landed' = landed \cup {req.nth} /\ call.id \in seen'
            /\ Len(list') = Len(list) + 1 /\ list'[Len(list) + 1] = e
            /\ \A j \in 1..Len(list) : list'[j] = list[j]
<1> DEFINE e == [id |-> call.id, mark |-> req.nth]
<1>1. TypeOK /\ PlanInShape /\ list \in Seq(Entry)
  BY DEF WriteInv, TypeOK
<1>2. list' = Effect /\ seen' = seen \cup Ids(Effect)
      /\ landed' = IF Effect # list THEN landed \cup {req.nth} ELSE landed
  BY DEF Applies, Apply
<1>3. Effect = list \/ Effect = Append(list, e)
  BY <1>1, EffectCases
<1>4. Effect = list => call.kind = "add" /\ target \in Suppressing /\ call.id \in Ids(list)
  BY <1>1, EffectCases
<1>5. e \in Entry
  BY <1>1, ReqFacts, EntryMade
<1>6. CASE Effect = list
  BY <1>2, <1>4, <1>6
<1>7. CASE Effect # list
  <2>1. list' = Append(list, e)
    BY <1>2, <1>3, <1>7
  <2>2. /\ Len(list') = Len(list) + 1 /\ list'[Len(list) + 1] = e
        /\ \A j \in 1..Len(list) : list'[j] = list[j]
        /\ list' \in Seq(Entry) /\ Len(list) \in Nat
    BY <1>1, <1>5, <2>1, AppendProperties
  <2>3. call.id \in Ids(list')
    <3>1. Len(list) + 1 \in DOMAIN list' /\ list'[Len(list) + 1].id = call.id
      BY <2>2
    <3>2. QED
      BY <3>1 DEF Ids
  <2>4. QED
    BY <1>2, <1>5, <1>7, <2>1, <2>2, <2>3
<1>8. QED
  BY <1>6, <1>7

\* Any other request takes entries away.
LEMMA OtherGrown ==
  ASSUME WriteInv, Active, Applies, req.do # "put"
  PROVE  /\ landed' = landed
         /\ \E place \in [1..Len(list') -> 1..Len(list)] : Shrinks(list, list', place)
<1>1. TypeOK /\ PlanInShape
  BY DEF WriteInv
<1>2. list' = Effect /\ landed' = landed
  BY DEF Applies, Apply
<1>3. QED
  BY <1>1, <1>2, EffectCases

\* Marks stay in order when entries go.
LEMMA MarksShrink ==
  ASSUME WriteInv, target' = target, landed' = landed, list' \in Seq(Entry),
         taken \subseteq taken', seen \subseteq seen', Active' => Active,
         NEW place \in [1..Len(list') -> 1..Len(list)], Shrinks(list, list', place)
  PROVE  MarksInOrder'
<1>1. MarksInOrder /\ list \in Seq(Entry) /\ DOMAIN list = 1..Len(list) /\ DOMAIN list' = 1..Len(list')
  BY DEF WriteInv, TypeOK
<1>2. /\ \A k \in 1..Len(list') : list'[k] = list[place[k]] /\ place[k] \in 1..Len(list)
      /\ \A j, k \in 1..Len(list') : j < k => place[j] < place[k]
  BY DEF Shrinks
<1>3. \A j \in DOMAIN list' : list'[j].mark > 0 => list'[j].mark \in landed'
  BY <1>1, <1>2 DEF MarksInOrder
<1>4. \A j \in DOMAIN list' : list'[j].id \notin Gone /\ (Active' => list'[j].id \in seen')
  BY <1>1, <1>2 DEF MarksInOrder
<1>5. ASSUME Steady, target \notin Resending,
             NEW j \in DOMAIN list', NEW k \in DOMAIN list', j < k, list'[j].mark > 0, list'[k].mark > 0
      PROVE  \/ list'[j].mark < list'[k].mark
             \/ list'[j].mark = list'[k].mark /\ target = "apple" /\ list'[k].id \in taken'
  <2>1. /\ place[j] \in DOMAIN list /\ place[k] \in DOMAIN list /\ place[j] < place[k]
        /\ list'[j] = list[place[j]] /\ list'[k] = list[place[k]]
    BY <1>1, <1>2, <1>5
  <2>2. QED
    BY <1>1, <1>5, <2>1 DEF MarksInOrder
<1>6. Steady' <=> Steady
  BY DEF Steady
<1>7. QED
  BY <1>3, <1>4, <1>5, <1>6 DEF MarksInOrder, Resending

\* An appended entry comes after all others in its mark, too.
LEMMA GrownMarks ==
  ASSUME WriteInv, Active, Grown
  PROVE  MarksInOrder'
<1>1. TypeOK /\ PlanInShape /\ MarksInOrder /\ DueOnce /\ list \in Seq(Entry) /\ target' = target
      /\ taken' = taken /\ DOMAIN list = 1..Len(list)
  BY DEF WriteInv, TypeOK, Grown
<1>2. list' \in Seq(Entry) /\ seen \subseteq seen' /\ landed \subseteq landed'
  BY GrownTypes
<1>3. CASE list' = list
  BY <1>1, <1>2, <1>3 DEF MarksInOrder, Steady, Resending
<1>4. CASE Applies /\ req.do # "put"
  <2>1. PICK place \in [1..Len(list') -> 1..Len(list)] : Shrinks(list, list', place)
    BY <1>4, OtherGrown
  <2>2. landed' = landed
    BY <1>4, OtherGrown
  <2>3. QED
    BY <1>1, <1>2, <2>1, <2>2, MarksShrink
<1>5. CASE Applies /\ req.do = "put" /\ list' # list
  <2> DEFINE n == Len(list)
  <2>1. /\ Len(list') = n + 1 /\ list'[n + 1] = [id |-> call.id, mark |-> req.nth]
        /\ landed' = landed \cup {req.nth} /\ call.id \in seen'
        /\ \A j \in 1..n : list'[j] = list[j]
    BY <1>5, PutGrown
  <2>2. n \in Nat /\ DOMAIN list' = 1..(n + 1) /\ \A j \in 1..(n + 1) : j \in 1..n \/ j = n + 1
    BY <1>1, <1>2, <2>1
  <2>3. Sending /\ call.id \notin Gone
    BY <1>5 DEF Applies, Refuses
  <2>4. list'[n + 1].id = call.id /\ list'[n + 1].mark = req.nth
    BY <2>1
  <2> HIDE DEF n
  <2>5. \A j \in DOMAIN list' : list'[j].mark > 0 => list'[j].mark \in landed'
    BY <1>1, <2>1, <2>2, <2>4 DEF MarksInOrder, n
  <2>6. \A j \in DOMAIN list' : list'[j].id \notin Gone /\ (Active' => list'[j].id \in seen')
    BY <1>1, <1>2, <2>1, <2>2, <2>3, <2>4 DEF MarksInOrder, n
  <2>7. req = call.todo[1] /\ 1 \in DOMAIN call.todo /\ req.nth \in Nat
    BY <1>1, ReqFacts
  <2>8. ASSUME Steady, target \notin Resending, NEW j \in 1..n, list[j].mark > 0
        PROVE  \/ list[j].mark < req.nth
               \/ list[j].mark = req.nth /\ target = "apple" /\ call.id \in taken
    <3>1. list[j].mark \in landed
      BY <1>1, <2>8 DEF MarksInOrder, n
    <3>2. list[j].mark < req.nth \/ list[j].mark = req.nth
      BY <1>1, <1>5, <2>7, <3>1 DEF PlanInShape, Asked
    <3>3. CASE list[j].mark = req.nth
      <4>1. target = "apple"
        BY <1>1, <1>5, <2>8, <3>1, <3>3 DEF DueOnce
      <4>2. call.id \in taken
        BY <1>1, <2>3, <2>8, <3>1, <3>3, <4>1 DEF DueOnce, Sending
      <4>3. QED
        BY <3>3, <4>1, <4>2
    <3>4. QED
      BY <3>2, <3>3
  <2>9. ASSUME Steady, target \notin Resending,
               NEW j \in 1..(n + 1), NEW k \in 1..(n + 1), j < k, list'[j].mark > 0, list'[k].mark > 0
        PROVE  \/ list'[j].mark < list'[k].mark
               \/ list'[j].mark = list'[k].mark /\ target = "apple" /\ list'[k].id \in taken
    <3>1. j \in 1..n /\ list'[j] = list[j]
      BY <2>1, <2>2, <2>9
    <3>2. CASE k \in 1..n
      <4>1. list'[k] = list[k]
        BY <2>1, <3>2
      <4>2. QED
        BY <1>1, <2>9, <3>1, <3>2, <4>1 DEF MarksInOrder, n
    <3>3. CASE k = n + 1
      BY <2>4, <2>8, <2>9, <3>1, <3>3
    <3>4. QED
      BY <2>2, <3>2, <3>3
  <2>10. Steady' <=> Steady
    BY <1>1 DEF Steady
  <2>11. QED
    BY <1>1, <2>2, <2>5, <2>6, <2>9, <2>10 DEF MarksInOrder, Resending
<1>6. QED
  BY <1>3, <1>4, <1>5 DEF Grown

\* The copies of each id after such a step.
LEMMA GrownCounts ==
  ASSUME WriteInv, Active, Grown, NEW i \in Id
  PROVE  /\ CountIn(list, StayingOf(i)) \in Nat /\ CountIn(list', StayingOf(i)) \in Nat
         /\ CountIn(list, OwnOf(i)) \in Nat /\ CountIn(list', OwnOf(i)) \in Nat
         /\ Copies(list, i) \in Nat /\ Copies(list', i) \in Nat
         /\ target \notin Deezers => CountIn(list', StayingOf(i)) >= CountIn(list, StayingOf(i))
         /\ req.do = "put" => /\ CountIn(list', OwnOf(i)) >= CountIn(list, OwnOf(i))
                              /\ Copies(list', i) >= Copies(list, i)
         /\ req.do = "put" /\ list' # list => Copies(list', call.id) > Copies(list, call.id)
         /\ req.do = "put" /\ Applies /\ target \in Deezers =>
              CountIn(list', OwnOf(i)) = CountIn(list, OwnOf(i)) + IF i = call.id THEN 1 ELSE 0
         /\ req.do = "wipe" /\ i # req.id => CountIn(list', OwnOf(i)) = CountIn(list, OwnOf(i))
<1>1. TypeOK /\ PlanInShape /\ list \in Seq(Entry) /\ list' \in Seq(Entry)
  BY GrownTypes DEF WriteInv, TypeOK
<1>2. req.do \in {"put", "cut", "sweep", "wipe"} /\ call.id \in Id
  BY <1>1, ReqFacts
<1>3. /\ CountIn(list, StayingOf(i)) \in Nat /\ CountIn(list', StayingOf(i)) \in Nat
      /\ CountIn(list, OwnOf(i)) \in Nat /\ CountIn(list', OwnOf(i)) \in Nat
  BY <1>1, CountFacts
<1>4. \A j \in Id : Copies(list, j) = CountIn(list, EntriesOf(j)) /\ Copies(list, j) \in Nat
                    /\ Copies(list', j) = CountIn(list', EntriesOf(j)) /\ Copies(list', j) \in Nat
  BY <1>1, CopiesCounted
<1>5. CASE list' = list /\ ~Applies
  BY <1>2, <1>3, <1>4, <1>5
<1>6. CASE Applies /\ req.do = "put"
  <2> DEFINE e == [id |-> call.id, mark |-> req.nth]
  <2>1. e.id = call.id /\ e.mark = req.nth /\ req.nth \in Nat
    BY <1>1, ReqFacts
  <2>2. CASE list' = list
    <3>1. target \notin Deezers
      BY <1>6, <2>2, PutGrown, <1>1 DEF Suppressing, Deezers
    <3>2. QED
      BY <1>3, <1>4, <1>6, <2>2, <3>1
  <2>3. CASE list' # list
    <3>1. e \in Entry /\ list' = Append(list, e)
      BY <1>6, <2>3, PutGrown
    <3> HIDE DEF e
    <3>2. \A E : CountIn(list', E) = CountIn(list, E) + IF e \in E THEN 1 ELSE 0
      BY <1>1, <3>1, CountAppend
    <3>3. /\ e \in OwnOf(i) <=> i = call.id
          /\ e \in EntriesOf(i) <=> i = call.id
          /\ e \in EntriesOf(call.id)
      BY <2>1, <3>1, EntryFacts
    <3>4. /\ CountIn(list', OwnOf(i)) = CountIn(list, OwnOf(i)) + IF i = call.id THEN 1 ELSE 0
          /\ CountIn(list', StayingOf(i)) >= CountIn(list, StayingOf(i))
          /\ CountIn(list', EntriesOf(i)) >= CountIn(list, EntriesOf(i))
          /\ CountIn(list', EntriesOf(call.id)) = CountIn(list, EntriesOf(call.id)) + 1
      BY <1>2, <1>3, <1>4, <3>2, <3>3
    <3>5. QED
      BY <1>2, <1>3, <1>4, <1>6, <3>4
  <2>4. QED
    BY <2>2, <2>3
<1>7. CASE Applies /\ req.do \in {"cut", "sweep"}
  <2>1. CountIn(Effect, StayingOf(i)) = CountIn(list, StayingOf(i)) /\ list' = Effect
    BY <1>1, <1>7, EffectCases DEF Applies, Apply
  <2>2. QED
    BY <1>3, <1>4, <1>7, <2>1
<1>8. CASE Applies /\ req.do = "wipe"
  <2>1. i # req.id => CountIn(Effect, OwnOf(i)) = CountIn(list, OwnOf(i))
    BY <1>1, <1>8, EffectCases
  <2>2. list' = Effect
    BY <1>8 DEF Applies, Apply
  <2>3. target \in Deezers
    <3>1. 1 \in DOMAIN call.todo /\ req = call.todo[1]
      BY <1>1, ReqFacts
    <3>2. QED
      BY <1>1, <1>8, <3>1 DEF PlanInShape, Asked
  <2>4. QED
    BY <1>3, <1>4, <1>8, <2>1, <2>2, <2>3
<1>9. QED
  BY <1>2, <1>5, <1>6, <1>7, <1>8 DEF Grown

-----------------------------------------------------------------------------
\* What becomes of a call: it keeps what it has learnt, and waits on, ends or moves on.
Carries(c) ==
  /\ call' \in WriteCall
  /\ call'.kind = c.kind /\ call'.plan = c.plan /\ call'.keep = c.keep /\ call'.counts = c.counts
  /\ call'.ok = c.ok /\ call'.unrestored = c.unrestored /\ call'.givenup = c.givenup

Stopped(c) == Carries(c) /\ call'.phase = "idle" /\ call'.todo = <<>> /\ call'.result = "raised"

Waits(c) ==
  /\ Carries(c) /\ call'.todo = c.todo /\ call'.phase # "idle"
  /\ call'.phase = "verify" => target = "apple"

Asks(c) ==
  /\ Waits(c) /\ call'.id = c.id /\ call'.base = c.base /\ call'.before = c.before
  /\ (c.fixed => call'.fixed) /\ (call'.bad => c.bad \/ c.id \in Gone)

MovesOn(c, w) ==
  /\ Carries(c) /\ call'.todo = Tail(c.todo)
  /\ Tail(c.todo) = <<>> =>
       call'.phase = "idle" /\ call'.result = IF c.unrestored # {} THEN "raised" ELSE "done"
  /\ Tail(c.todo) # <<>> =>
       /\ call'.phase = "send" /\ ~call'.fixed /\ ~call'.bad
       /\ call'.id = IF target = "apple" THEN w[call'.todo[1].id] ELSE call'.todo[1].id
       /\ call'.base = c.counts[call'.id] /\ call'.before = c.counts[call'.id]

LEMMA StopShape ==
  ASSUME NEW c \in WriteCall, Stop(c)
  PROVE  Stopped(c)
<1>1. call' = [c EXCEPT !.phase = "idle", !.todo = <<>>, !.result = "raised"]
  BY DEF Stop
<1>2. <<>> \in Seq(Request)
  OBVIOUS
<1>3. call' \in WriteCall
  BY <1>1, <1>2 DEF WriteCall
<1>4. QED
  BY <1>1, <1>3 DEF WriteCall, Stopped, Carries

LEMMA AgainShape ==
  ASSUME NEW c \in WriteCall, Again(c), c.phase = "send"
  PROVE  Stopped(c) \/ (Asks(c) /\ call'.phase = "send")
<1>1. CASE call' = [c EXCEPT !.tries = @ + 1]
  <2>1. c.tries + 1 \in Nat
    BY DEF WriteCall
  <2>2. call' \in WriteCall
    BY <1>1, <2>1 DEF WriteCall
  <2>3. QED
    BY <1>1, <2>2 DEF WriteCall, Asks, Waits, Carries
<1>2. CASE Stop(c)
  BY <1>2, StopShape
<1>3. QED
  BY <1>1, <1>2 DEF Again

LEMMA CurrentShape ==
  ASSUME NEW c \in WriteCall, NEW d \in Seq(Request), d # <<>>, NEW w \in [Id -> Id], call' = Current(c, d, w)
  PROVE  /\ call' \in WriteCall
         /\ call'.kind = c.kind /\ call'.plan = c.plan /\ call'.keep = c.keep /\ call'.counts = c.counts
         /\ call'.ok = c.ok /\ call'.unrestored = c.unrestored /\ call'.givenup = c.givenup
         /\ call'.todo = d /\ call'.phase = "send" /\ ~call'.fixed /\ ~call'.bad
         /\ call'.id = IF target = "apple" THEN w[d[1].id] ELSE d[1].id
         /\ call'.base = c.counts[call'.id] /\ call'.before = c.counts[call'.id]
<1> DEFINE i == IF target = "apple" THEN w[Head(d).id] ELSE Head(d).id
           b == c.counts[i]
<1>1. Head(d) = d[1] /\ d[1] \in Request /\ d[1].id \in Id
  <2>1. Head(d) = d[1] /\ d[1] \in Request
    BY CountTail
  <2>2. QED
    BY <2>1, RequestFields
<1>2. c.counts \in [Id -> Nat]
  BY CallFields
<1>3. i = IF target = "apple" THEN w[d[1].id] ELSE d[1].id
  BY <1>1
<1>4. i \in Id /\ b \in Nat
  BY <1>1, <1>2
<1>5. call' = [c EXCEPT !.todo = d, !.id = i, !.phase = "send", !.tries = 0, !.checks = 0,
                        !.renewed = FALSE, !.fixed = FALSE, !.bad = FALSE, !.base = b, !.before = b]
  BY DEF Current
<1> HIDE DEF b
<1> HIDE DEF i
<1>6. 0 \in 0..2 /\ 0 \in Nat
  OBVIOUS
<1>7. call' \in WriteCall
  BY <1>4, <1>5, <1>6, ZenonT(40) DEF WriteCall
<1>8. /\ call'.kind = c.kind /\ call'.plan = c.plan /\ call'.keep = c.keep /\ call'.counts = c.counts
      /\ call'.ok = c.ok /\ call'.unrestored = c.unrestored /\ call'.givenup = c.givenup
      /\ call'.todo = d /\ call'.phase = "send" /\ ~call'.fixed /\ ~call'.bad /\ call'.id = i
      /\ call'.base = b /\ call'.before = b
  BY <1>5 DEF WriteCall
<1>9. QED
  BY <1>3, <1>7, <1>8 DEF b

LEMMA ProceedShape ==
  ASSUME NEW c \in WriteCall, c.todo # <<>>, NEW w \in [Id -> Id], Proceed(c, w)
  PROVE  MovesOn(c, w)
<1>1. /\ c.todo \in Seq(Request) /\ Len(c.todo) \in Nat /\ Len(c.todo) >= 1
      /\ Tail(c.todo) \in Seq(Request) /\ Len(Tail(c.todo)) = Len(c.todo) - 1
  BY CallFields, CountTail
<1>2. CASE Len(c.todo) > 1
  <2> DEFINE d == Tail(c.todo)
  <2>1. d \in Seq(Request) /\ Len(d) >= 1
    BY <1>1, <1>2
  <2>2. call' = Current(c, d, w)
    BY <1>2 DEF Proceed
  <2>3. d # <<>>
    <3> HIDE DEF d
    <3>1. d = <<>> => Len(d) = 0
      OBVIOUS
    <3>2. QED
      BY <2>1, <3>1
  <2> HIDE DEF d
  <2>4. /\ call' \in WriteCall
        /\ call'.kind = c.kind /\ call'.plan = c.plan /\ call'.keep = c.keep /\ call'.counts = c.counts
        /\ call'.ok = c.ok /\ call'.unrestored = c.unrestored /\ call'.givenup = c.givenup
        /\ call'.todo = d /\ call'.phase = "send" /\ ~call'.fixed /\ ~call'.bad
        /\ call'.id = IF target = "apple" THEN w[d[1].id] ELSE d[1].id
        /\ call'.base = c.counts[call'.id] /\ call'.before = c.counts[call'.id]
    BY <2>1, <2>2, <2>3, CurrentShape
  <2>5. QED
    BY <2>3, <2>4 DEF MovesOn, Carries, d
<1>3. CASE ~(Len(c.todo) > 1)
  <2>1. Tail(c.todo) = <<>>
    BY <1>1, <1>3
  <2>2. call' = [c EXCEPT !.phase = "idle", !.todo = <<>>,
                          !.result = IF c.unrestored # {} THEN "raised" ELSE "done"]
    BY <1>3 DEF Proceed
  <2>3. <<>> \in Seq(Request)
    OBVIOUS
  <2>4. call' \in WriteCall
    BY <2>2, <2>3 DEF WriteCall
  <2>5. QED
    BY <2>1, <2>2, <2>4, ZenonT(40) DEF WriteCall, MovesOn, Carries
<1>4. QED
  BY <1>2, <1>3

\* A call's plan is only extended, and what it had to leave undone is not forgotten.
Extends ==
  /\ call' \in WriteCall
  /\ call'.kind = call.kind /\ call.unrestored \subseteq call'.unrestored
  /\ Len(call.plan) <= Len(call'.plan)
  /\ \A j \in 1..Len(call.plan) : call'.plan[j] = call.plan[j]

\* Apple's client learns an id for one asked for when the playlist has it.
AliasSound ==
  /\ alias' \in [Id -> Id]
  /\ \/ alias' = alias
     \/ /\ target = "apple" /\ alias' = [alias EXCEPT ![req.id] = call.id]
        /\ call.id \in seen' /\ call.id \notin Gone

LEMMA AccountedStays ==
  ASSUME WriteInv, Active, Grown, Extends, AliasSound, NEW j \in 1..Len(call.plan), Accounted(j)
  PROVE  Accounted(j)'
<1>1. /\ landed \subseteq landed' /\ seen \subseteq seen' /\ target' = target /\ call'.kind = call.kind
      /\ call'.plan[j] = call.plan[j] /\ call.unrestored \subseteq call'.unrestored
  BY GrownTypes DEF Grown, Extends
<1>2. call.plan[j].id \in Id
  <2>1. call.plan \in Seq(Request)
    BY CallFields DEF WriteInv, TypeOK
  <2>2. QED
    BY <2>1, RequestFields
<1>3. \A i \in Id : HadIt(i) => HadIt(i)'
  BY <1>1 DEF HadIt
<1>4. ASSUME NEW i \in Id, HadIt(alias[i]) PROVE (HadIt(alias[i]))'
  <2>1. alias \in [Id -> Id] /\ req.id \in Id /\ call.id \in Id
    BY ReqFacts DEF WriteInv, TypeOK
  <2>2. CASE alias' = alias
    BY <1>3, <1>4, <2>1, <2>2
  <2>3. CASE alias' # alias /\ i = req.id
    <3>1. alias'[i] = call.id /\ call.id \in seen' /\ target = "apple"
      BY <2>1, <2>3 DEF AliasSound
    <3>2. QED
      BY <1>1, <3>1 DEF HadIt
  <2>4. CASE alias' # alias /\ i # req.id
    <3>1. alias'[i] = alias[i]
      BY <2>1, <2>4 DEF AliasSound
    <3>2. QED
      BY <1>3, <1>4, <2>1, <3>1
  <2>5. QED
    BY <2>2, <2>3, <2>4
<1>5. QED
  BY <1>1, <1>2, <1>3, <1>4 DEF Accounted

\* Nothing is passed over: what comes before a landed request is done with.
LEMMA GrownPassed ==
  ASSUME WriteInv, Active, Grown, Extends, AliasSound
  PROVE  NothingPassedOver'
<1> SUFFICES ASSUME Steady', NEW k \in landed', NEW j \in 1..(k - 1), call'.plan[j].do = "put"
             PROVE  Accounted(j)'
  BY DEF NothingPassedOver, Accounted
<1>1. TypeOK /\ PlanInShape /\ NothingPassedOver /\ AllAccounted
  BY DEF WriteInv
<1>2. Steady
  BY DEF Grown, Steady
<1>3. k \in 1..Len(call.plan) /\ call.plan \in Seq(Request)
  <2>1. call.plan \in Seq(Request)
    BY <1>1, CallFields DEF TypeOK
  <2>2. QED
    BY <2>1, GrownTypes
<1>4. j \in 1..Len(call.plan) /\ j < k /\ j \in Nat /\ k \in Nat
  <2>1. Len(call.plan) \in Nat
    BY <1>3
  <2>2. QED
    BY <1>3, <2>1
<1>5. call.plan[j].do = "put"
  BY <1>4 DEF Extends
<1>6. CASE k \in landed
  <2>1. Accounted(j)
    BY <1>1, <1>2, <1>5, <1>6 DEF NothingPassedOver, Accounted
  <2>2. QED
    BY <1>4, <2>1, AccountedStays
<1>7. CASE k \notin landed
  <2>1. k = req.nth /\ req.do = "put"
    BY <1>7, GrownTypes
  <2>2. /\ req = call.todo[1] /\ 1 \in DOMAIN call.todo /\ DOMAIN call.todo = 1..Len(call.todo)
        /\ Len(call.todo) \in Nat
    BY <1>1, ReqFacts
  <2>3. ASSUME NEW n \in DOMAIN call.todo, Asked(n), call.todo[n].nth = j PROVE FALSE
    <3>1. n # 1
      BY <1>4, <2>1, <2>2, <2>3
    <3>2. 1 < n
      BY <2>2, <3>1
    <3>3. call.todo[1].nth < call.todo[n].nth
      BY <1>1, <2>2, <2>3, <3>2 DEF PlanInShape
    <3>4. QED
      BY <1>4, <2>1, <2>2, <2>3, <3>3
  <2>4. Accounted(j)
    BY <1>1, <1>2, <1>3, <1>4, <1>5, <2>3 DEF AllAccounted
  <2>5. QED
    BY <1>4, <2>4, AccountedStays
<1>8. QED
  BY <1>6, <1>7

\* The requests of a plan that are not done with yet are still to be sent.
LEMMA GrownAccounted ==
  ASSUME WriteInv, Active, Grown, Extends, AliasSound,
         \A j \in DOMAIN call'.plan : j \notin DOMAIN call.plan /\ call'.plan[j].do = "put" =>
           \E n \in DOMAIN call'.todo : Asked(n)' /\ call'.todo[n].nth = j,
         Steady /\ Active' =>
           \A n \in DOMAIN call.todo : \A j \in 1..Len(call.plan) : Asked(n) /\ call.todo[n].nth = j =>
             \/ Accounted(j)'
             \/ \E m \in DOMAIN call'.todo : Asked(m)' /\ call'.todo[m].nth = j
  PROVE  AllAccounted'
<1> SUFFICES ASSUME Steady', Active', NEW j \in DOMAIN call'.plan, call'.plan[j].do = "put"
             PROVE  Accounted(j)' \/ \E n \in DOMAIN call'.todo : Asked(n)' /\ call'.todo[n].nth = j
  BY DEF AllAccounted
<1>1. AllAccounted /\ Steady /\ call.plan \in Seq(Request)
  BY CallFields DEF WriteInv, TypeOK, Grown, Steady
<1>2. CASE j \notin DOMAIN call.plan
  BY <1>2
<1>3. CASE j \in DOMAIN call.plan
  <2>1. j \in 1..Len(call.plan)
    BY <1>1, <1>3
  <2>2. call.plan[j].do = "put"
    BY <2>1 DEF Extends
  <2>3. CASE Accounted(j)
    BY <2>1, <2>3, AccountedStays
  <2>4. CASE \E n \in DOMAIN call.todo : Asked(n) /\ call.todo[n].nth = j
    BY <1>1, <2>1, <2>4
  <2>5. QED
    BY <1>1, <1>3, <2>2, <2>3, <2>4 DEF AllAccounted
<1>4. QED
  BY <1>2, <1>3

\* What a call has written the playlist has had.
LEMMA GrownConfirmed ==
  ASSUME WriteInv, Active, Grown, call'.kind = call.kind,
         \A w \in call'.ok : w \notin call.ok => w[1] = req.nth /\ w[2] = call.id,
         NEW i \in Id, i = call.id,
         call'.ok # call.ok => req.nth \in landed' \/ HadIt(i)'
  PROVE  ConfirmedIsThere'
<1>1. /\ landed \subseteq landed' /\ seen \subseteq seen' /\ target' = target /\ ConfirmedIsThere
  BY GrownTypes DEF Grown, WriteInv
<1>2. \A w \in call.ok : w[1] \in landed' \/ HadIt(w[2])'
  BY <1>1 DEF ConfirmedIsThere, HadIt
<1>3. ASSUME NEW v \in call'.ok, v \notin call.ok PROVE v[1] \in landed' \/ HadIt(v[2])'
  <2>1. call'.ok # call.ok /\ v[1] = req.nth /\ v[2] = i
    BY <1>3
  <2>2. req.nth \in landed' \/ HadIt(i)'
    BY <2>1
  <2>3. QED
    BY <2>1, <2>2
<1>4. QED
  BY <1>2, <1>3 DEF ConfirmedIsThere

\* The shape of what is left to do, while a request waits and when a call ends.
LEMMA PlanWaits ==
  ASSUME WriteInv, Active, Grown, Waits(call), target # "apple" => call'.id = call.id
  PROVE  PlanInShape'
<1>1. PlanInShape /\ TypeOK /\ target' = target
  BY DEF WriteInv, Grown
<1>2. /\ req = call.todo[1] /\ call.todo # <<>> /\ 1 \in DOMAIN call.todo /\ req.nth \in Nat
      /\ DOMAIN call.todo = 1..Len(call.todo) /\ Len(call.todo) \in Nat
  BY <1>1, ReqFacts
<1>3. call'.todo = call.todo /\ call'.plan = call.plan /\ call'.kind = call.kind /\ req' = req
  BY DEF Waits, Carries, req
<1>4. Active' /\ Active
  BY DEF Waits, Active
<1>5. ASSUME NEW k \in landed', NEW n \in DOMAIN call.todo, Asked(n)
      PROVE  k < call.todo[n].nth \/ (n = 1 /\ k = call.todo[1].nth)
  <2>1. CASE k \in landed
    BY <1>1, <1>5, <2>1 DEF PlanInShape
  <2>2. CASE k = req.nth /\ n # 1
    <3>1. 1 < n
      BY <1>2, <2>2
    <3>2. QED
      BY <1>1, <1>2, <1>5, <2>2, <3>1 DEF PlanInShape
  <2>3. CASE k = req.nth /\ n = 1
    BY <1>2, <2>3
  <2>4. QED
    BY <2>1, <2>2, <2>3, GrownTypes
<1>6. \A n : Asked(n)' <=> Asked(n)
  BY <1>3 DEF Asked
<1>7. landed' \subseteq DOMAIN call.plan
  BY GrownTypes
<1>8. QED
  BY <1>1, <1>2, <1>3, <1>4, <1>5, <1>6, <1>7 DEF PlanInShape

LEMMA PlanStops ==
  ASSUME WriteInv, Active, Grown, Stopped(call)
  PROVE  PlanInShape'
<1>1. call'.todo = <<>> /\ DOMAIN call'.todo = {} /\ ~Active' /\ target' = target
      /\ call'.plan = call.plan /\ call'.kind = call.kind
  BY DEF Stopped, Carries, Active, Grown
<1>2. landed' \subseteq DOMAIN call.plan /\ (call.kind = "drop" => target # "apple")
  BY GrownTypes DEF WriteInv, PlanInShape
<1>3. QED
  BY <1>1, <1>2 DEF PlanInShape

\* What is left after the first request, or a part of it.
LEMMA PlanMoves ==
  ASSUME WriteInv, Active, Grown, NEW c \in WriteCall, NEW w \in [Id -> Id], MovesOn(c, w),
         c.plan = call.plan, c.kind = call.kind,
         NEW place \in [1..Len(call'.todo) -> 2..Len(call.todo)], Shrinks(call.todo, call'.todo, place)
  PROVE  /\ PlanInShape'
         /\ \A k \in landed' : \A n \in DOMAIN call'.todo : Asked(n)' => k < call'.todo[n].nth
<1>1. PlanInShape /\ TypeOK /\ target' = target
  BY DEF WriteInv, Grown
<1>2. /\ req = call.todo[1] /\ 1 \in DOMAIN call.todo /\ req.nth \in Nat
      /\ DOMAIN call.todo = 1..Len(call.todo) /\ Len(call.todo) \in Nat
  BY <1>1, ReqFacts
<1>3. /\ call'.todo \in Seq(Request) /\ call'.plan = call.plan /\ call'.kind = call.kind
      /\ call'.todo = Tail(c.todo)
      /\ DOMAIN call'.todo = 1..Len(call'.todo) /\ Len(call'.todo) \in Nat
  <2>1. call' \in WriteCall /\ call'.plan = call.plan /\ call'.kind = call.kind
        /\ call'.todo = Tail(c.todo)
    BY DEF MovesOn, Carries
  <2>2. call'.todo \in Seq(Request)
    BY <2>1, CallFields
  <2>3. QED
    BY <2>1, <2>2
<1>4. /\ \A n \in 1..Len(call'.todo) :
           call'.todo[n] = call.todo[place[n]] /\ place[n] \in DOMAIN call.todo /\ place[n] \in Int /\ 1 < place[n]
      /\ \A m, n \in 1..Len(call'.todo) : m < n => place[m] < place[n]
  <2>1. /\ \A n \in 1..Len(call'.todo) : call'.todo[n] = call.todo[place[n]]
        /\ \A m, n \in 1..Len(call'.todo) : m < n => place[m] < place[n]
    BY DEF Shrinks
  <2>2. \A n \in 1..Len(call'.todo) : place[n] \in 2..Len(call.todo)
    OBVIOUS
  <2>3. \A m \in 2..Len(call.todo) : m \in DOMAIN call.todo /\ m \in Int /\ 1 < m
    BY <1>2
  <2>4. QED
    BY <2>1, <2>2, <2>3
<1>5. \A n \in 1..Len(call'.todo) : Asked(n)' <=> Asked(place[n])
  BY <1>4 DEF Asked
<1>6. /\ Active' <=> call'.todo # <<>>
      /\ Active' /\ target # "apple" => call'.id = req'.id
  <2>1. Active' <=> call'.todo # <<>>
    BY <1>3 DEF MovesOn, Active
  <2>2. ASSUME Active', target # "apple" PROVE call'.id = req'.id
    <3>1. call'.todo # <<>> /\ Head(call'.todo) = call'.todo[1]
      BY <1>3, <2>1, <2>2, CountTail
    <3>2. call'.id = call'.todo[1].id
      BY <1>3, <2>2, <3>1 DEF MovesOn
    <3>3. QED
      BY <3>1, <3>2 DEF req
  <2>3. QED
    BY <2>1, <2>2
<1>7. call'.kind # "drop" => \A n \in DOMAIN call'.todo : Asked(n)'
  BY <1>1, <1>3, <1>4, <1>5 DEF PlanInShape
<1>8. ASSUME NEW n \in DOMAIN call'.todo, ~Asked(n)'
      PROVE  call'.todo[n].do = "wipe" <=> target \in Deezers
  <2>1. ~Asked(place[n]) /\ place[n] \in DOMAIN call.todo /\ call'.todo[n] = call.todo[place[n]]
    BY <1>3, <1>4, <1>5, <1>8
  <2>2. QED
    BY <1>1, <2>1 DEF PlanInShape
<1>9. \A n \in DOMAIN call'.todo : Asked(n)' =>
         call'.todo[n].nth \in DOMAIN call'.plan /\ call'.plan[call'.todo[n].nth] = call'.todo[n]
  BY <1>1, <1>3, <1>4, <1>5 DEF PlanInShape
<1>10. ASSUME NEW m \in DOMAIN call'.todo, NEW n \in DOMAIN call'.todo, m < n
       PROVE  /\ Asked(n)' => Asked(m)'
              /\ Asked(n)' => call'.todo[m].nth < call'.todo[n].nth
  <2>1. place[m] \in DOMAIN call.todo /\ place[n] \in DOMAIN call.todo /\ place[m] < place[n]
        /\ call'.todo[m] = call.todo[place[m]] /\ call'.todo[n] = call.todo[place[n]]
    BY <1>3, <1>4, <1>10
  <2>2. QED
    BY <1>1, <1>3, <1>5, <2>1, SMTT(40) DEF PlanInShape
<1>11. ASSUME NEW m \in DOMAIN call'.todo, NEW n \in DOMAIN call'.todo, m # n,
              call'.todo[m].do = "wipe", call'.todo[n].do = "wipe"
       PROVE  call'.todo[m].id # call'.todo[n].id
  <2>1. place[m] # place[n]
    <3>1. m < n \/ n < m
      BY <1>3, <1>11
    <3>2. place[m] < place[n] \/ place[n] < place[m]
      BY <1>3, <1>4, <3>1
    <3>3. QED
      BY <1>3, <1>4, <3>2
  <2>2. place[m] \in DOMAIN call.todo /\ place[n] \in DOMAIN call.todo
        /\ call'.todo[m] = call.todo[place[m]] /\ call'.todo[n] = call.todo[place[n]]
    BY <1>3, <1>4
  <2>3. QED
    BY <1>1, <1>11, <2>1, <2>2 DEF PlanInShape
<1>12. ASSUME NEW k \in landed', NEW n \in DOMAIN call'.todo, Asked(n)'
       PROVE  k < call'.todo[n].nth
  <2>1. Asked(place[n]) /\ place[n] \in DOMAIN call.todo /\ 1 < place[n] /\ call'.todo[n] = call.todo[place[n]]
    BY <1>3, <1>4, <1>5, <1>12
  <2>2. CASE k \in landed
    BY <1>1, <2>1, <2>2 DEF PlanInShape
  <2>3. CASE k = req.nth
    BY <1>1, <1>2, <2>1, <2>3 DEF PlanInShape
  <2>4. QED
    BY <2>2, <2>3, GrownTypes
<1>13. landed' \subseteq DOMAIN call'.plan
  BY <1>3, GrownTypes
<1>14. call'.kind = "drop" => target # "apple"
  BY <1>1, <1>3 DEF PlanInShape
<1>15. PlanInShape'
  BY <1>1, <1>6, <1>7, <1>8, <1>9, <1>10, <1>11, <1>12, <1>13, <1>14 DEF PlanInShape
<1>16. QED
  BY <1>12, <1>15

-----------------------------------------------------------------------------
\* Apple's requests are all appends, and their answers are looked for.
LEMMA AppleAsks ==
  ASSUME WriteInv, Active, target = "apple"
  PROVE  /\ req.do = "put" /\ req.nth \in Nat /\ req.nth > 0 /\ req.id \in Id /\ call.id \in Id
         /\ call.kind # "drop" /\ target \notin Resending /\ target \notin Suppressing
<1>1. TypeOK /\ PlanInShape
  BY DEF WriteInv
<1>2. /\ req = call.todo[1] /\ 1 \in DOMAIN call.todo /\ req.nth \in Nat /\ req.id \in Id /\ call.id \in Id
  BY <1>1, ReqFacts
<1>3. call.kind # "drop" /\ Asked(1)
  BY <1>1, <1>2 DEF PlanInShape
<1>4. req.nth \in DOMAIN call.plan
  BY <1>1, <1>2, <1>3 DEF PlanInShape, Asked
<1>5. req.nth > 0
  <2>1. call.plan \in Seq(Request)
    BY <1>1, CallFields DEF TypeOK
  <2>2. QED
    BY <1>2, <1>4, <2>1
<1>6. target \notin Resending /\ target \notin Suppressing
  BY DEF Resending, Suppressing, Clients, AppleClient, Client
<1>7. QED
  BY <1>2, <1>3, <1>5, <1>6 DEF Asked

\* While a request waits: it has not landed, or the client cannot tell.
LEMMA DueWaits ==
  ASSUME WriteInv, Active, Grown, Asks(call),
         target # "apple" /\ target \notin Resending => landed' = landed,
         target = "apple" /\ Applies => call'.phase = "verify",
         target = "apple" /\ call.phase = "verify" /\ call'.phase # "verify" =>
           Copies(list, call.id) <= call.before
  PROVE  DueOnce'
<1>1. TypeOK /\ DueOnce /\ MarksInOrder /\ AppleCounts /\ target' = target /\ taken' = taken
      /\ list \in Seq(Entry) /\ DOMAIN list = 1..Len(list)
  BY DEF WriteInv, Grown, TypeOK
<1>2. req' = req /\ call'.id = call.id /\ call'.before = call.before
  BY DEF Asks, Waits, req
<1>3. Steady' = Steady /\ Resending' = Resending
  BY <1>1 DEF Steady, Resending
<1>4. ASSUME Steady, target \notin Resending, target # "apple", req.do = "put"
      PROVE  req.nth \notin landed'
  BY <1>1, <1>4 DEF DueOnce
<1>5. ASSUME Steady, target = "apple", req.nth \in landed'
      PROVE  /\ call.id \notin Gone
             /\ \A j \in DOMAIN list' : list'[j].mark = req.nth => list'[j].id = call.id
             /\ call.id \in taken \/ (call'.phase = "verify" /\ Copies(list', call.id) > call.before)
  <2>0. /\ req.do = "put" /\ req.nth \in Nat /\ req.nth > 0 /\ call.id \in Id
        /\ target \notin Resending /\ target \notin Suppressing
    BY <1>5, AppleAsks
  <2>1. CASE Applies
    <3> DEFINE n == Len(list)
    <3>1. /\ Len(list') = n + 1 /\ list'[n + 1] = [id |-> call.id, mark |-> req.nth]
          /\ \A j \in 1..n : list'[j] = list[j]
      BY <2>0, <2>1, PutGrown
    <3>2. call.id \notin Gone
      BY <2>0, <2>1 DEF Applies, Refuses
    <3>3. DOMAIN list' = 1..(n + 1) /\ n \in Nat
      <4>1. list' \in Seq(Entry)
        BY GrownTypes
      <4>2. QED
        BY <1>1, <3>1, <4>1
    <3>4. ASSUME NEW j \in DOMAIN list', list'[j].mark = req.nth PROVE list'[j].id = call.id
      <4>1. CASE j \in 1..n
        <5>1. list[j].mark = req.nth /\ list'[j] = list[j]
          BY <3>1, <3>4, <4>1
        <5>2. req.nth \in landed
          BY <1>1, <2>0, <4>1, <5>1 DEF MarksInOrder
        <5>3. QED
          BY <1>1, <1>5, <2>0, <4>1, <5>1, <5>2 DEF DueOnce
      <4>2. CASE j = n + 1
        BY <3>1, <4>2
      <4>3. QED
        BY <3>3, <4>1, <4>2
    <3>5. Copies(list', call.id) > Copies(list, call.id) /\ Copies(list', call.id) \in Nat
          /\ Copies(list, call.id) \in Nat
      <4>1. list' # list
        BY <3>1, <3>3
      <4>2. QED
        BY <2>0, <4>1, GrownCounts
    <3>6. call.before <= Copies(list, call.id) \/ call.id \in taken
      BY <1>1, <1>5 DEF AppleCounts
    <3>7. call.before \in Nat
      BY <1>1, CallFields DEF TypeOK
    <3>8. QED
      BY <1>5, <2>1, <3>2, <3>4, <3>5, <3>6, <3>7
  <2>2. CASE UNCHANGED <<list, landed, seen>>
    <3>1. /\ call.id \notin Gone
          /\ \A j \in DOMAIN list : list[j].mark = req.nth => list[j].id = call.id
          /\ call.id \in taken \/ (call.phase = "verify" /\ Copies(list, call.id) > call.before)
      BY <1>1, <1>5, <2>0, <2>2 DEF DueOnce
    <3>2. call.before \in Nat /\ Copies(list, call.id) \in Nat
      BY <1>1, CallFields, CopiesCounted DEF TypeOK
    <3>3. QED
      BY <1>5, <2>2, <3>1, <3>2
  <2>3. QED
    BY <2>1, <2>2 DEF Grown
<1>6. QED
  BY <1>1, <1>2, <1>3, <1>4, <1>5 DEF DueOnce

\* The request after has not landed.
LEMMA DueMoves ==
  ASSUME target' = target, PlanInShape', call' \in WriteCall, Active',
         \A k \in landed' : \A n \in DOMAIN call'.todo : Asked(n)' => k < call'.todo[n].nth
  PROVE  DueOnce'
<1>1. call'.todo \in Seq(Request) /\ call'.todo # <<>>
  BY CallFields DEF PlanInShape
<1>2. req' = call'.todo[1] /\ req' \in Request /\ 1 \in DOMAIN call'.todo
  <2>1. Head(call'.todo) = call'.todo[1] /\ call'.todo[1] \in Request /\ Len(call'.todo) >= 1
        /\ Len(call'.todo) \in Nat
    BY <1>1, CountTail
  <2>2. QED
    BY <1>1, <2>1 DEF req
<1>3. req'.nth \in Nat
  BY <1>2, RequestFields
<1>4. ASSUME req'.do = "put" PROVE req'.nth \notin landed'
  <2>1. Asked(1)'
    BY <1>2, <1>4 DEF Asked
  <2>2. req'.nth \in landed' => req'.nth < req'.nth
    BY <1>2, <2>1
  <2>3. QED
    BY <1>3, <2>2
<1>5. target = "apple" => req'.do = "put"
  <2>1. target = "apple" => Asked(1)'
    BY <1>2 DEF PlanInShape
  <2>2. QED
    BY <1>2, <2>1 DEF Asked
<1>6. QED
  BY <1>4, <1>5 DEF DueOnce

LEMMA DueRests ==
  ASSUME ~Active'
  PROVE  DueOnce'
  BY DEF DueOnce

\* What Apple's client believes, while its request waits.
LEMMA AppleWaits ==
  ASSUME WriteInv, Active, Grown, Asks(call), alias' = alias
  PROVE  AppleCounts'
<1> SUFFICES ASSUME target = "apple", Steady PROVE AppleCounts'
  BY DEF AppleCounts, Steady, Grown
<1>1. TypeOK /\ AppleCounts /\ target' = target /\ taken' = taken
  BY DEF WriteInv, Grown
<1>2. /\ req' = req /\ call'.id = call.id /\ call'.before = call.before /\ call'.base = call.base
      /\ (call.fixed => call'.fixed) /\ call'.counts = call.counts
      /\ call'.bad => call.bad \/ call.id \in Gone
  BY DEF Asks, Waits, Carries, req
<1>3. req.do = "put" /\ call.id \in Id
  BY AppleAsks
<1>4. \A i \in Id : Copies(list', i) >= Copies(list, i) /\ Copies(list', i) \in Nat /\ Copies(list, i) \in Nat
  BY <1>3, GrownCounts
<1>5. call.counts \in [Id -> Nat] /\ call.before \in Nat
  BY <1>1, CallFields DEF TypeOK
<1>6. \A i \in Id : call.counts[i] <= Copies(list', i) \/ i \in taken
  <2>1. \A i \in Id : call.counts[i] \in Nat /\ (call.counts[i] <= Copies(list, i) \/ i \in taken)
    BY <1>1, <1>5 DEF AppleCounts
  <2>2. QED
    BY <1>4, <2>1
<1>7. call.before <= Copies(list', call.id) \/ call.id \in taken
  <2>1. call.before <= Copies(list, call.id) \/ call.id \in taken
    BY <1>1 DEF AppleCounts
  <2>2. QED
    BY <1>3, <1>4, <1>5, <2>1
<1>8. QED
  BY <1>1, <1>2, <1>6, <1>7 DEF AppleCounts

LEMMA AppleStops ==
  ASSUME WriteInv, Active, Grown, Stopped(call), alias' = alias
  PROVE  AppleCounts'
<1> SUFFICES ASSUME target = "apple", Steady PROVE AppleCounts'
  BY DEF AppleCounts, Steady, Grown
<1>1. TypeOK /\ AppleCounts /\ target' = target /\ taken' = taken
  BY DEF WriteInv, Grown
<1>2. call'.counts = call.counts /\ ~Active'
  BY DEF Stopped, Carries, Active
<1>3. req.do = "put"
  BY AppleAsks
<1>4. \A i \in Id : Copies(list', i) >= Copies(list, i) /\ Copies(list', i) \in Nat /\ Copies(list, i) \in Nat
  BY <1>3, GrownCounts
<1>5. \A i \in Id : call.counts[i] \in Nat
  BY <1>1, CallFields DEF TypeOK
<1>6. \A i \in Id : call.counts[i] <= Copies(list', i) \/ i \in taken
  <2>1. \A i \in Id : call.counts[i] <= Copies(list, i) \/ i \in taken
    BY <1>1 DEF AppleCounts
  <2>2. QED
    BY <1>4, <1>5, <2>1
<1>7. QED
  BY <1>1, <1>2, <1>6 DEF AppleCounts

\* It moves on, having counted the copy it wrote or found.
LEMMA AppleMoves ==
  ASSUME WriteInv, Active, Grown, NEW c \in WriteCall, MovesOn(c, alias'), AliasSound, PlanInShape',
         \/ c.counts = call.counts
         \/ /\ c.counts = [call.counts EXCEPT ![call.id] = call.base + 1]
            /\ target = "apple" /\ Steady =>
                 /\ call.id \notin Gone
                 /\ Copies(list', call.id) >= call.before + 1 \/ call.id \in taken
  PROVE  AppleCounts'
<1> SUFFICES ASSUME target = "apple", Steady PROVE AppleCounts'
  BY DEF AppleCounts, Steady, Grown
<1>1. TypeOK /\ AppleCounts /\ target' = target /\ taken' = taken /\ alias \in [Id -> Id]
  BY DEF WriteInv, Grown, TypeOK
<1>2. req.do = "put" /\ call.id \in Id /\ req.id \in Id
  BY AppleAsks
<1>3. \A i \in Id : Copies(list', i) >= Copies(list, i) /\ Copies(list', i) \in Nat /\ Copies(list, i) \in Nat
  BY <1>2, GrownCounts
<1>4. call.counts \in [Id -> Nat] /\ call.before \in Nat /\ call.base \in Nat
  BY <1>1, CallFields DEF TypeOK
<1>5. call.base = call.before /\ (call.id = req.id \/ req.id \in Gone)
  BY <1>1 DEF AppleCounts
<1>6. \A i \in Id : call.counts[i] <= Copies(list', i) \/ i \in taken
  <2>1. \A i \in Id : call.counts[i] \in Nat /\ (call.counts[i] <= Copies(list, i) \/ i \in taken)
    BY <1>1, <1>4 DEF AppleCounts
  <2>2. QED
    BY <1>3, <2>1
<1>7. ASSUME NEW i \in Id PROVE c.counts[i] <= Copies(list', i) \/ i \in taken
  <2>1. CASE c.counts = call.counts
    BY <1>6, <2>1
  <2>2. CASE c.counts # call.counts /\ i # call.id
    <3>1. c.counts[i] = call.counts[i]
      BY <1>4, <2>2
    <3>2. QED
      BY <1>6, <3>1
  <2>3. CASE c.counts # call.counts /\ i = call.id
    <3>1. c.counts[i] = call.base + 1
      BY <1>4, <2>3
    <3>2. Copies(list', call.id) >= call.before + 1 \/ call.id \in taken
      BY <2>3
    <3>3. QED
      BY <1>3, <1>4, <1>5, <2>3, <3>1, <3>2
  <2>4. QED
    BY <2>1, <2>2, <2>3
<1>8. \A i \in Gone : c.counts[i] = 0
  BY <1>1, <1>4, IdAssumption DEF AppleCounts
<1>9. ASSUME NEW i \in Id \ Gone PROVE alias'[i] = i
  <2>1. alias[i] = i
    BY <1>1 DEF AppleCounts
  <2>2. CASE alias' = alias
    BY <2>1, <2>2
  <2>3. CASE alias' = [alias EXCEPT ![req.id] = call.id]
    BY <1>1, <1>2, <1>5, <2>1, <2>3
  <2>4. QED
    BY <2>2, <2>3 DEF AliasSound
<1>10. call'.counts = c.counts /\ call' \in WriteCall
  BY DEF MovesOn, Carries
<1>11. ASSUME Active'
       PROVE  /\ call'.before <= Copies(list', call'.id) \/ call'.id \in taken
              /\ call'.base = call'.before /\ call'.base = call'.counts[call'.id]
              /\ call'.id = req'.id \/ req'.id \in Gone
              /\ ~call'.bad
  <2>1. call'.todo \in Seq(Request) /\ call'.todo # <<>> /\ call'.todo = Tail(c.todo)
    BY <1>10, <1>11, CallFields DEF PlanInShape, MovesOn
  <2>2. req' = call'.todo[1] /\ req'.id \in Id
    <3>1. Head(call'.todo) = call'.todo[1] /\ call'.todo[1] \in Request
      BY <2>1, CountTail
    <3>2. QED
      BY <3>1, RequestFields DEF req
  <2>3. /\ ~call'.bad /\ call'.id = alias'[req'.id]
        /\ call'.base = c.counts[call'.id] /\ call'.before = c.counts[call'.id]
    BY <2>1, <2>2 DEF MovesOn
  <2>4. call'.id \in Id
    BY <1>10, CallFields
  <2>5. QED
    BY <1>7, <1>9, <1>10, <2>2, <2>3, <2>4
<1>12. QED
  BY <1>1, <1>7, <1>8, <1>9, <1>10, <1>11 DEF AppleCounts

LEMMA OthersCount ==
  ASSUME target' = target, target # "apple"
  PROVE  AppleCounts'
  BY DEF AppleCounts

-----------------------------------------------------------------------------
\* What an answer is to find: a put wiped out, or a wipe, is Deezer's.
LEMMA ReqKinds ==
  ASSUME WriteInv, Active
  PROVE  /\ call.kind # "drop" => req.do = "put"
         /\ req.do = "wipe" => target \in Deezers /\ call.kind = "drop"
         /\ target \in Deezers => req.do = "put" \/ req.do = "wipe"
         /\ req.do = "put" => req.nth \in 1..Len(call.plan) /\ call.plan[req.nth] = req
         /\ req.do # "put" => \A n \in DOMAIN call.todo : ~Asked(n)
<1>1. TypeOK /\ PlanInShape
  BY DEF WriteInv
<1>2. /\ req = call.todo[1] /\ 1 \in DOMAIN call.todo /\ DOMAIN call.todo = 1..Len(call.todo)
      /\ Len(call.todo) \in Nat
  BY <1>1, ReqFacts
<1>3. DOMAIN call.plan = 1..Len(call.plan)
  <2>1. call.plan \in Seq(Request)
    BY <1>1, CallFields DEF TypeOK
  <2>2. QED
    BY <2>1
<1>4. Asked(1) <=> req.do = "put"
  BY <1>2 DEF Asked
<1>5. ASSUME req.do # "put", NEW n \in DOMAIN call.todo PROVE ~Asked(n)
  <2>1. CASE n = 1
    BY <1>4, <1>5, <2>1
  <2>2. CASE n # 1
    <3>1. 1 < n
      BY <1>2, <2>2
    <3>2. QED
      BY <1>1, <1>2, <1>4, <1>5, <3>1 DEF PlanInShape
  <2>3. QED
    BY <2>1, <2>2
<1>6. req.do \in {"put", "cut", "sweep", "wipe"}
  BY <1>1, ReqFacts
<1>7. QED
  BY <1>1, <1>2, <1>3, <1>4, <1>5, <1>6 DEF PlanInShape, Asked

\* The copies to keep, while a request waits.
LEMMA KeepersWait ==
  ASSUME WriteInv, Active, Grown, Waits(call), target = "deezer" => list' = list
  PROVE  KeepersSound'
<1>1. TypeOK /\ PlanInShape /\ KeepersSound /\ target' = target /\ kept' = kept /\ kept \in [Id -> Nat]
  BY DEF WriteInv, Grown, TypeOK
<1>2. /\ call'.todo = call.todo /\ call'.kind = call.kind /\ call'.keep = call.keep
      /\ call'.unrestored = call.unrestored /\ call'.givenup = call.givenup /\ Active'
  BY DEF Waits, Carries, Active
<1>3. /\ call.kind # "drop" => req.do = "put"
      /\ target \in Deezers => req.do = "put" \/ req.do = "wipe"
  BY ReqKinds
<1>4. req = call.todo[1] /\ 1 \in DOMAIN call.todo
  BY <1>1, ReqFacts
<1>5. \A i : (Wiping(i)' <=> Wiping(i)) /\ (Lost(i)' <=> Lost(i))
  BY <1>1, <1>2 DEF Wiping, Lost
<1>6. ASSUME NEW i \in Id, target \notin Deezers PROVE CountIn(list', StayingOf(i)) >= kept[i]
  <2>1. CountIn(list, StayingOf(i)) >= kept[i] /\ kept[i] \in Nat
    BY <1>1, <1>6 DEF KeepersSound
  <2>2. QED
    BY <1>6, <2>1, GrownCounts
<1>7. ASSUME NEW i \in Id, target \in Deezers, call.kind # "drop" PROVE CountIn(list', OwnOf(i)) >= kept[i]
  <2>1. CountIn(list, OwnOf(i)) >= kept[i] /\ kept[i] \in Nat
    BY <1>1, <1>7 DEF KeepersSound
  <2>2. QED
    BY <1>3, <1>7, <2>1, GrownCounts
<1>8. ASSUME NEW i \in Id, target \in Deezers, call.kind = "drop"
      PROVE  /\ Wiping(i) => call.keep[i] >= kept[i]
             /\ Wiping(i) /\ target = "deezer" => CountIn(list', OwnOf(i)) >= kept[i]
             /\ \/ i \in call.unrestored \/ Lost(i) \/ Wiping(i)
                \/ CountIn(list', OwnOf(i)) + CountIn(call.todo, PutsOf(i)) >= kept[i]
  <2>1. /\ Wiping(i) => call.keep[i] >= kept[i]
        /\ Wiping(i) /\ target = "deezer" => CountIn(list, OwnOf(i)) >= kept[i]
        /\ \/ i \in call.unrestored \/ Lost(i) \/ Wiping(i)
           \/ CountIn(list, OwnOf(i)) + CountIn(call.todo, PutsOf(i)) >= kept[i]
    BY <1>1, <1>8 DEF KeepersSound
  <2>2. CASE req.do = "put"
    <3>1. CountIn(list', OwnOf(i)) >= CountIn(list, OwnOf(i))
          /\ CountIn(list', OwnOf(i)) \in Nat /\ CountIn(list, OwnOf(i)) \in Nat
      BY <2>2, GrownCounts
    <3>2. CountIn(call.todo, PutsOf(i)) \in Nat /\ kept[i] \in Nat
      BY <1>1, ReqFacts, CountFacts
    <3>3. QED
      BY <2>1, <3>1, <3>2
  <2>3. CASE req.do = "wipe" /\ i = req.id
    <3>1. Wiping(i)
      BY <1>4, <2>3 DEF Wiping
    <3>2. QED
      BY <2>1, <3>1
  <2>4. CASE req.do = "wipe" /\ i # req.id
    <3>1. CountIn(list', OwnOf(i)) = CountIn(list, OwnOf(i))
      BY <2>4, GrownCounts
    <3>2. QED
      BY <2>1, <3>1
  <2>5. QED
    BY <1>3, <1>8, <2>2, <2>3, <2>4
<1>9. QED
  BY <1>1, <1>2, <1>5, <1>6, <1>7, <1>8 DEF KeepersSound

\* The playlist of a client that is done with removals, and every other client's.
LEMMA KeepersGrown ==
  ASSUME WriteInv, Active, Grown, NEW i \in Id
  PROVE  /\ kept[i] \in Nat /\ kept' = kept /\ target' = target
         /\ target \notin Deezers => CountIn(list', StayingOf(i)) >= kept[i]
         /\ target \in Deezers /\ call.kind # "drop" => CountIn(list', OwnOf(i)) >= kept[i]
<1>1. KeepersSound /\ kept \in [Id -> Nat] /\ target' = target /\ kept' = kept
  BY DEF WriteInv, Grown, TypeOK
<1>2. call.kind # "drop" => req.do = "put"
  BY ReqKinds
<1>3. ASSUME target \notin Deezers PROVE CountIn(list', StayingOf(i)) >= kept[i]
  <2>1. CountIn(list, StayingOf(i)) >= kept[i] /\ kept[i] \in Nat
    BY <1>1, <1>3 DEF KeepersSound
  <2>2. QED
    BY <1>3, <2>1, GrownCounts
<1>4. ASSUME target \in Deezers, call.kind # "drop" PROVE CountIn(list', OwnOf(i)) >= kept[i]
  <2>1. CountIn(list, OwnOf(i)) >= kept[i] /\ kept[i] \in Nat
    BY <1>1, <1>4 DEF KeepersSound
  <2>2. QED
    BY <1>2, <1>4, <2>1, GrownCounts
<1>5. QED
  BY <1>1, <1>3, <1>4

LEMMA KeepersStop ==
  ASSUME WriteInv, Active, Grown, Stopped(call)
  PROVE  KeepersSound'
<1>1. call'.todo = <<>> /\ DOMAIN call'.todo = {} /\ ~Active' /\ call'.result = "raised" /\ call'.kind = call.kind
  BY DEF Stopped, Carries, Active
<1>2. \A i : ~Wiping(i)'
  BY <1>1 DEF Wiping
<1>3. QED
  BY <1>1, <1>2, KeepersGrown DEF KeepersSound

\* It moves on: nothing is lost sight of.
LEMMA KeepersMove ==
  ASSUME WriteInv, Active, Grown, NEW c \in WriteCall, NEW w, MovesOn(c, w),
         c.kind = call.kind, c.keep = call.keep,
         target \in Deezers /\ call.kind = "drop" =>
           \A i \in Id :
             /\ Wiping(i)' => Wiping(i)
             /\ Wiping(i)' /\ target = "deezer" => CountIn(list', OwnOf(i)) >= CountIn(list, OwnOf(i))
             /\ \/ i \in c.unrestored \/ (target = "deezerweb" /\ i \in c.givenup) \/ Wiping(i)'
                \/ CountIn(list', OwnOf(i)) + CountIn(call'.todo, PutsOf(i)) >= kept[i]
  PROVE  KeepersSound'
<1>1. KeepersSound /\ target' = target /\ kept' = kept /\ kept \in [Id -> Nat]
  BY DEF WriteInv, Grown, TypeOK
<1>2. /\ call' \in WriteCall /\ call'.todo = Tail(c.todo) /\ call'.kind = call.kind /\ call'.keep = call.keep
      /\ call'.unrestored = c.unrestored /\ call'.givenup = c.givenup /\ call'.todo \in Seq(Request)
  BY CallFields DEF MovesOn, Carries
<1>3. \A i : Lost(i)' <=> (target = "deezerweb" /\ i \in c.givenup)
  BY <1>1, <1>2 DEF Lost
<1>4. ASSUME NEW i \in Id, target \in Deezers, call.kind = "drop"
      PROVE  /\ Wiping(i)' => call'.keep[i] >= kept[i]
             /\ Wiping(i)' /\ target = "deezer" => CountIn(list', OwnOf(i)) >= kept[i]
             /\ Active' => \/ i \in call'.unrestored \/ Lost(i)' \/ Wiping(i)'
                           \/ CountIn(list', OwnOf(i)) + CountIn(call'.todo, PutsOf(i)) >= kept[i]
             /\ ~Active' /\ call'.result = "done" => Lost(i)' \/ CountIn(list', OwnOf(i)) >= kept[i]
  <2>1. /\ Wiping(i) => call.keep[i] >= kept[i]
        /\ Wiping(i) /\ target = "deezer" => CountIn(list, OwnOf(i)) >= kept[i]
    BY <1>1, <1>4 DEF KeepersSound
  <2>2. /\ Wiping(i)' => Wiping(i)
        /\ Wiping(i)' /\ target = "deezer" => CountIn(list', OwnOf(i)) >= CountIn(list, OwnOf(i))
        /\ \/ i \in c.unrestored \/ (target = "deezerweb" /\ i \in c.givenup) \/ Wiping(i)'
           \/ CountIn(list', OwnOf(i)) + CountIn(call'.todo, PutsOf(i)) >= kept[i]
    BY <1>4
  <2>3. CountIn(list', OwnOf(i)) \in Nat /\ CountIn(list, OwnOf(i)) \in Nat /\ kept[i] \in Nat
    BY <1>1, GrownCounts
  <2>4. ASSUME ~Active', call'.result = "done" PROVE Lost(i)' \/ CountIn(list', OwnOf(i)) >= kept[i]
    <3>1. Tail(c.todo) = <<>>
      BY <2>4 DEF MovesOn, Active
    <3>2. c.unrestored = {}
      BY <2>4, <3>1 DEF MovesOn
    <3>3. DOMAIN call'.todo = {}
      BY <1>2, <3>1
    <3>4. ~Wiping(i)'
      BY <3>3 DEF Wiping
    <3>5. CountIn(call'.todo, PutsOf(i)) = 0
      <4>1. Positions(call'.todo, PutsOf(i)) = {}
        BY <3>3 DEF Positions
      <4>2. QED
        BY <4>1, FS_EmptySet DEF CountIn
    <3>6. QED
      BY <1>3, <2>2, <2>3, <3>2, <3>4, <3>5
  <2>5. QED
    BY <1>2, <1>3, <2>1, <2>2, <2>3, <2>4
<1>5. QED
  BY <1>2, <1>4, KeepersGrown DEF KeepersSound

-----------------------------------------------------------------------------
\* The requests after the first, and their places.
LEMMA TailPlaces ==
  ASSUME WriteInv, Active
  PROVE  /\ \E place \in [1..Len(Tail(call.todo)) -> 2..Len(call.todo)] :
              /\ Shrinks(call.todo, Tail(call.todo), place)
              /\ \A n \in 2..Len(call.todo) : \E m \in 1..Len(Tail(call.todo)) : place[m] = n
         /\ \A i : CountIn(call.todo, PutsOf(i)) \in Nat /\ CountIn(Tail(call.todo), PutsOf(i)) \in Nat
         /\ \A i : CountIn(Tail(call.todo), PutsOf(i)) =
                     CountIn(call.todo, PutsOf(i)) - IF req.do = "put" /\ req.id = i THEN 1 ELSE 0
<1> DEFINE s == call.todo  n == Len(call.todo)  place == [k \in 1..(n - 1) |-> k + 1]
<1>1. /\ s \in Seq(Request) /\ s # <<>> /\ n \in Nat /\ n >= 1 /\ Len(Tail(s)) = n - 1 /\ Tail(s) \in Seq(Request)
      /\ \A k \in 1..(n - 1) : Tail(s)[k] = s[k + 1]
      /\ req = s[1] /\ req \in Request
  BY ReqFacts DEF WriteInv
<1>2. place \in [1..(n - 1) -> 2..n] /\ \A k \in 2..n : k - 1 \in 1..(n - 1) /\ place[k - 1] = k
  BY <1>1
<1>3. Shrinks(s, Tail(s), place)
  BY <1>1 DEF Shrinks
<1>4. ASSUME NEW i
      PROVE  /\ CountIn(s, PutsOf(i)) \in Nat /\ CountIn(Tail(s), PutsOf(i)) \in Nat
             /\ CountIn(Tail(s), PutsOf(i)) = CountIn(s, PutsOf(i)) - IF req.do = "put" /\ req.id = i THEN 1 ELSE 0
  <2>1. CountIn(Tail(s), PutsOf(i)) = CountIn(s, PutsOf(i)) - IF s[1] \in PutsOf(i) THEN 1 ELSE 0
    BY <1>1, CountTail
  <2>2. s[1] \in PutsOf(i) <=> req.do = "put" /\ req.id = i
    BY <1>1, PutFacts
  <2>3. QED
    BY <1>1, <2>1, <2>2, CountFacts
<1> HIDE DEF place, n
<1>5. \A k \in 2..n : \E m \in 1..Len(Tail(s)) : place[m] = k
  BY <1>1, <1>2
<1>6. place \in [1..Len(Tail(s)) -> 2..n]
  BY <1>1, <1>2
<1>7. QED
  BY <1>3, <1>4, <1>5, <1>6 DEF n

\* What is put in front of a sequence is its first element.
LEMMA OneMore ==
  ASSUME NEW T, NEW x \in T, NEW d \in Seq(T)
  PROVE  <<x>> \o d \in Seq(T) /\ <<x>> \o d # <<>> /\ Tail(<<x>> \o d) = d
<1>1. <<x>> \in Seq(T) /\ Len(<<x>>) = 1
  OBVIOUS
<1>2. /\ <<x>> \o d \in Seq(T) /\ Len(<<x>> \o d) = 1 + Len(d)
      /\ \A k \in 1..(1 + Len(d)) : (<<x>> \o d)[k] = IF k <= 1 THEN <<x>>[k] ELSE d[k - 1]
  BY <1>1, ConcatProperties
<1>3. Len(d) \in Nat /\ Len(<<x>> \o d) >= 1
  BY <1>2
<1>4. <<x>> \o d # <<>>
  <2> DEFINE u == <<x>> \o d
  <2> HIDE DEF u
  <2>1. u = <<>> => Len(u) = 0
    OBVIOUS
  <2>2. QED
    BY <1>3, <2>1 DEF u
<1>5. /\ Tail(<<x>> \o d) \in Seq(T) /\ Len(Tail(<<x>> \o d)) = Len(d)
      /\ \A k \in 1..Len(d) : Tail(<<x>> \o d)[k] = (<<x>> \o d)[k + 1]
  <2> DEFINE u == <<x>> \o d
  <2> HIDE DEF u
  <2>1. u \in Seq(T) /\ u # <<>> /\ Len(u) = 1 + Len(d)
    BY <1>2, <1>4 DEF u
  <2>2. Tail(u) \in Seq(T) /\ Len(Tail(u)) = Len(u) - 1 /\ \A k \in 1..(Len(u) - 1) : Tail(u)[k] = u[k + 1]
    BY <2>1, CountTail
  <2>3. Len(u) - 1 = Len(d)
    BY <1>3, <2>1
  <2>4. QED
    BY <2>2, <2>3 DEF u
<1>6. \A k \in 1..Len(d) : Tail(<<x>> \o d)[k] = d[k]
  <2>1. \A k \in 1..Len(d) : k + 1 \in 1..(1 + Len(d)) /\ ~(k + 1 <= 1) /\ (k + 1) - 1 = k
    BY <1>3
  <2>2. QED
    BY <1>2, <1>5, <2>1
<1>7. Tail(<<x>> \o d) = d
  BY <1>5, <1>6, SeqEqual
<1>8. QED
  BY <1>2, <1>4, <1>7

\* The requests of other ids among them.
LEMMA LeavePlaces ==
  ASSUME WriteInv, Active
  PROVE  LET d == Kept(Tail(call.todo), {q \in ToSet(call.todo) : q.id # req.id}) IN
         /\ Leave(call) \in WriteCall
         /\ Leave(call).todo # <<>> /\ Tail(Leave(call).todo) = d /\ d \in Seq(Request)
         /\ Leave(call).kind = call.kind /\ Leave(call).plan = call.plan /\ Leave(call).keep = call.keep
         /\ Leave(call).counts = call.counts /\ Leave(call).ok = call.ok
         /\ Leave(call).unrestored = call.unrestored /\ Leave(call).givenup = call.givenup
         /\ \E place \in [1..Len(d) -> 2..Len(call.todo)] :
              /\ Shrinks(call.todo, d, place)
              /\ \A n \in 2..Len(call.todo) : call.todo[n].id # req.id => \E m \in 1..Len(d) : place[m] = n
         /\ \A i : i # req.id => CountIn(d, PutsOf(i)) = CountIn(call.todo, PutsOf(i))
<1> DEFINE s == Tail(call.todo)
           S == {q \in ToSet(call.todo) : q.id # req.id}
           d == Kept(s, S)
<1>1. /\ call \in WriteCall /\ s \in Seq(Request) /\ Len(s) = Len(call.todo) - 1 /\ Len(call.todo) \in Nat
      /\ \A k \in 1..Len(s) : s[k] = call.todo[k + 1] /\ s[k] \in Request
      /\ req \in Request /\ Len(call.todo) >= 1
  <2>1. /\ call \in WriteCall /\ s \in Seq(Request) /\ Len(s) = Len(call.todo) - 1 /\ Len(call.todo) \in Nat
        /\ \A k \in 1..(Len(call.todo) - 1) : s[k] = call.todo[k + 1]
        /\ req \in Request /\ Len(call.todo) >= 1
    BY ReqFacts DEF WriteInv
  <2>2. QED
    BY <2>1
<1>2. \A k \in 1..Len(s) : s[k] \in S <=> call.todo[k + 1].id # req.id
  <2>1. DOMAIN call.todo = 1..Len(call.todo)
    BY ReqFacts DEF WriteInv
  <2>2. ASSUME NEW k \in 1..Len(s) PROVE s[k] \in ToSet(call.todo) /\ s[k] = call.todo[k + 1]
    <3>1. k + 1 \in DOMAIN call.todo /\ s[k] = call.todo[k + 1]
      BY <1>1, <2>1
    <3>2. QED
      BY <3>1 DEF ToSet
  <2>3. QED
    BY <2>2
<1> HIDE DEF S
<1>3. d \in Seq(Request)
  BY <1>1, KeptShrinks
<1>4. PICK place \in [1..Len(d) -> Positions(s, S)] : Enumerates(s, S, place)
  BY <1>1, KeptPositions
<1>5. Positions(s, S) = {k \in 1..Len(s) : s[k] \in S}
  BY <1>1, CountFacts
<1>6. /\ \A k \in 1..Len(d) : d[k] = s[place[k]] /\ place[k] \in 1..Len(s)
      /\ \A j, k \in 1..Len(d) : j < k => place[j] < place[k]
      /\ \A k \in 1..Len(s) : s[k] \in S => \E m \in 1..Len(d) : place[m] = k
  BY <1>4, <1>5 DEF Enumerates
<1> HIDE DEF d
<1> DEFINE up == [k \in 1..Len(d) |-> place[k] + 1]
<1>7. up \in [1..Len(d) -> 2..Len(call.todo)] /\ Shrinks(call.todo, d, up)
  <2>1. \A k \in 1..Len(d) : place[k] + 1 \in 2..Len(call.todo) /\ d[k] = call.todo[place[k] + 1] /\ place[k] \in Nat
    BY <1>1, <1>6
  <2>2. QED
    BY <1>6, <2>1 DEF Shrinks
<1>8. ASSUME NEW n \in 2..Len(call.todo), call.todo[n].id # req.id
      PROVE  \E m \in 1..Len(d) : up[m] = n
  <2>1. n - 1 \in 1..Len(s) /\ (n - 1) + 1 = n
    BY <1>1
  <2>2. s[n - 1] \in S
    BY <1>2, <1>8, <2>1
  <2>3. PICK m \in 1..Len(d) : place[m] = n - 1
    BY <1>6, <2>1, <2>2
  <2>4. QED
    BY <2>1, <2>3
<1>9. ASSUME NEW i, i # req.id PROVE CountIn(d, PutsOf(i)) = CountIn(call.todo, PutsOf(i))
  <2>1. \A k \in 1..Len(s) : s[k] \in PutsOf(i) => s[k] \in S
    BY <1>1, <1>2, <1>9, PutFacts
  <2>2. CountIn(d, PutsOf(i)) = CountIn(s, PutsOf(i))
    BY <1>1, <2>1, KeptShrinks DEF d
  <2>3. CountIn(s, PutsOf(i)) = CountIn(call.todo, PutsOf(i))
    BY <1>9, TailPlaces
  <2>4. QED
    BY <2>2, <2>3
<1>10. Leave(call) = [call EXCEPT !.todo = <<req>> \o d]
  BY DEF Leave, d, S
<1>11. <<req>> \o d \in Seq(Request) /\ <<req>> \o d # <<>> /\ Tail(<<req>> \o d) = d
  BY <1>1, <1>3, OneMore
<1>12. Leave(call) \in WriteCall
  BY <1>1, <1>10, <1>11 DEF WriteCall
<1>13. /\ Leave(call).todo = <<req>> \o d
       /\ Leave(call).kind = call.kind /\ Leave(call).plan = call.plan /\ Leave(call).keep = call.keep
       /\ Leave(call).counts = call.counts /\ Leave(call).ok = call.ok
       /\ Leave(call).unrestored = call.unrestored /\ Leave(call).givenup = call.givenup
  BY <1>1, <1>10 DEF WriteCall
<1>14. QED
  BY <1>3, <1>7, <1>8, <1>9, <1>11, <1>12, <1>13 DEF d, S

\* What an answer leaves of a call: what it has written is noted, or the copies to keep are
\* to be appended.
LEMMA AnsweredShape ==
  ASSUME WriteInv, Active, NEW c, c = [Answered(call) EXCEPT !.size = @ + 1]
  PROVE  LET puts == [k \in 1..call.keep[req.id] |->
                        [do |-> "put", id |-> req.id, nth |-> Len(call.plan) + k]] IN
         /\ c \in WriteCall /\ c.todo # <<>>
         /\ c.kind = call.kind /\ c.keep = call.keep
         /\ c.unrestored = call.unrestored /\ c.givenup = call.givenup
         /\ req.do = "put" => /\ c.ok = call.ok \cup {<<req.nth, call.id>>}
                              /\ c.counts = [call.counts EXCEPT ![call.id] = call.base + 1]
         /\ req.do # "put" => c.ok = call.ok /\ c.counts = call.counts
         /\ req.do # "wipe" => c.plan = call.plan /\ c.todo = call.todo
         /\ req.do = "wipe" => /\ c.plan = call.plan \o puts /\ Tail(c.todo) = puts \o Tail(call.todo)
                               /\ puts \in Seq(Request) /\ Len(puts) = call.keep[req.id]
<1> DEFINE m == call.keep[req.id]
           puts == [k \in 1..m |-> [do |-> "put", id |-> req.id, nth |-> Len(call.plan) + k]]
<1>1. /\ call \in WriteCall /\ call.todo \in Seq(Request) /\ call.todo # <<>> /\ req \in Request /\ req.id \in Id
      /\ req.nth \in Nat /\ call.id \in Id /\ Tail(call.todo) \in Seq(Request)
      /\ req.do \in {"put", "cut", "sweep", "wipe"}
  BY ReqFacts DEF WriteInv
<1>2. /\ call.plan \in Seq(Request) /\ call.counts \in [Id -> Nat] /\ call.base \in Nat
      /\ call.ok \in SUBSET (Nat \X Id) /\ call.keep \in [Id -> Nat] /\ call.size \in Nat
  BY <1>1, CallFields
<1>3. CASE req.do = "put"
  <2> DEFINE ok == call.ok \cup {<<req.nth, call.id>>}
             counts == [call.counts EXCEPT ![call.id] = call.base + 1]
             size == call.size + 1
  <2>1. Answered(call) = [call EXCEPT !.ok = @ \cup {<<req.nth, call.id>>},
                                      !.counts[call.id] = call.base + 1]
    BY <1>3 DEF Answered, Confirm
  <2>2. c = [call EXCEPT !.ok = ok, !.counts = counts, !.size = size]
    BY <1>1, <2>1 DEF WriteCall
  <2>3. ok \in SUBSET (Nat \X Id) /\ counts \in [Id -> Nat] /\ size \in Nat
    <3>1. <<req.nth, call.id>> \in Nat \X Id
      BY <1>1
    <3>2. QED
      BY <1>1, <1>2, <3>1
  <2> HIDE DEF ok, counts, size
  <2>4. c \in WriteCall
    BY <1>1, <2>2, <2>3, ZenonT(40) DEF WriteCall
  <2>5. /\ c.todo = call.todo /\ c.kind = call.kind /\ c.keep = call.keep /\ c.plan = call.plan
        /\ c.unrestored = call.unrestored /\ c.givenup = call.givenup
        /\ c.ok = ok /\ c.counts = counts
    BY <1>1, <2>2 DEF WriteCall
  <2>6. QED
    BY <1>1, <1>3, <2>4, <2>5 DEF ok, counts
<1>4. CASE req.do \in {"cut", "sweep"}
  <2>1. Answered(call) = call
    BY <1>4 DEF Answered
  <2>2. c = [call EXCEPT !.size = call.size + 1] /\ call.size + 1 \in Nat
    BY <1>1, <1>2, <2>1 DEF WriteCall
  <2>3. c \in WriteCall
    BY <1>1, <2>2 DEF WriteCall
  <2>4. /\ c.todo = call.todo /\ c.kind = call.kind /\ c.keep = call.keep /\ c.plan = call.plan
        /\ c.unrestored = call.unrestored /\ c.givenup = call.givenup
        /\ c.ok = call.ok /\ c.counts = call.counts
    BY <1>1, <2>2 DEF WriteCall
  <2>5. QED
    BY <1>1, <1>4, <2>3, <2>4
<1>5. CASE req.do = "wipe"
  <2>1. m \in Nat /\ \A k \in 1..m : [do |-> "put", id |-> req.id, nth |-> Len(call.plan) + k] \in Request
    <3>1. m \in Nat /\ Len(call.plan) \in Nat
      BY <1>1, <1>2
    <3>2. QED
      BY <1>1, <3>1 DEF Request
  <2> HIDE DEF m
  <2>2. puts \in Seq(Request) /\ Len(puts) = m
    BY <2>1
  <2> USE DEF m
  <2>3. Answered(call) = [call EXCEPT !.plan = @ \o puts, !.todo = <<req>> \o puts \o Tail(@)]
    BY <1>5 DEF Answered, Restore
  <2> HIDE DEF m, puts
  <2> DEFINE plan == call.plan \o puts
             todo == <<req>> \o puts \o Tail(call.todo)
             size == call.size + 1
  <2>4. c = [call EXCEPT !.plan = plan, !.todo = todo, !.size = size]
    BY <1>1, <2>3 DEF WriteCall
  <2>5. todo = <<req>> \o (puts \o Tail(call.todo))
    <3>1. <<req>> \in Seq(Request)
      BY <1>1
    <3>2. \A a, b, d \in Seq(Request) : (a \o b) \o d = a \o (b \o d)
      BY ConcatAssociative
    <3>3. QED
      BY <1>1, <2>2, <3>1, <3>2
  <2>6. puts \o Tail(call.todo) \in Seq(Request)
    BY <1>1, <2>2, ConcatProperties
  <2>7. todo \in Seq(Request) /\ todo # <<>> /\ Tail(todo) = puts \o Tail(call.todo)
    <3>1. <<req>> \o (puts \o Tail(call.todo)) \in Seq(Request)
          /\ <<req>> \o (puts \o Tail(call.todo)) # <<>>
          /\ Tail(<<req>> \o (puts \o Tail(call.todo))) = puts \o Tail(call.todo)
      BY <1>1, <2>6, OneMore
    <3> HIDE DEF todo
    <3>2. QED
      BY <2>5, <3>1
  <2>8. plan \in Seq(Request) /\ size \in Nat
    BY <1>2, <2>2, ConcatProperties
  <2> HIDE DEF plan, todo, size
  <2>9. c \in WriteCall
    BY <1>1, <2>4, <2>7, <2>8, ZenonT(40) DEF WriteCall
  <2>10. /\ c.todo = todo /\ c.kind = call.kind /\ c.keep = call.keep /\ c.plan = plan
         /\ c.unrestored = call.unrestored /\ c.givenup = call.givenup
         /\ c.ok = call.ok /\ c.counts = call.counts
    BY <1>1, <2>4 DEF WriteCall
  <2>11. QED
    BY <1>1, <1>5, <2>2, <2>7, <2>9, <2>10 DEF plan, puts, m
<1>6. QED
  BY <1>1, <1>3, <1>4, <1>5

\* What is beyond the first m of m + r places is one of the last r.
LEMMA Remainder ==
  ASSUME NEW m \in Nat, NEW r \in Nat
  PROVE  \A n \in 1..(m + r) : ~(n <= m) => n - m \in 1..r
OBVIOUS

\* The copies of a deleted id that are to be appended are in the plan, and come first.
LEMMA PlanRestores ==
  ASSUME WriteInv, Active, Grown, req.do = "wipe", NEW c \in WriteCall, NEW w \in [Id -> Id], MovesOn(c, w),
         NEW puts \in Seq(Request),
         \A k \in 1..Len(puts) : puts[k] = [do |-> "put", id |-> req.id, nth |-> Len(call.plan) + k],
         c.plan = call.plan \o puts, Tail(c.todo) = puts \o Tail(call.todo), c.kind = call.kind
  PROVE  /\ PlanInShape'
         /\ \A k \in landed' : \A n \in DOMAIN call'.todo : Asked(n)' => k < call'.todo[n].nth
<1> DEFINE p == Len(call.plan)  m == Len(puts)  r == Len(call.todo) - 1
<1>1. PlanInShape /\ TypeOK /\ target' = target
  BY DEF WriteInv, Grown
<1>2. /\ call.todo \in Seq(Request) /\ r \in Nat /\ Len(call.todo) = r + 1 /\ DOMAIN call.todo = 1..(r + 1)
      /\ Tail(call.todo) \in Seq(Request) /\ Len(Tail(call.todo)) = r
      /\ \A n \in 1..r : Tail(call.todo)[n] = call.todo[n + 1]
  BY <1>1, ReqFacts
<1>3. p \in Nat /\ m \in Nat /\ call.plan \in Seq(Request) /\ DOMAIN call.plan = 1..p
  BY <1>1, CallFields DEF TypeOK
<1>4. /\ call'.todo = puts \o Tail(call.todo) /\ call'.plan = call.plan \o puts /\ call'.kind = call.kind
  BY DEF MovesOn, Carries
<1>5. target \in Deezers /\ call.kind = "drop" /\ \A n \in DOMAIN call.todo : ~Asked(n)
  BY ReqKinds
<1> HIDE DEF p, m, r
<1>6. /\ call'.todo \in Seq(Request) /\ DOMAIN call'.todo = 1..(m + r) /\ Len(call'.todo) = m + r
      /\ \A n \in 1..(m + r) : call'.todo[n] = IF n <= m THEN puts[n] ELSE call.todo[(n - m) + 1]
  <2>1. /\ puts \o Tail(call.todo) \in Seq(Request) /\ Len(puts \o Tail(call.todo)) = m + r
        /\ \A n \in 1..(m + r) : (puts \o Tail(call.todo))[n] = IF n <= m THEN puts[n] ELSE Tail(call.todo)[n - m]
    BY <1>2, ConcatProperties DEF m
  <2>2. \A n \in 1..(m + r) : ~(n <= m) => n - m \in 1..r
    BY <1>2, <1>3, Remainder, Zenon
  <2>3. DOMAIN (puts \o Tail(call.todo)) = 1..(m + r)
    BY <2>1
  <2>4. QED
    BY <1>2, <1>4, <2>1, <2>2, <2>3
<1>7. /\ Len(call'.plan) = p + m /\ DOMAIN call'.plan = 1..(p + m)
      /\ \A k \in 1..(p + m) : call'.plan[k] = IF k <= p THEN call.plan[k] ELSE puts[k - p]
  <2>1. /\ call.plan \o puts \in Seq(Request) /\ Len(call.plan \o puts) = p + m
        /\ \A k \in 1..(p + m) : (call.plan \o puts)[k] = IF k <= p THEN call.plan[k] ELSE puts[k - p]
    BY <1>3, ConcatProperties DEF p, m
  <2>2. QED
    BY <1>4, <2>1
<1>8. ASSUME NEW n \in 1..(m + r)
      PROVE  /\ Asked(n)' <=> n <= m
             /\ n <= m => call'.todo[n] = puts[n] /\ call'.todo[n].nth = p + n /\ call'.todo[n].do = "put"
             /\ ~(n <= m) => /\ (n - m) + 1 \in DOMAIN call.todo /\ call'.todo[n] = call.todo[(n - m) + 1]
                             /\ call'.todo[n].do = "wipe"
  <2>1. CASE n <= m
    <3>1. n \in 1..m /\ call'.todo[n] = puts[n]
      BY <1>2, <1>3, <1>6, <2>1
    <3>2. puts[n] = [do |-> "put", id |-> req.id, nth |-> p + n]
      BY <3>1 DEF m, p
    <3>3. QED
      BY <2>1, <3>1, <3>2 DEF Asked
  <2>2. CASE ~(n <= m)
    <3>1. (n - m) + 1 \in DOMAIN call.todo /\ call'.todo[n] = call.todo[(n - m) + 1]
      BY <1>2, <1>3, <1>6, <2>2
    <3>2. ~Asked((n - m) + 1)
      BY <1>5, <3>1
    <3>3. call'.todo[n].do = "wipe"
      BY <1>1, <1>5, <3>1, <3>2 DEF PlanInShape
    <3>4. QED
      BY <2>2, <3>1, <3>3 DEF Asked
  <2>3. QED
    BY <2>1, <2>2
<1>9. \A n \in 1..(m + r) : Asked(n)' => n \in 1..m
  BY <1>2, <1>3, <1>8
<1>10. ASSUME NEW n \in 1..(m + r), Asked(n)'
       PROVE  call'.todo[n].nth \in DOMAIN call'.plan /\ call'.plan[call'.todo[n].nth] = call'.todo[n]
  <2>1. n \in 1..m /\ call'.todo[n] = puts[n] /\ call'.todo[n].nth = p + n
    BY <1>8, <1>9, <1>10
  <2>2. p + n \in 1..(p + m) /\ ~(p + n <= p) /\ (p + n) - p = n
    BY <1>3, <2>1
  <2>3. QED
    BY <1>7, <2>1, <2>2
<1>11. ASSUME NEW i \in 1..(m + r), NEW n \in 1..(m + r), i < n
       PROVE  /\ Asked(n)' => Asked(i)'
              /\ Asked(n)' => call'.todo[i].nth < call'.todo[n].nth
  <2>1. Asked(n)' => i <= m /\ n <= m
    BY <1>2, <1>3, <1>8, <1>11
  <2>2. QED
    BY <1>2, <1>3, <1>8, <1>11, <2>1, SMTT(40)
<1>12. ASSUME NEW i \in 1..(m + r), NEW n \in 1..(m + r), i # n,
              call'.todo[i].do = "wipe", call'.todo[n].do = "wipe"
       PROVE  call'.todo[i].id # call'.todo[n].id
  <2>1. ~(i <= m) /\ ~(n <= m)
    BY <1>8, <1>12
  <2>2. /\ (i - m) + 1 \in DOMAIN call.todo /\ call'.todo[i] = call.todo[(i - m) + 1]
        /\ (n - m) + 1 \in DOMAIN call.todo /\ call'.todo[n] = call.todo[(n - m) + 1]
    BY <1>8, <2>1
  <2>3. (i - m) + 1 # (n - m) + 1
    BY <1>2, <1>3, <1>12
  <2>4. QED
    BY <1>1, <1>12, <2>2, <2>3 DEF PlanInShape
<1>13. landed' \subseteq 1..p
  BY <1>3, GrownTypes
<1>14. ASSUME NEW k \in landed', NEW n \in 1..(m + r), Asked(n)' PROVE k < call'.todo[n].nth
  <2>1. n \in 1..m /\ call'.todo[n].nth = p + n
    BY <1>8, <1>9, <1>14
  <2>2. QED
    BY <1>3, <1>13, <2>1
<1>15. landed' \subseteq DOMAIN call'.plan
  BY <1>3, <1>7, <1>13
<1>16. Active' <=> call'.todo # <<>>
  BY <1>4 DEF MovesOn, Active
<1>17. ASSUME Active' PROVE call'.id = req'.id
  <2>1. call'.todo # <<>> /\ call'.todo = Tail(c.todo) /\ Head(call'.todo) = call'.todo[1]
    BY <1>4, <1>6, <1>16, <1>17, CountTail
  <2>2. target # "apple"
    BY <1>5 DEF Deezers
  <2>3. QED
    BY <2>1, <2>2 DEF MovesOn, req
<1>18. PlanInShape'
  <2>1. \A n \in 1..(m + r) : ~Asked(n)' => call'.todo[n].do = "wipe"
    BY <1>8
  <2>2. target \in Deezers /\ target # "apple" /\ call'.kind = "drop"
    BY <1>4, <1>5 DEF Deezers
  <2>3. QED
    BY <1>1, <1>6, <1>10, <1>11, <1>12, <1>14, <1>15, <1>16, <1>17, <2>1, <2>2 DEF PlanInShape
<1>19. QED
  BY <1>6, <1>14, <1>18

-----------------------------------------------------------------------------
\* The whole invariant, for each way a call may go.
Counted == {faults', edits', calls'} \subseteq Nat

LEMMA TypesAfter ==
  ASSUME WriteInv, Active, Grown, AliasSound, call' \in WriteCall, call'.phase = "verify" => target = "apple",
         Counted
  PROVE  TypeOK'
<1>1. TypeOK
  BY DEF WriteInv
<1>2. list' \in Seq(Entry) /\ seen' \subseteq Id /\ landed' \subseteq Nat
  BY GrownTypes
<1>3. target' = target /\ taken' = taken /\ kept' = kept
  BY DEF Grown
<1>4. QED
  BY <1>1, <1>2, <1>3 DEF TypeOK, AliasSound, Counted

LEMMA AliasKept ==
  ASSUME WriteInv, alias' = alias
  PROVE  AliasSound
  BY DEF WriteInv, TypeOK, AliasSound

LEMMA CallStops ==
  ASSUME WriteInv, Active, Grown, alias' = alias, Stopped(call), Counted
  PROVE  WriteInv'
<1>1. /\ call' \in WriteCall /\ ~Active' /\ call'.phase # "verify" /\ call'.todo = <<>>
      /\ call'.plan = call.plan /\ call'.kind = call.kind /\ call'.ok = call.ok
      /\ call'.unrestored = call.unrestored
  BY DEF Stopped, Carries, Active
<1>2. AliasSound
  BY AliasKept
<1>3. Extends
  BY <1>1, CallFields DEF Extends
<1>4. TypeOK'
  BY <1>1, <1>2, TypesAfter
<1>5. PlanInShape' /\ MarksInOrder' /\ DueOnce' /\ AppleCounts' /\ KeepersSound'
  BY <1>1, PlanStops, GrownMarks, DueRests, AppleStops, KeepersStop
<1>6. AllAccounted'
  BY <1>1 DEF AllAccounted
<1>7. NothingPassedOver'
  BY <1>2, <1>3, GrownPassed
<1>8. ConfirmedIsThere'
  <2>1. call.id \in Id
    BY CallFields DEF WriteInv, TypeOK
  <2>2. QED
    BY <1>1, <2>1, GrownConfirmed
<1>9. QED
  BY <1>4, <1>5, <1>6, <1>7, <1>8 DEF WriteInv

LEMMA CallWaits ==
  ASSUME WriteInv, Active, Grown, alias' = alias, Waits(call), Counted,
         target # "apple" => call'.id = call.id,
         target = "deezer" => list' = list,
         DueOnce', AppleCounts'
  PROVE  WriteInv'
<1>1. /\ call' \in WriteCall /\ call'.todo = call.todo
      /\ call'.plan = call.plan /\ call'.kind = call.kind /\ call'.ok = call.ok
      /\ call'.unrestored = call.unrestored /\ (call'.phase = "verify" => target = "apple")
  BY DEF Waits, Carries
<1>2. AliasSound
  BY AliasKept
<1>3. Extends
  BY <1>1, CallFields DEF Extends
<1>4. TypeOK'
  BY <1>1, <1>2, TypesAfter
<1>5. PlanInShape' /\ MarksInOrder' /\ KeepersSound'
  BY PlanWaits, GrownMarks, KeepersWait
<1>6. AllAccounted'
  <2>1. \A n : Asked(n)' <=> Asked(n)
    BY <1>1 DEF Asked
  <2>2. \A n \in DOMAIN call.todo : \A j \in 1..Len(call.plan) : Asked(n) /\ call.todo[n].nth = j =>
          \E m \in DOMAIN call'.todo : Asked(m)' /\ call'.todo[m].nth = j
    BY <1>1, <2>1
  <2>3. \A j \in DOMAIN call'.plan : j \in DOMAIN call.plan
    BY <1>1
  <2>4. QED
    BY <1>2, <1>3, <2>2, <2>3, GrownAccounted
<1>7. NothingPassedOver'
  BY <1>2, <1>3, GrownPassed
<1>8. ConfirmedIsThere'
  <2>1. call.id \in Id
    BY CallFields DEF WriteInv, TypeOK
  <2>2. QED
    BY <1>1, <2>1, GrownConfirmed
<1>9. QED
  BY <1>4, <1>5, <1>6, <1>7, <1>8 DEF WriteInv

\* It waits for the same request.
LEMMA CallAsks ==
  ASSUME WriteInv, Active, Grown, alias' = alias, Asks(call), Counted,
         target \in Deezers \ Resending => list' = list,
         target # "apple" /\ target \notin Resending => landed' = landed,
         target = "apple" /\ Applies => call'.phase = "verify",
         target = "apple" /\ call.phase = "verify" /\ call'.phase # "verify" =>
           Copies(list, call.id) <= call.before
  PROVE  WriteInv'
<1>1. Waits(call) /\ call'.id = call.id
  BY DEF Asks
<1>2. DueOnce' /\ AppleCounts'
  BY DueWaits, AppleWaits
<1>3. target = "deezer" => list' = list
  BY DEF Deezers, Resending, Clients, DeezerClient, Client
<1>4. QED
  BY <1>1, <1>2, <1>3, CallWaits

\* It moves on.
LEMMA CallMoves ==
  ASSUME WriteInv, Active, Grown, AliasSound, NEW c \in WriteCall, MovesOn(c, alias'), Counted,
         c.kind = call.kind, c.keep = call.keep, call.unrestored \subseteq c.unrestored,
         Len(call.plan) <= Len(c.plan), \A j \in 1..Len(call.plan) : c.plan[j] = call.plan[j],
         PlanInShape', \A k \in landed' : \A n \in DOMAIN call'.todo : Asked(n)' => k < call'.todo[n].nth,
         \/ c.counts = call.counts
         \/ /\ c.counts = [call.counts EXCEPT ![call.id] = call.base + 1]
            /\ target = "apple" /\ Steady =>
                 /\ call.id \notin Gone
                 /\ Copies(list', call.id) >= call.before + 1 \/ call.id \in taken,
         NEW i \in Id, i = call.id,
         c.ok = call.ok \/ (c.ok = call.ok \cup {<<req.nth, call.id>>} /\ (req.nth \in landed' \/ HadIt(i)')),
         AllAccounted', KeepersSound'
  PROVE  WriteInv'
<1>1. /\ call' \in WriteCall /\ call'.plan = c.plan /\ call'.kind = call.kind /\ call'.ok = c.ok
      /\ call'.unrestored = c.unrestored /\ call'.phase # "verify"
  BY DEF MovesOn, Carries
<1>2. Extends
  BY <1>1 DEF Extends
<1>3. TypeOK'
  BY <1>1, TypesAfter
<1>4. MarksInOrder' /\ AppleCounts' /\ NothingPassedOver'
  BY <1>2, GrownMarks, AppleMoves, GrownPassed
<1>5. DueOnce'
  <2>1. CASE Active'
    BY <1>1, <2>1, DueMoves DEF Grown
  <2>2. CASE ~Active'
    BY <2>2, DueRests
  <2>3. QED
    BY <2>1, <2>2
<1>6. ConfirmedIsThere'
  <2>1. \A v \in call'.ok : v \notin call.ok => v[1] = req.nth /\ v[2] = call.id
    BY <1>1
  <2>2. call'.ok # call.ok => req.nth \in landed' \/ HadIt(i)'
    BY <1>1
  <2>3. QED
    BY <1>1, <2>1, <2>2, GrownConfirmed
<1>7. QED
  BY <1>3, <1>4, <1>5, <1>6 DEF WriteInv

\* It moves on to the next request of its plan.
LEMMA CallNext ==
  ASSUME WriteInv, Active, Grown, AliasSound, NEW c \in WriteCall, MovesOn(c, alias'), Counted,
         c.kind = call.kind, c.keep = call.keep, c.unrestored = call.unrestored, c.givenup = call.givenup,
         c.plan = call.plan, c.todo = call.todo,
         \/ c.counts = call.counts
         \/ /\ c.counts = [call.counts EXCEPT ![call.id] = call.base + 1]
            /\ target = "apple" /\ Steady =>
                 /\ call.id \notin Gone
                 /\ Copies(list', call.id) >= call.before + 1 \/ call.id \in taken,
         NEW i \in Id, i = call.id,
         c.ok = call.ok \/ (c.ok = call.ok \cup {<<req.nth, call.id>>} /\ (req.nth \in landed' \/ HadIt(i)')),
         NEW r, r = req.nth, Steady /\ req.do = "put" => Accounted(r)',
         target \in Deezers /\ call.kind = "drop" => Applies /\ req.do = "put"
  PROVE  WriteInv'
<1>1. PlanInShape /\ TypeOK /\ KeepersSound /\ AllAccounted
  BY DEF WriteInv
<1>2. /\ call'.todo = Tail(call.todo) /\ call'.plan = call.plan /\ call'.kind = call.kind
      /\ call'.unrestored = call.unrestored /\ call' \in WriteCall
  BY DEF MovesOn, Carries
<1>3. PICK place \in [1..Len(call'.todo) -> 2..Len(call.todo)] :
        /\ Shrinks(call.todo, call'.todo, place)
        /\ \A n \in 2..Len(call.todo) : \E m \in 1..Len(call'.todo) : place[m] = n
  BY <1>2, TailPlaces, SMTT(40)
<1>4. PlanInShape' /\ \A k \in landed' : \A n \in DOMAIN call'.todo : Asked(n)' => k < call'.todo[n].nth
  <2>1. alias' \in [Id -> Id]
    BY DEF AliasSound
  <2>2. QED
    BY <1>3, <2>1, PlanMoves
<1>5. /\ DOMAIN call'.todo = 1..Len(call'.todo) /\ DOMAIN call.todo = 1..Len(call.todo)
      /\ Len(call.todo) \in Nat /\ req = call.todo[1] /\ req.id \in Id
      /\ \A m \in 1..Len(call'.todo) : call'.todo[m] = call.todo[place[m]] /\ place[m] \in DOMAIN call.todo
  <2>1. /\ DOMAIN call.todo = 1..Len(call.todo) /\ Len(call.todo) \in Nat /\ req = call.todo[1] /\ req.id \in Id
        /\ call'.todo \in Seq(Request)
    BY <1>1, <1>2, ReqFacts
  <2>2. DOMAIN call'.todo = 1..Len(call'.todo)
    BY <2>1
  <2>3. ASSUME NEW m \in 1..Len(call'.todo)
        PROVE  call'.todo[m] = call.todo[place[m]] /\ place[m] \in DOMAIN call.todo
    <3>1. place[m] \in 2..Len(call.todo)
      BY <1>3
    <3>2. call'.todo[m] = call.todo[place[m]]
      BY <1>3 DEF Shrinks
    <3>3. QED
      BY <2>1, <3>1, <3>2
  <2>4. QED
    BY <2>1, <2>2, <2>3
<1>6. AllAccounted'
  <2>1. Extends
    BY <1>2, CallFields DEF Extends, WriteInv, TypeOK
  <2>2. ASSUME Steady, NEW n \in DOMAIN call.todo, NEW j \in 1..Len(call.plan), Asked(n), call.todo[n].nth = j
        PROVE  Accounted(j)' \/ \E m \in DOMAIN call'.todo : Asked(m)' /\ call'.todo[m].nth = j
    <3>1. CASE n = 1
      <4>1. req.do = "put" /\ j = r
        BY <1>5, <2>2, <3>1 DEF Asked
      <4>2. QED
        BY <2>2, <4>1
    <3>2. CASE n # 1
      <4>1. n \in 2..Len(call.todo)
        BY <1>5, <3>2
      <4>2. PICK m \in 1..Len(call'.todo) : place[m] = n
        BY <1>3, <4>1
      <4>3. call'.todo[m] = call.todo[n]
        BY <1>5, <4>2
      <4>4. QED
        BY <1>5, <2>2, <4>2, <4>3 DEF Asked
    <3>3. QED
      BY <3>1, <3>2
  <2>3. \A j \in DOMAIN call'.plan : j \in DOMAIN call.plan
    BY <1>2
  <2>4. QED
    BY <2>1, <2>2, <2>3, GrownAccounted
<1>7. KeepersSound'
  <2>1. ASSUME target \in Deezers, call.kind = "drop", NEW j \in Id
        PROVE  /\ Wiping(j)' => Wiping(j)
               /\ Wiping(j)' /\ target = "deezer" => CountIn(list', OwnOf(j)) >= CountIn(list, OwnOf(j))
               /\ \/ j \in c.unrestored \/ (target = "deezerweb" /\ j \in c.givenup) \/ Wiping(j)'
                  \/ CountIn(list', OwnOf(j)) + CountIn(call'.todo, PutsOf(j)) >= kept[j]
    <3>0. Applies /\ req.do = "put"
      BY <2>1
    <3>1. Wiping(j)' => Wiping(j)
      BY <1>5 DEF Wiping
    <3>2. Wiping(j) => Wiping(j)'
      <4>1. ASSUME NEW n \in DOMAIN call.todo, call.todo[n].do = "wipe", call.todo[n].id = j
            PROVE  \E m \in DOMAIN call'.todo : call'.todo[m].do = "wipe" /\ call'.todo[m].id = j
        <5>1. n \in 2..Len(call.todo)
          BY <1>5, <3>0, <4>1
        <5>2. PICK m \in 1..Len(call'.todo) : place[m] = n
          BY <1>3, <5>1
        <5>3. QED
          BY <1>5, <4>1, <5>2
      <4>2. QED
        BY <4>1 DEF Wiping
    <3>3. call.id = req.id
      <4>1. target # "apple"
        BY <2>1 DEF Deezers
      <4>2. QED
        BY <1>1, <4>1 DEF PlanInShape
    <3>4. CountIn(list', OwnOf(j)) = CountIn(list, OwnOf(j)) + IF j = req.id THEN 1 ELSE 0
      BY <2>1, <3>0, <3>3, GrownCounts
    <3>5. CountIn(call'.todo, PutsOf(j)) = CountIn(call.todo, PutsOf(j)) - IF req.id = j THEN 1 ELSE 0
      BY <1>2, <3>0, TailPlaces
    <3>6. /\ CountIn(list', OwnOf(j)) \in Nat /\ CountIn(list, OwnOf(j)) \in Nat
          /\ CountIn(call.todo, PutsOf(j)) \in Nat /\ CountIn(call'.todo, PutsOf(j)) \in Nat
      BY <1>2, GrownCounts, TailPlaces
    <3>7. \/ j \in call.unrestored \/ Lost(j) \/ Wiping(j)
          \/ CountIn(list, OwnOf(j)) + CountIn(call.todo, PutsOf(j)) >= kept[j]
      BY <1>1, <2>1 DEF KeepersSound
    <3>8. CASE CountIn(list, OwnOf(j)) + CountIn(call.todo, PutsOf(j)) >= kept[j]
      <4>1. CountIn(list', OwnOf(j)) + CountIn(call'.todo, PutsOf(j)) >= kept[j]
        BY <3>4, <3>5, <3>6, <3>8
      <4>2. QED
        BY <3>1, <3>4, <3>6, <4>1
    <3>9. QED
      BY <3>1, <3>2, <3>4, <3>6, <3>7, <3>8 DEF Lost
  <2>2. QED
    BY <2>1, KeepersMove
<1>8. QED
  BY <1>2, <1>4, <1>6, <1>7, CallMoves

\* It gives the present id up, or ends.
LEMMA CallGivesUp ==
  ASSUME WriteInv, Active, Grown, GiveUp(call), alias' = alias, target = "deezer" => list' = list, Counted
  PROVE  WriteInv'
<1> DEFINE c == [Leave(call) EXCEPT
                   !.unrestored = IF req.do = "put" THEN @ \cup {req.id} ELSE @,
                   !.givenup = IF req.do = "wipe" THEN @ \cup {req.id} ELSE @]
           d == Kept(Tail(call.todo), {q \in ToSet(call.todo) : q.id # req.id})
<1>1. PlanInShape /\ TypeOK /\ KeepersSound /\ AllAccounted
  BY DEF WriteInv
<1>2. /\ call \in WriteCall /\ req.id \in Id /\ req = call.todo[1] /\ Len(call.todo) \in Nat
      /\ DOMAIN call.todo = 1..Len(call.todo) /\ call.id \in Id
  BY <1>1, ReqFacts
<1>3. AliasSound
  BY AliasKept
<1>4. CASE ~(target \in Deezers /\ call.kind = "drop")
  <2>1. Stopped(call)
    BY <1>2, <1>4, StopShape DEF GiveUp
  <2>2. QED
    BY <2>1, CallStops
<1>5. CASE target \in Deezers /\ call.kind = "drop"
  <2>1. /\ Leave(call) \in WriteCall
        /\ Leave(call).todo # <<>> /\ Tail(Leave(call).todo) = d /\ d \in Seq(Request)
        /\ Leave(call).kind = call.kind /\ Leave(call).plan = call.plan /\ Leave(call).keep = call.keep
        /\ Leave(call).counts = call.counts /\ Leave(call).ok = call.ok
        /\ Leave(call).unrestored = call.unrestored /\ Leave(call).givenup = call.givenup
        /\ \A i : i # req.id => CountIn(d, PutsOf(i)) = CountIn(call.todo, PutsOf(i))
    BY LeavePlaces
  <2>2. PICK place \in [1..Len(d) -> 2..Len(call.todo)] :
          /\ Shrinks(call.todo, d, place)
          /\ \A n \in 2..Len(call.todo) : call.todo[n].id # req.id => \E m \in 1..Len(d) : place[m] = n
    BY LeavePlaces
  <2>3. Proceed(c, alias)
    BY <1>5 DEF GiveUp
  <2> DEFINE u == IF req.do = "put" THEN call.unrestored \cup {req.id} ELSE call.unrestored
             g == IF req.do = "wipe" THEN call.givenup \cup {req.id} ELSE call.givenup
             b == Leave(call)
  <2>4. u \in SUBSET Id /\ g \in SUBSET Id
    BY <1>2, CallFields
  <2>5. c = [b EXCEPT !.unrestored = u, !.givenup = g]
    BY <2>1 DEF WriteCall
  <2> HIDE DEF c, d, u, g, b
  <2>6. /\ c \in WriteCall /\ c.todo = b.todo /\ c.kind = b.kind /\ c.plan = b.plan /\ c.keep = b.keep
        /\ c.counts = b.counts /\ c.ok = b.ok /\ c.unrestored = u /\ c.givenup = g
    <3>1. b \in WriteCall
      BY <2>1 DEF b
    <3>2. QED
      BY <2>4, <2>5, <3>1 DEF WriteCall
  <2>7. /\ c.todo # <<>> /\ Tail(c.todo) = d /\ c.kind = call.kind /\ c.plan = call.plan
        /\ c.keep = call.keep /\ c.counts = call.counts /\ c.ok = call.ok
    BY <2>1, <2>6 DEF b
  <2>8. MovesOn(c, alias)
    BY <1>1, <2>3, <2>6, <2>7, ProceedShape DEF TypeOK
  <2>9. /\ call' \in WriteCall /\ call'.todo = d /\ call'.plan = call.plan /\ call'.kind = call.kind
        /\ call'.unrestored = u /\ call'.givenup = g
    BY <2>6, <2>7, <2>8 DEF MovesOn, Carries
  <2>10. DOMAIN call'.todo = 1..Len(call'.todo)
    BY <2>1, <2>9
  <2>11. ASSUME NEW m \in 1..Len(call'.todo)
         PROVE  call'.todo[m] = call.todo[place[m]] /\ place[m] \in DOMAIN call.todo
    <3>1. place[m] \in 2..Len(call.todo)
      BY <2>2, <2>9
    <3>2. call'.todo[m] = call.todo[place[m]]
      BY <2>2, <2>9 DEF Shrinks
    <3>3. QED
      BY <1>2, <3>1, <3>2
  <2>12. ASSUME NEW n \in DOMAIN call.todo, call.todo[n].id # req.id
         PROVE  \E m \in DOMAIN call'.todo : call'.todo[m] = call.todo[n]
    <3>1. n \in 2..Len(call.todo)
      BY <1>2, <2>12
    <3>2. PICK m \in 1..Len(d) : place[m] = n
      BY <2>2, <2>12, <3>1
    <3>3. QED
      BY <2>9, <2>10, <2>11, <3>2
  <2>13. /\ PlanInShape'
         /\ \A k \in landed' : \A n \in DOMAIN call'.todo : Asked(n)' => k < call'.todo[n].nth
    <3>1. Shrinks(call.todo, call'.todo, place) /\ place \in [1..Len(call'.todo) -> 2..Len(call.todo)]
      BY <2>2, <2>9
    <3>2. alias \in [Id -> Id]
      BY <1>1 DEF TypeOK
    <3>3. QED
      BY <2>6, <2>7, <2>8, <3>1, <3>2, PlanMoves
  <2>14. call.unrestored \subseteq u /\ call.givenup \subseteq g
    BY DEF u, g
  <2>15. AllAccounted'
    <3>1. Extends
      BY <1>2, <2>9, <2>14, CallFields DEF Extends
    <3>2. ASSUME NEW n \in DOMAIN call.todo, NEW j \in 1..Len(call.plan), Asked(n), call.todo[n].nth = j
          PROVE  Accounted(j)' \/ \E m \in DOMAIN call'.todo : Asked(m)' /\ call'.todo[m].nth = j
      <4>1. CASE call.todo[n].id = req.id
        <5>1. req.do = "put"
          BY <3>2, ReqKinds
        <5>2. call.plan[j] = call.todo[n]
          BY <1>1, <3>2 DEF PlanInShape
        <5>3. call'.plan[j].id \in call'.unrestored
          BY <2>9, <4>1, <5>1, <5>2 DEF u
        <5>4. QED
          BY <5>3 DEF Accounted
      <4>2. CASE call.todo[n].id # req.id
        <5>1. PICK m \in DOMAIN call'.todo : call'.todo[m] = call.todo[n]
          BY <2>12, <4>2
        <5>2. QED
          BY <3>2, <5>1 DEF Asked
      <4>3. QED
        BY <4>1, <4>2
    <3>3. \A j \in DOMAIN call'.plan : j \in DOMAIN call.plan
      BY <2>9
    <3>4. QED
      BY <1>3, <3>1, <3>2, <3>3, GrownAccounted
  <2>16. ASSUME NEW i \in Id
         PROVE  /\ Wiping(i)' => Wiping(i)
                /\ Wiping(i)' /\ target = "deezer" => CountIn(list', OwnOf(i)) >= CountIn(list, OwnOf(i))
                /\ \/ i \in c.unrestored \/ (target = "deezerweb" /\ i \in c.givenup) \/ Wiping(i)'
                   \/ CountIn(list', OwnOf(i)) + CountIn(call'.todo, PutsOf(i)) >= kept[i]
    <3>1. Wiping(i)' => Wiping(i)
      BY <2>10, <2>11 DEF Wiping
    <3>2. /\ CountIn(list', OwnOf(i)) \in Nat /\ CountIn(list, OwnOf(i)) \in Nat /\ kept[i] \in Nat
          /\ CountIn(call'.todo, PutsOf(i)) \in Nat /\ CountIn(call.todo, PutsOf(i)) \in Nat
      BY <1>1, <1>2, <2>1, <2>9, CountFacts, GrownCounts, KeepersGrown, CallFields
    <3>3. target = "deezer" => CountIn(list', OwnOf(i)) >= CountIn(list, OwnOf(i))
      BY <3>2
    <3>4. req.do = "put" \/ req.do = "wipe"
      BY <1>5, ReqKinds
    <3>5. CASE i = req.id /\ req.do = "put"
      BY <2>6, <3>1, <3>3, <3>5 DEF u
    <3>6. CASE i = req.id /\ req.do = "wipe"
      <4>1. Wiping(i)
        BY <1>2, <3>6, <1>1, ReqFacts DEF Wiping
      <4>2. CASE target = "deezerweb"
        BY <2>6, <3>1, <3>3, <3>6, <4>2 DEF g
      <4>3. CASE target = "deezer"
        <5>1. CountIn(list', OwnOf(i)) >= kept[i]
          BY <1>1, <1>5, <4>1, <4>3 DEF KeepersSound
        <5>2. QED
          BY <3>1, <3>2, <3>3, <5>1
      <4>4. QED
        BY <1>5, <4>2, <4>3 DEF Deezers
    <3>7. CASE i # req.id
      <4>1. Wiping(i) => Wiping(i)'
        BY <2>12, <3>7 DEF Wiping
      <4>2. CountIn(list', OwnOf(i)) >= CountIn(list, OwnOf(i))
        BY <3>2, <3>4, <3>7, GrownCounts
      <4>3. CountIn(call'.todo, PutsOf(i)) = CountIn(call.todo, PutsOf(i))
        BY <2>1, <2>9, <3>7
      <4>4. \/ i \in call.unrestored \/ Lost(i) \/ Wiping(i)
            \/ CountIn(list, OwnOf(i)) + CountIn(call.todo, PutsOf(i)) >= kept[i]
        BY <1>1, <1>5 DEF KeepersSound
      <4>5. CASE CountIn(list, OwnOf(i)) + CountIn(call.todo, PutsOf(i)) >= kept[i]
        <5>1. CountIn(list', OwnOf(i)) + CountIn(call'.todo, PutsOf(i)) >= kept[i]
          BY <3>2, <4>2, <4>3, <4>5
        <5>2. QED
          BY <3>1, <3>3, <5>1
      <4>6. QED
        BY <2>6, <2>14, <3>1, <3>3, <4>1, <4>4, <4>5 DEF Lost
    <3>8. QED
      BY <3>4, <3>5, <3>6, <3>7
  <2>17. KeepersSound'
    BY <2>6, <2>7, <2>8, <2>16, KeepersMove
  <2>18. QED
    <3>1. PICK i \in Id : i = call.id
      BY <1>2
    <3>2. MovesOn(c, alias')
      BY <2>8
    <3>3. /\ c.kind = call.kind /\ c.keep = call.keep /\ call.unrestored \subseteq c.unrestored
          /\ Len(call.plan) <= Len(c.plan) /\ \A j \in 1..Len(call.plan) : c.plan[j] = call.plan[j]
      BY <1>2, <2>6, <2>7, <2>14, CallFields
    <3>4. QED
      BY <1>3, <2>6, <2>7, <2>13, <2>15, <2>17, <3>1, <3>2, <3>3, CallMoves
<1>6. QED
  BY <1>4, <1>5

\* It appends again what a removal has to leave.
LEMMA CallRestores ==
  ASSUME WriteInv, Active, Grown, alias' = alias, req.do = "wipe", Counted,
         NEW c \in WriteCall, MovesOn(c, alias'), c.kind = call.kind, c.keep = call.keep,
         c.unrestored = call.unrestored, c.givenup = call.givenup, c.counts = call.counts, c.ok = call.ok,
         NEW puts \in Seq(Request), Len(puts) = call.keep[req.id],
         \A k \in 1..Len(puts) : puts[k] = [do |-> "put", id |-> req.id, nth |-> Len(call.plan) + k],
         c.plan = call.plan \o puts, Tail(c.todo) = puts \o Tail(call.todo)
  PROVE  WriteInv'
<1> DEFINE p == Len(call.plan)  m == Len(puts)  r == Len(call.todo) - 1
<1>1. PlanInShape /\ TypeOK /\ KeepersSound /\ AllAccounted
  BY DEF WriteInv
<1>2. /\ call.todo \in Seq(Request) /\ r \in Nat /\ Len(call.todo) = r + 1 /\ DOMAIN call.todo = 1..(r + 1)
      /\ Tail(call.todo) \in Seq(Request) /\ Len(Tail(call.todo)) = r
      /\ \A n \in 1..r : Tail(call.todo)[n] = call.todo[n + 1]
      /\ req = call.todo[1] /\ req.id \in Id /\ call.id \in Id /\ call \in WriteCall
  BY <1>1, ReqFacts
<1>3. p \in Nat /\ m \in Nat /\ call.plan \in Seq(Request) /\ DOMAIN call.plan = 1..p /\ call.keep \in [Id -> Nat]
  BY <1>2, CallFields
<1>4. /\ call'.todo = puts \o Tail(call.todo) /\ call'.plan = call.plan \o puts /\ call'.kind = call.kind
      /\ call' \in WriteCall /\ call'.unrestored = call.unrestored
  BY DEF MovesOn, Carries
<1>5. target \in Deezers /\ call.kind = "drop" /\ \A n \in DOMAIN call.todo : ~Asked(n)
  BY ReqKinds
<1>6. AliasSound /\ alias' \in [Id -> Id]
  BY <1>1, AliasKept DEF TypeOK
<1> HIDE DEF p, m, r
<1>7. /\ DOMAIN call'.todo = 1..(m + r)
      /\ \A n \in 1..(m + r) : call'.todo[n] = IF n <= m THEN puts[n] ELSE call.todo[(n - m) + 1]
  <2>1. /\ puts \o Tail(call.todo) \in Seq(Request) /\ Len(puts \o Tail(call.todo)) = m + r
        /\ \A n \in 1..(m + r) : (puts \o Tail(call.todo))[n] = IF n <= m THEN puts[n] ELSE Tail(call.todo)[n - m]
    BY <1>2, ConcatProperties, ZenonT(40) DEF m
  <2>2. \A n \in 1..(m + r) : ~(n <= m) => n - m \in 1..r
    BY <1>2, <1>3, Remainder, Zenon
  <2>3. DOMAIN (puts \o Tail(call.todo)) = 1..(m + r)
    BY <2>1
  <2>4. QED
    BY <1>2, <1>4, <2>1, <2>2, <2>3
<1>8. /\ Len(call'.plan) = p + m /\ DOMAIN call'.plan = 1..(p + m)
      /\ \A k \in 1..(p + m) : call'.plan[k] = IF k <= p THEN call.plan[k] ELSE puts[k - p]
  <2>1. /\ call.plan \o puts \in Seq(Request) /\ Len(call.plan \o puts) = p + m
        /\ \A k \in 1..(p + m) : (call.plan \o puts)[k] = IF k <= p THEN call.plan[k] ELSE puts[k - p]
    BY <1>3, ConcatProperties, ZenonT(40) DEF p, m
  <2>2. QED
    BY <1>4, <2>1
<1>9. Len(call.plan) <= Len(c.plan) /\ \A j \in 1..Len(call.plan) : c.plan[j] = call.plan[j]
  <2>1. c.plan = call'.plan
    BY <1>4
  <2>2. \A j \in 1..p : j \in 1..(p + m) /\ j <= p
    BY <1>3
  <2>3. QED
    BY <1>3, <1>8, <2>1, <2>2 DEF p
<1>10. Extends
  BY <1>2, <1>4, <1>9, CallFields DEF Extends
<1>11. /\ PlanInShape'
       /\ \A k \in landed' : \A n \in DOMAIN call'.todo : Asked(n)' => k < call'.todo[n].nth
  BY <1>6, PlanRestores
<1>12. \A n \in 1..m : /\ n \in DOMAIN call'.todo /\ call'.todo[n].do = "put"
                       /\ call'.todo[n].id = req.id /\ call'.todo[n].nth = p + n
  <2>1. \A n \in 1..m : n \in 1..(m + r) /\ n <= m
    BY <1>2, <1>3
  <2>2. \A n \in 1..m : puts[n] = [do |-> "put", id |-> req.id, nth |-> p + n]
    BY DEF m, p
  <2>3. \A n \in 1..m : call'.todo[n] = puts[n]
    BY <1>7, <2>1
  <2>4. ASSUME NEW n \in 1..m PROVE puts[n].do = "put" /\ puts[n].id = req.id /\ puts[n].nth = p + n
    <3>1. puts[n] = [do |-> "put", id |-> req.id, nth |-> p + n]
      BY <2>2
    <3>2. QED
      BY <3>1
  <2>5. QED
    BY <1>7, <2>1, <2>3, <2>4
<1>13. AllAccounted'
  <2>1. ASSUME NEW j \in DOMAIN call'.plan, j \notin DOMAIN call.plan
        PROVE  \E n \in DOMAIN call'.todo : Asked(n)' /\ call'.todo[n].nth = j
    <3>1. j - p \in 1..m /\ p + (j - p) = j
      BY <1>3, <1>8, <2>1
    <3>2. QED
      BY <1>12, <3>1 DEF Asked
  <2>2. QED
    BY <1>5, <1>6, <1>10, <2>1, GrownAccounted
<1>14. ASSUME NEW i \in Id
       PROVE  /\ Wiping(i)' => Wiping(i) /\ i # req.id
              /\ Wiping(i) /\ i # req.id => Wiping(i)'
  <2>1. ASSUME NEW n \in DOMAIN call'.todo, call'.todo[n].do = "wipe", call'.todo[n].id = i
        PROVE  Wiping(i) /\ i # req.id
    <3>1. ~(n <= m)
      BY <1>3, <1>7, <1>12, <2>1
    <3>2. n \in 1..(m + r) /\ r \in Nat /\ m \in Nat /\ DOMAIN call.todo = 1..(r + 1)
      BY <1>2, <1>3, <1>7
    <3>3. (n - m) + 1 \in 1..(r + 1) /\ (n - m) + 1 # 1 /\ 1 \in 1..(r + 1)
      BY <3>1, <3>2
    <3>4. call'.todo[n] = call.todo[(n - m) + 1]
      BY <1>7, <3>1, <3>2
    <3>5. call.todo[1].do = "wipe"
      BY <1>2
    <3>6. call.todo[(n - m) + 1].id # call.todo[1].id
      <4>1. \A a, b \in DOMAIN call.todo :
              a # b /\ call.todo[a].do = "wipe" /\ call.todo[b].do = "wipe" => call.todo[a].id # call.todo[b].id
        BY <1>1 DEF PlanInShape
      <4>2. PICK a \in DOMAIN call.todo : a = (n - m) + 1
        BY <3>2, <3>3
      <4>3. call.todo[a].do = "wipe" /\ a # 1 /\ 1 \in DOMAIN call.todo
        BY <2>1, <3>2, <3>3, <3>4, <4>2
      <4>4. QED
        BY <3>5, <4>1, <4>2, <4>3
    <3>7. QED
      BY <1>2, <2>1, <3>2, <3>3, <3>4, <3>6 DEF Wiping
  <2>2. ASSUME NEW n \in DOMAIN call.todo, call.todo[n].do = "wipe", call.todo[n].id = i, i # req.id
        PROVE  \E k \in DOMAIN call'.todo : call'.todo[k].do = "wipe" /\ call'.todo[k].id = i
    <3>1. n # 1
      BY <1>2, <2>2
    <3>2. n \in 1..(r + 1) /\ r \in Nat /\ m \in Nat
      BY <1>2, <1>3
    <3>3. (n - 1) + m \in 1..(m + r) /\ ~((n - 1) + m <= m) /\ (((n - 1) + m) - m) + 1 = n
      BY <3>1, <3>2
    <3>4. call'.todo[(n - 1) + m] = call.todo[n]
      BY <1>7, <3>3
    <3>5. QED
      BY <1>7, <2>2, <3>3, <3>4
  <2>3. QED
    BY <2>1, <2>2 DEF Wiping
<1>15. ASSUME NEW i \in Id
       PROVE  /\ Wiping(i)' => Wiping(i)
              /\ Wiping(i)' /\ target = "deezer" => CountIn(list', OwnOf(i)) >= CountIn(list, OwnOf(i))
              /\ \/ i \in c.unrestored \/ (target = "deezerweb" /\ i \in c.givenup) \/ Wiping(i)'
                 \/ CountIn(list', OwnOf(i)) + CountIn(call'.todo, PutsOf(i)) >= kept[i]
  <2>1. /\ CountIn(list', OwnOf(i)) \in Nat /\ CountIn(list, OwnOf(i)) \in Nat /\ kept[i] \in Nat
        /\ CountIn(call.todo, PutsOf(i)) \in Nat /\ CountIn(call'.todo, PutsOf(i)) \in Nat
        /\ CountIn(Tail(call.todo), PutsOf(i)) \in Nat
    <3>1. call'.todo \in Seq(Request)
      BY <1>4, CallFields
    <3>2. QED
      BY <1>2, <3>1, CountFacts, GrownCounts, KeepersGrown
  <2>2. i # req.id => CountIn(list', OwnOf(i)) = CountIn(list, OwnOf(i))
    BY GrownCounts
  <2>3. CASE i = req.id
    <3>1. Wiping(i)
      <4>1. 1 \in DOMAIN call.todo
        BY <1>2
      <4>2. QED
        BY <1>2, <2>3, <4>1 DEF Wiping
    <3>2. m >= kept[i]
      BY <1>1, <1>5, <2>3, <3>1 DEF KeepersSound, m
    <3>3. \A k \in 1..Len(puts) : puts[k] \in PutsOf(i)
      <4>1. ASSUME NEW k \in 1..Len(puts) PROVE puts[k] \in PutsOf(i)
        <5>1. puts[k] \in Request
          BY <4>1
        <5>2. puts[k] = [do |-> "put", id |-> req.id, nth |-> Len(call.plan) + k]
          BY <4>1
        <5>3. puts[k].do = "put" /\ puts[k].id = i
          BY <2>3, <5>2
        <5>4. QED
          BY <5>1, <5>3, PutFacts
      <4>2. QED
        BY <4>1
    <3>4. CountIn(call'.todo, PutsOf(i)) >= m
      BY <1>2, <1>4, <3>3, CountJoined DEF m
    <3>5. CountIn(list', OwnOf(i)) + CountIn(call'.todo, PutsOf(i)) >= kept[i]
      BY <1>3, <2>1, <3>2, <3>4
    <3>6. QED
      BY <1>14, <2>3, <3>5
  <2>4. CASE i # req.id
    <3>1. CountIn(call'.todo, PutsOf(i)) >= CountIn(call.todo, PutsOf(i))
      <4>1. CountIn(call'.todo, PutsOf(i)) >= CountIn(Tail(call.todo), PutsOf(i))
        BY <1>2, <1>4, CountJoined
      <4>2. CountIn(Tail(call.todo), PutsOf(i)) = CountIn(call.todo, PutsOf(i))
        BY <2>1, <2>4, TailPlaces
      <4>3. QED
        BY <4>1, <4>2
    <3>2. \/ i \in call.unrestored \/ Lost(i) \/ Wiping(i)
          \/ CountIn(list, OwnOf(i)) + CountIn(call.todo, PutsOf(i)) >= kept[i]
      BY <1>1, <1>5 DEF KeepersSound
    <3>3. CASE CountIn(list, OwnOf(i)) + CountIn(call.todo, PutsOf(i)) >= kept[i]
      <4>1. CountIn(list', OwnOf(i)) + CountIn(call'.todo, PutsOf(i)) >= kept[i]
        BY <2>1, <2>2, <2>4, <3>1, <3>3
      <4>2. QED
        BY <1>14, <2>1, <2>2, <2>4, <4>1
    <3>4. QED
      BY <1>14, <2>1, <2>2, <2>4, <3>2, <3>3 DEF Lost
  <2>5. QED
    BY <2>3, <2>4
<1>16. KeepersSound'
  BY <1>15, KeepersMove
<1>17. QED
  <2>1. PICK i \in Id : i = call.id
    BY <1>2
  <2>2. call.unrestored \subseteq c.unrestored
    OBVIOUS
  <2>3. QED
    BY <1>6, <1>9, <1>11, <1>13, <1>16, <2>1, <2>2, CallMoves

\* Apple's client asks for another release of a song the provider no longer takes.
LEMMA CallReplaces ==
  ASSUME WriteInv, Active, Grown, UNCHANGED <<list, landed, alias>>, target = "apple", Counted,
         NewId[call.id] # call.id, ~call.fixed, Waits(call), call'.id = NewId[call.id],
         call'.base = call.base, call'.before = 0, call'.fixed, ~call'.bad
  PROVE  WriteInv'
<1>1. PlanInShape /\ TypeOK /\ AppleCounts /\ DueOnce
  BY DEF WriteInv
<1>2. call.id \in Id /\ req.id \in Id /\ call \in WriteCall
  BY <1>1, ReqFacts
<1>3. /\ call'.todo = call.todo /\ call'.counts = call.counts /\ target' = target /\ taken' = taken
      /\ Active' /\ req' = req /\ call' \in WriteCall
  BY DEF Waits, Carries, Grown, Active, req
<1>4. Steady' <=> Steady
  BY <1>3 DEF Steady
<1>5. Steady => call.id \in Gone
  BY <1>2 DEF Steady
<1>6. AppleCounts'
  <2>1. ASSUME Steady
        PROVE  /\ \A i \in Id : call'.counts[i] <= Copies(list', i) \/ i \in taken'
               /\ \A i \in Gone : call'.counts[i] = 0
               /\ \A i \in Id \ Gone : alias'[i] = i
    <3>1. \A i : Copies(list', i) = Copies(list, i)
      BY DEF Copies
    <3>2. QED
      BY <1>1, <1>3, <2>1, <3>1 DEF AppleCounts
  <2>2. ASSUME Steady
        PROVE  /\ call'.before <= Copies(list', call'.id) \/ call'.id \in taken'
               /\ call'.base = call'.before
               /\ call'.id = req'.id \/ req'.id \in Gone
    <3>1. list \in Seq(Entry)
      BY <1>1 DEF TypeOK
    <3>2. Copies(list, call'.id) \in Nat /\ Copies(list', call'.id) = Copies(list, call'.id)
      BY <3>1, CopiesCounted DEF Copies
    <3>3. call.base = 0
      BY <1>1, <1>5, <2>2 DEF AppleCounts
    <3>4. req.id \in Gone
      BY <1>1, <1>5, <2>2 DEF AppleCounts
    <3>5. QED
      BY <1>3, <3>2, <3>3, <3>4
  <2>3. QED
    BY <1>3, <1>4, <2>1, <2>2 DEF AppleCounts
<1>7. DueOnce'
  <2>1. Steady /\ target \notin Resending => req.nth \notin landed
    BY <1>1, <1>5 DEF DueOnce
  <2>2. QED
    BY <1>3, <1>4, <2>1 DEF DueOnce
<1>8. QED
  BY <1>6, <1>7, CallWaits

-----------------------------------------------------------------------------
\* Each step of a call.
LEMMA CallSends ==
  ASSUME WriteInv
  PROVE  /\ Sending \/ Verifying => Active
         /\ Verifying => target = "apple"
         /\ call \in WriteCall /\ alias \in [Id -> Id] /\ call.todo \in Seq(Request)
         /\ Active => call.todo # <<>>
         /\ {faults, edits, calls} \subseteq Nat
         /\ Fault => Counted
<1>1. TypeOK /\ PlanInShape
  BY DEF WriteInv
<1>2. call \in WriteCall
  BY <1>1 DEF TypeOK
<1>3. Fault => Counted
  BY <1>1 DEF TypeOK, Fault, Counted
<1>4. QED
  BY <1>1, <1>2, <1>3, CallFields DEF TypeOK, PlanInShape, Sending, Verifying, Active

\* What Apple's client sends and the provider takes is in the playlist.
LEMMA AppleApplies ==
  ASSUME WriteInv, target = "apple", Applies, Grown
  PROVE  /\ list' # list /\ call.id \in seen' /\ call.id \notin Gone /\ req.nth \in landed'
         /\ Steady => Copies(list', call.id) >= call.before + 1 \/ call.id \in taken
<1>1. Active /\ TypeOK /\ PlanInShape
  BY CallSends DEF Applies, WriteInv
<1>2. req.do = "put" /\ call.id \in Id /\ target \notin Suppressing
  BY <1>1, AppleAsks
<1>3. list \in Seq(Entry) /\ Len(list) \in Nat /\ call.before \in Nat
  BY <1>1, CallFields DEF TypeOK
<1>4. Len(list') = Len(list) + 1 /\ call.id \in seen' /\ req.nth \in landed'
  BY <1>1, <1>2, PutGrown
<1>5. list' # list
  BY <1>3, <1>4
<1>6. call.id \notin Gone
  BY <1>2 DEF Applies, Refuses
<1>7. ASSUME Steady PROVE Copies(list', call.id) >= call.before + 1 \/ call.id \in taken
  <2>1. call.before <= Copies(list, call.id) \/ call.id \in taken
    BY <1>1, <1>7 DEF WriteInv, AppleCounts
  <2>2. Copies(list', call.id) > Copies(list, call.id)
        /\ Copies(list', call.id) \in Nat /\ Copies(list, call.id) \in Nat
    BY <1>1, <1>2, <1>5, GrownCounts
  <2>3. QED
    BY <1>3, <2>1, <2>2
<1>8. QED
  BY <1>4, <1>5, <1>6, <1>7

LEMMA AcceptedHolds ==
  ASSUME WriteInv, Accepted
  PROVE  WriteInv'
<1> DEFINE c == [Answered(call) EXCEPT !.size = @ + 1]
           puts == [k \in 1..call.keep[req.id] |->
                      [do |-> "put", id |-> req.id, nth |-> Len(call.plan) + k]]
<1>1. Active /\ Applies /\ Grown /\ TypeOK /\ PlanInShape
  BY CallSends DEF Accepted, Applies, Grown, WriteInv
<1>2. Counted
  BY CallSends DEF Accepted, Counted
<1>3. call.id \in Id /\ req.id \in Id /\ req.nth \in Nat /\ call \in WriteCall
      /\ req.do \in {"put", "cut", "sweep", "wipe"}
  BY <1>1, ReqFacts
<1>4. CASE target = "qobuz" /\ Stop(call)
  <2>1. alias' = alias
    BY <1>4 DEF Accepted, Written
  <2>2. QED
    BY <1>1, <1>2, <1>3, <1>4, <2>1, StopShape, CallStops
<1>5. CASE Proceed(c, Written)
  <2>1. /\ c \in WriteCall /\ c.todo # <<>>
        /\ c.kind = call.kind /\ c.keep = call.keep
        /\ c.unrestored = call.unrestored /\ c.givenup = call.givenup
        /\ req.do = "put" => /\ c.ok = call.ok \cup {<<req.nth, call.id>>}
                             /\ c.counts = [call.counts EXCEPT ![call.id] = call.base + 1]
        /\ req.do # "put" => c.ok = call.ok /\ c.counts = call.counts
        /\ req.do # "wipe" => c.plan = call.plan /\ c.todo = call.todo
        /\ req.do = "wipe" => /\ c.plan = call.plan \o puts /\ Tail(c.todo) = puts \o Tail(call.todo)
                              /\ puts \in Seq(Request) /\ Len(puts) = call.keep[req.id]
    BY <1>1, AnsweredShape
  <2>2. Proceed(c, Written)
    BY <1>5
  <2>3. \A k \in 1..Len(puts) : puts[k] = [do |-> "put", id |-> req.id, nth |-> Len(call.plan) + k]
    <3>1. CASE req.do = "wipe"
      BY <2>1, <3>1
    <3>2. CASE req.do # "wipe"
      <4>1. call.keep[req.id] \in Nat
        BY <1>3, CallFields
      <4>2. Len(puts) = call.keep[req.id]
        BY <4>1
      <4>3. QED
        BY <4>2
    <3>3. QED
      BY <3>1, <3>2
  <2> HIDE DEF c
  <2> HIDE DEF puts
  <2>4. alias' = Written /\ Written \in [Id -> Id]
    BY <1>1, <1>3 DEF Accepted, Written, TypeOK
  <2>5. AliasSound
    <3>1. CASE target = "apple"
      BY <1>1, <2>4, <3>1, AppleApplies DEF AliasSound, Written
    <3>2. CASE target # "apple"
      BY <2>4, <3>2 DEF AliasSound, Written
    <3>3. QED
      BY <3>1, <3>2
  <2>6. MovesOn(c, alias')
    BY <2>1, <2>2, <2>4, ProceedShape
  <2>7. call'.kind = call.kind /\ call'.plan = c.plan
    BY <2>1, <2>6 DEF MovesOn, Carries
  <2>8. CASE req.do = "put"
    <3>1. PICK i \in Id : i = call.id
      BY <1>3
    <3>2. PICK r \in Nat : r = req.nth
      BY <1>3
    <3>3. (req.nth \in landed' \/ HadIt(i)') /\ Accounted(r)'
      <4>1. CASE req.nth \in landed'
        BY <3>2, <4>1 DEF Accounted
      <4>2. CASE req.nth \notin landed'
        <5>1. call.kind = "add" /\ target \in Suppressing /\ call.id \in Ids(list)
          BY <1>1, <2>8, <4>2, PutGrown
        <5>2. call.id \in seen
          BY <1>1, <5>1 DEF Ids, WriteInv, MarksInOrder
        <5>3. HadIt(i)'
          BY <1>1, <2>7, <3>1, <5>1, <5>2, GrownTypes DEF HadIt, Grown
        <5>4. call'.plan[r].id = i
          <6>1. target # "apple" /\ call.plan[req.nth] = req
            BY <1>1, <2>8, <5>1, ReqKinds DEF Suppressing
          <6>2. QED
            BY <1>1, <2>1, <2>7, <2>8, <3>1, <3>2, <6>1 DEF PlanInShape
        <5>5. QED
          BY <5>3, <5>4 DEF Accounted
      <4>3. QED
        BY <4>1, <4>2
    <3>4. target = "apple" /\ Steady => /\ call.id \notin Gone
                                        /\ Copies(list', call.id) >= call.before + 1 \/ call.id \in taken
      BY <1>1, AppleApplies
    <3>5. QED
      BY <1>1, <1>2, <2>1, <2>5, <2>6, <2>8, <3>1, <3>2, <3>3, <3>4, CallNext
  <2>9. CASE req.do \in {"cut", "sweep"}
    <3>1. PICK i \in Id : i = call.id
      BY <1>3
    <3>2. PICK r \in Nat : r = req.nth
      BY <1>3
    <3>3. target \notin Deezers
      BY <1>1, <2>9, ReqKinds
    <3>4. QED
      BY <1>1, <1>2, <2>1, <2>5, <2>6, <2>9, <3>1, <3>2, <3>3, CallNext
  <2>10. CASE req.do = "wipe"
    <3>1. alias' = alias
      BY <1>1, <2>4, <2>10, ReqKinds DEF Written, Deezers
    <3>2. QED
      BY <1>1, <1>2, <2>1, <2>3, <2>6, <2>10, <3>1, CallRestores
  <2>11. QED
    BY <1>3, <2>8, <2>9, <2>10
<1>6. QED
  BY <1>4, <1>5 DEF Accepted

\* A request is sent again, or the call ends.
LEMMA CallRepeats ==
  ASSUME WriteInv, Sending, Grown, UNCHANGED <<list, landed, seen, alias>>, Counted,
         Stopped(call) \/ Asks(call)
  PROVE  WriteInv'
<1>1. Active /\ call.phase = "send"
  BY CallSends DEF Sending
<1>2. CASE Stopped(call)
  BY <1>1, <1>2, CallStops
<1>3. CASE Asks(call)
  <2>1. target = "apple" => ~Applies
    BY AppleApplies
  <2>2. QED
    BY <1>1, <1>3, <2>1, CallAsks
<1>4. QED
  BY <1>2, <1>3

\* The person does nothing at that moment.
LEMMA FaultGrows ==
  ASSUME WriteInv, Fault
  PROVE  /\ UNCHANGED <<list, landed, seen>> => Grown
         /\ Sending /\ ~Refuses /\ Apply => Grown
         /\ alias' = alias /\ Counted
  BY CallSends DEF Fault, Grown, Applies

LEMMA ThrottleHolds ==
  ASSUME WriteInv, Throttle
  PROVE  WriteInv'
<1>1. Sending /\ Grown /\ UNCHANGED <<list, landed, seen, alias>> /\ Counted /\ call \in WriteCall
  BY CallSends, FaultGrows DEF Throttle
<1>2. Stop(call) \/ Again(call)
  BY DEF Throttle
<1>3. QED
  BY <1>1, <1>2, StopShape, AgainShape, CallRepeats DEF Sending

LEMMA UnauthorisedHolds ==
  ASSUME WriteInv, Unauthorised
  PROVE  WriteInv'
<1> DEFINE c == [call EXCEPT !.renewed = TRUE]
<1>1. Sending /\ Grown /\ UNCHANGED <<list, landed, seen, alias>> /\ Counted /\ call \in WriteCall /\ Active
  BY CallSends, FaultGrows DEF Unauthorised
<1>2. CASE Stop(call)
  BY <1>1, <1>2, StopShape, CallRepeats
<1>3. CASE Again(c)
  <2>1. c \in WriteCall
    BY <1>1 DEF WriteCall
  <2>2. /\ c.kind = call.kind /\ c.plan = call.plan /\ c.keep = call.keep /\ c.counts = call.counts
        /\ c.ok = call.ok /\ c.unrestored = call.unrestored /\ c.givenup = call.givenup /\ c.todo = call.todo
        /\ c.id = call.id /\ c.base = call.base /\ c.before = call.before /\ c.fixed = call.fixed
        /\ c.bad = call.bad /\ c.phase = call.phase
    BY <1>1 DEF WriteCall
  <2>3. Again(c)
    BY <1>3
  <2> HIDE DEF c
  <2>4. Stopped(c) \/ Asks(c)
    BY <1>1, <2>1, <2>2, <2>3, AgainShape DEF Sending
  <2>5. Stopped(call) \/ Asks(call)
    BY <2>2, <2>4 DEF Stopped, Asks, Waits, Carries
  <2>6. QED
    BY <1>1, <2>5, CallRepeats
<1>4. CASE GiveUp(call)
  BY <1>1, <1>4, CallGivesUp
<1>5. QED
  BY <1>2, <1>3, <1>4 DEF Unauthorised

LEMMA GarbleHolds ==
  ASSUME WriteInv, Garble
  PROVE  WriteInv'
<1>1. Sending /\ alias' = alias /\ Counted /\ Active /\ GiveUp(call) /\ Grown
  BY CallSends, FaultGrows DEF Garble
<1>2. target = "deezer" => list' = list
  BY DEF Garble
<1>3. QED
  BY <1>1, <1>2, CallGivesUp

\* Which clients send a write again when its answer is lost.
LEMMA WhoResends ==
  ASSUME WriteInv
  PROVE  Self.resends => target \in Resending
<1>1. target \in DOMAIN Clients
  BY TargetAssumption DEF WriteInv, TypeOK
<1>2. QED
  BY <1>1 DEF Self, Resending

LEMMA LoseHolds ==
  ASSUME WriteInv, Lose
  PROVE  WriteInv'
<1>1. Sending /\ alias' = alias /\ Counted /\ Active /\ Grown /\ call \in WriteCall /\ call.phase = "send"
  BY CallSends, FaultGrows DEF Lose, Sending
<1>2. CASE target = "apple" /\ call' = [call EXCEPT !.phase = "verify", !.checks = 0]
  <2>1. Asks(call) /\ call'.phase = "verify"
    <3>1. 0 \in 0..2
      OBVIOUS
    <3>2. call' \in WriteCall
      BY <1>1, <1>2, <3>1 DEF WriteCall
    <3>3. QED
      BY <1>1, <1>2, <3>2, SMTT(40) DEF WriteCall, Asks, Waits, Carries
  <2>2. target \notin Deezers
    BY <1>2 DEF Deezers
  <2>3. QED
    BY <1>1, <1>2, <2>1, <2>2, CallAsks
<1>3. CASE target # "apple" /\ Self.resends /\ Again(call)
  <2>1. Stopped(call) \/ Asks(call)
    BY <1>1, <1>3, AgainShape
  <2>2. CASE Asks(call)
    BY <1>1, <1>3, <2>2, WhoResends, CallAsks
  <2>3. QED
    BY <1>1, <2>1, <2>2, CallStops
<1>4. CASE Stop(call)
  BY <1>1, <1>4, StopShape, CallStops
<1>5. QED
  <2>1. CASE target = "apple"
    <3>1. ~Self.resends
      BY <2>1 DEF Self, Clients, AppleClient, Client
    <3>2. QED
      BY <1>2, <2>1, <3>1 DEF Lose
  <2>2. QED
    BY <1>2, <1>3, <1>4, <2>1 DEF Lose

LEMMA RefusedHolds ==
  ASSUME WriteInv, Refused
  PROVE  WriteInv'
<1>1. /\ Sending /\ alias' = alias /\ Active /\ Grown /\ call \in WriteCall /\ call.phase = "send"
      /\ UNCHANGED <<list, landed, seen, alias>> /\ req.do = "put" /\ call.id \in Gone
  BY CallSends DEF Refused, Grown, Sending, Refuses
<1>2. Counted
  BY CallSends DEF Refused, Counted
<1>3. CASE target = "apple" /\ call' = [call EXCEPT !.phase = "verify", !.checks = 0, !.bad = TRUE]
  <2>1. Asks(call)
    <3>1. 0 \in 0..2
      OBVIOUS
    <3>2. call' \in WriteCall
      BY <1>1, <1>3, <3>1 DEF WriteCall
    <3>3. QED
      BY <1>1, <1>3, <3>2, SMTT(40) DEF WriteCall, Asks, Waits, Carries
  <2>2. QED
    BY <1>1, <1>2, <2>1, CallRepeats
<1>4. CASE target # "apple" /\ ~(target \in Deezers /\ call.kind = "drop") /\ Proceed(call, alias)
  <2>1. /\ req.id = call.id /\ call.plan[req.nth] = req /\ alias' \in [Id -> Id] /\ call.todo # <<>>
        /\ call.id \in Id /\ req.nth \in Nat
    BY <1>1, <1>4, CallSends, ReqKinds, ReqFacts DEF PlanInShape, WriteInv
  <2>2. MovesOn(call, alias') /\ AliasSound
    BY <1>1, <1>4, <2>1, ProceedShape, AliasKept
  <2>3. PICK r \in Nat : r = req.nth
    BY <2>1
  <2>4. PICK i \in Id : i = call.id
    BY <2>1
  <2>5. Accounted(r)'
    <3>1. call'.plan = call.plan
      BY <2>2 DEF MovesOn, Carries
    <3>2. call'.plan[r].id \in Gone
      BY <1>1, <2>1, <2>3, <3>1
    <3>3. QED
      BY <3>2 DEF Accounted
  <2>6. QED
    BY <1>1, <1>2, <1>4, <2>2, <2>3, <2>4, <2>5, CallNext
<1>5. CASE GiveUp(call)
  BY <1>1, <1>2, <1>5, CallGivesUp
<1>6. CASE Stop(call)
  BY <1>1, <1>2, <1>6, StopShape, CallRepeats
<1>7. QED
  BY <1>3, <1>4, <1>5, <1>6 DEF Refused, Deezers

LEMMA FoundHolds ==
  ASSUME WriteInv, Found
  PROVE  WriteInv'
<1> DEFINE c == Confirm(call)
<1>1. /\ Verifying /\ target = "apple" /\ Active /\ call \in WriteCall /\ alias \in [Id -> Id]
      /\ UNCHANGED <<list, landed, seen>> /\ Grown /\ call.todo # <<>>
  BY CallSends DEF Found, Grown
<1>2. Counted
  BY CallSends DEF Found, Counted
<1>3. /\ req.do = "put" /\ call.id \in Id /\ req.id \in Id /\ req.nth \in Nat /\ call.plan[req.nth] = req
      /\ target \notin Deezers
  BY <1>1, AppleAsks, ReqKinds DEF Deezers
<1>4. list \in Seq(Entry) /\ call.before \in Nat /\ Copies(list, call.id) \in Nat
  BY <1>1, CopiesCounted, CallFields DEF WriteInv, TypeOK
<1>5. call.id \in seen' /\ call.id \notin Gone /\ Copies(list', call.id) >= call.before + 1
  <2>1. Copies(list, call.id) >= call.before + 1 /\ Copies(list, call.id) # 0
    BY <1>4 DEF Found
  <2>2. \E k \in DOMAIN list : list[k].id = call.id
    <3>1. ASSUME ~ \E k \in DOMAIN list : list[k].id = call.id PROVE FALSE
      <4>1. {k \in DOMAIN list : list[k].id = call.id} = {}
        BY <3>1
      <4>2. QED
        BY <2>1, <4>1, FS_EmptySet DEF Copies
    <3>2. QED
      BY <3>1
  <2>3. QED
    BY <1>1, <2>1, <2>2 DEF WriteInv, MarksInOrder, Copies
<1>6. alias' = Written /\ alias' = [alias EXCEPT ![req.id] = call.id] /\ alias' \in [Id -> Id]
  BY <1>1, <1>3 DEF Found, Written
<1>7. AliasSound
  BY <1>1, <1>5, <1>6 DEF AliasSound
<1>8. /\ c \in WriteCall /\ c.todo = call.todo /\ c.kind = call.kind /\ c.keep = call.keep
      /\ c.plan = call.plan /\ c.unrestored = call.unrestored /\ c.givenup = call.givenup
      /\ c.ok = call.ok \cup {<<req.nth, call.id>>}
      /\ c.counts = [call.counts EXCEPT ![call.id] = call.base + 1]
  <2> DEFINE ok == call.ok \cup {<<req.nth, call.id>>}
             counts == [call.counts EXCEPT ![call.id] = call.base + 1]
  <2>1. call.counts \in [Id -> Nat] /\ call.base \in Nat /\ call.ok \in SUBSET (Nat \X Id)
    BY <1>1, CallFields
  <2>2. <<req.nth, call.id>> \in Nat \X Id
    BY <1>3
  <2>3. ok \in SUBSET (Nat \X Id) /\ counts \in [Id -> Nat]
    BY <1>3, <2>1, <2>2
  <2>4. c = [call EXCEPT !.ok = ok, !.counts = counts]
    BY <1>1 DEF Confirm, WriteCall
  <2> HIDE DEF ok, counts, c
  <2>5. QED
    <3>1. c \in WriteCall
      BY <1>1, <2>3, <2>4 DEF WriteCall
    <3>2. /\ c.todo = call.todo /\ c.kind = call.kind /\ c.keep = call.keep
          /\ c.plan = call.plan /\ c.unrestored = call.unrestored /\ c.givenup = call.givenup
          /\ c.ok = ok /\ c.counts = counts
      BY <1>1, <2>4 DEF WriteCall
    <3>3. QED
      BY <3>1, <3>2 DEF ok, counts
<1>9. Proceed(c, alias')
  BY <1>6 DEF Found
<1> HIDE DEF c
<1>10. MovesOn(c, alias')
  BY <1>1, <1>6, <1>8, <1>9, ProceedShape
<1>11. PICK i \in Id : i = call.id
  BY <1>3
<1>12. PICK r \in Nat : r = req.nth
  BY <1>3
<1>13. HadIt(i)'
  BY <1>1, <1>5, <1>11 DEF HadIt, Grown
<1>14. Accounted(r)'
  <2>1. call'.plan[r].id = req.id
    BY <1>3, <1>8, <1>10, <1>12 DEF MovesOn, Carries
  <2>2. alias'[req.id] = i
    BY <1>1, <1>3, <1>6, <1>11
  <2>3. QED
    BY <1>13, <2>1, <2>2 DEF Accounted
<1>15. QED
  BY <1>1, <1>2, <1>3, <1>5, <1>7, <1>8, <1>10, <1>11, <1>12, <1>13, <1>14, CallNext

LEMMA ReadStaleHolds ==
  ASSUME WriteInv, ReadStale
  PROVE  WriteInv'
<1>1. /\ Verifying /\ target = "apple" /\ Active /\ call \in WriteCall
      /\ UNCHANGED <<list, landed, seen, alias>> /\ Grown
  BY CallSends DEF ReadStale, Grown
<1>2. Counted
  BY CallSends DEF ReadStale, Counted
<1>3. Asks(call) /\ call'.phase = "verify"
  <2>1. call.checks + 1 \in 0..2 /\ call' = [call EXCEPT !.checks = call.checks + 1]
    BY <1>1, CallFields DEF ReadStale
  <2>2. call' \in WriteCall
    BY <1>1, <2>1 DEF WriteCall
  <2>3. QED
    BY <1>1, <2>1, <2>2 DEF WriteCall, Asks, Waits, Carries, Verifying
<1>4. target \notin Deezers
  BY <1>1 DEF Deezers
<1>5. QED
  BY <1>1, <1>2, <1>3, <1>4, CallAsks

LEMMA UnknownHolds ==
  ASSUME WriteInv, Unknown
  PROVE  WriteInv'
<1>1. Active /\ call \in WriteCall /\ Grown /\ alias' = alias /\ Counted /\ Stop(call)
  BY CallSends, FaultGrows DEF Unknown
<1>2. QED
  BY <1>1, StopShape, CallStops

LEMMA NotFoundHolds ==
  ASSUME WriteInv, NotFound
  PROVE  WriteInv'
<1> DEFINE c == [call EXCEPT !.phase = "send", !.fixed = TRUE, !.bad = FALSE]
           b == [c EXCEPT !.id = NewId[call.id], !.before = 0]
<1>1. /\ Verifying /\ target = "apple" /\ Active /\ call \in WriteCall /\ call.phase = "verify"
      /\ UNCHANGED <<list, landed, seen, alias>> /\ Grown /\ call.todo # <<>>
      /\ Copies(list, call.id) <= call.before
  BY CallSends DEF NotFound, Grown, Verifying
<1>2. Counted
  BY CallSends DEF NotFound, Counted
<1>3. target \notin Deezers
  BY <1>1 DEF Deezers
<1>4. /\ c \in WriteCall /\ c.todo = call.todo /\ c.kind = call.kind /\ c.keep = call.keep
      /\ c.plan = call.plan /\ c.unrestored = call.unrestored /\ c.givenup = call.givenup
      /\ c.ok = call.ok /\ c.counts = call.counts /\ c.id = call.id /\ c.base = call.base
      /\ c.before = call.before /\ c.fixed /\ ~c.bad /\ c.phase = "send"
  BY <1>1 DEF WriteCall
<1>5. call.id \in Id /\ NewId[call.id] \in Id /\ req.id \in Id /\ req.nth \in Nat /\ call.plan[req.nth] = req
      /\ req.do = "put"
  BY <1>1, IdAssumption, AppleAsks, ReqKinds
<1>6. CASE ~call.fixed /\ NewId[call.id] # call.id /\ Again(b)
  <2> DEFINE n == NewId[call.id]
  <2>1. b = [c EXCEPT !.id = n, !.before = 0] /\ 0 \in Nat /\ n \in Id
    BY <1>5
  <2>2. Again(b)
    BY <1>6
  <2> HIDE DEF b, c
  <2> HIDE DEF n
  <2>3. b \in WriteCall
    BY <1>4, <2>1 DEF WriteCall
  <2>4. /\ b.todo = c.todo /\ b.kind = c.kind /\ b.keep = c.keep
        /\ b.plan = c.plan /\ b.unrestored = c.unrestored /\ b.givenup = c.givenup
        /\ b.ok = c.ok /\ b.counts = c.counts /\ b.id = n /\ b.base = c.base
        /\ b.before = 0 /\ b.fixed = c.fixed /\ b.bad = c.bad /\ b.phase = c.phase
    BY <1>4, <2>1 DEF WriteCall
  <2>5. Stopped(b) \/ (Asks(b) /\ call'.phase = "send")
    BY <1>4, <2>2, <2>3, <2>4, AgainShape
  <2>6. CASE Stopped(b)
    <3>1. Stopped(call)
      BY <1>4, <2>4, <2>6 DEF Stopped, Carries
    <3>2. QED
      BY <1>1, <1>2, <3>1, CallStops
  <2>7. CASE Asks(b)
    <3>1. /\ Waits(call) /\ call'.id = NewId[call.id] /\ call'.base = call.base /\ call'.before = 0
          /\ call'.fixed
      BY <1>4, <2>4, <2>7 DEF Asks, Waits, Carries, n
    <3>2. CASE ~call'.bad
      BY <1>1, <1>2, <1>6, <3>1, <3>2, CallReplaces
    <3>3. QED
      <4>1. call'.bad = FALSE
        <5>1. call' = [b EXCEPT !.tries = @ + 1] \/ Stop(b)
          BY <2>2 DEF Again
        <5>2. ~Stop(b)
          BY <2>3, <2>7, StopShape DEF Stopped, Asks, Waits
        <5>3. QED
          BY <1>4, <2>3, <2>4, <5>1, <5>2 DEF WriteCall
      <4>2. QED
        BY <3>2, <4>1
  <2>8. QED
    BY <2>5, <2>6, <2>7
<1>7. CASE call.bad /\ Proceed(call, alias)
  <2>1. alias' \in [Id -> Id] /\ alias' = alias
    BY <1>1, CallSends
  <2>2. MovesOn(call, alias') /\ AliasSound
    BY <1>1, <1>7, <2>1, ProceedShape, AliasKept
  <2>3. PICK r \in Nat : r = req.nth
    BY <1>5
  <2>4. PICK i \in Id : i = call.id
    BY <1>5
  <2>5. ASSUME Steady PROVE Accounted(r)'
    <3>1. req.id \in Gone
      BY <1>1, <1>7, <2>5 DEF WriteInv, AppleCounts
    <3>2. call'.plan[r].id = req.id
      BY <1>5, <2>2, <2>3 DEF MovesOn, Carries
    <3>3. QED
      BY <3>1, <3>2 DEF Accounted
  <2>6. QED
    BY <1>1, <1>2, <1>3, <2>2, <2>3, <2>4, <2>5, CallNext
<1>8. CASE Again(c)
  <2> HIDE DEF c
  <2>1. Stopped(c) \/ (Asks(c) /\ call'.phase = "send")
    BY <1>4, <1>8, AgainShape
  <2>2. CASE Stopped(c)
    <3>1. Stopped(call)
      BY <1>4, <2>2 DEF Stopped, Carries
    <3>2. QED
      BY <1>1, <1>2, <3>1, CallStops
  <2>3. CASE Asks(c)
    <3>1. Asks(call)
      BY <1>4, <2>3 DEF Asks, Waits, Carries
    <3>2. ~Applies
      BY <1>1 DEF Applies, Sending
    <3>3. QED
      BY <1>1, <1>2, <1>3, <3>1, <3>2, CallAsks
  <2>4. QED
    BY <2>1, <2>2, <2>3
<1>9. QED
  BY <1>6, <1>7, <1>8 DEF NotFound

-----------------------------------------------------------------------------
\* Each edit of the person.
LEMMA PersonAddsHolds ==
  ASSUME WriteInv, NEW i \in Id \ Gone, PersonAdds(i)
  PROVE  WriteInv'
<1> DEFINE e == [id |-> i, mark |-> -2]
<1>1. /\ TypeOK /\ PlanInShape /\ MarksInOrder /\ DueOnce /\ AppleCounts /\ AllAccounted
      /\ NothingPassedOver /\ ConfirmedIsThere /\ KeepersSound
  BY DEF WriteInv
<1>2. /\ list' = Append(list, e) /\ seen' = seen \cup {i} /\ edits' = edits - 1 /\ edits > 0
      /\ UNCHANGED <<target, alias, call, landed, taken, kept, faults, calls>>
  BY DEF PersonAdds
<1>3. e \in Entry /\ e.id = i /\ e.mark = -2
  BY EntryMade
<1>4. list \in Seq(Entry) /\ Len(list) \in Nat /\ DOMAIN list = 1..Len(list)
  BY <1>1 DEF TypeOK
<1> HIDE DEF e
<1>5. /\ list' \in Seq(Entry) /\ Len(list') = Len(list) + 1 /\ DOMAIN list' = 1..(Len(list) + 1)
      /\ list'[Len(list) + 1] = e /\ \A j \in 1..Len(list) : list'[j] = list[j]
  BY <1>2, <1>3, <1>4
<1>6. \A j \in DOMAIN list' : j \in DOMAIN list \/ (list'[j] = e /\ j = Len(list) + 1)
  BY <1>4, <1>5
<1>7. \A E : CountIn(list', E) = CountIn(list, E) + IF e \in E THEN 1 ELSE 0
  BY <1>2, <1>3, <1>4, CountAppend
<1>8. ASSUME NEW j \in Id
      PROVE  /\ CountIn(list', StayingOf(j)) = CountIn(list, StayingOf(j))
             /\ CountIn(list', OwnOf(j)) = CountIn(list, OwnOf(j))
             /\ Copies(list', j) >= Copies(list, j) /\ Copies(list, j) \in Nat /\ Copies(list', j) \in Nat
  <2>1. e \notin StayingOf(j) /\ e \notin OwnOf(j)
    BY <1>3, EntryFacts
  <2>2. /\ CountIn(list, StayingOf(j)) \in Nat /\ CountIn(list, OwnOf(j)) \in Nat
        /\ Copies(list, j) = CountIn(list, EntriesOf(j)) /\ Copies(list, j) \in Nat
        /\ Copies(list', j) = CountIn(list', EntriesOf(j)) /\ Copies(list', j) \in Nat
    BY <1>4, <1>5, OwnCounted, CopiesCounted
  <2>3. QED
    BY <1>7, <2>1, <2>2
<1>9. req' = req /\ (Active' <=> Active) /\ (Steady' <=> Steady)
  BY <1>2 DEF req, Active, Steady
<1>10. TypeOK'
  BY <1>1, <1>2, <1>5 DEF TypeOK
<1>11. PlanInShape'
  BY <1>1, <1>2, <1>9 DEF PlanInShape, Asked
<1>12. MarksInOrder'
  <2>1. \A j \in DOMAIN list' : list'[j].mark > 0 => j \in DOMAIN list
    BY <1>3, <1>6
  <2>2. QED
    BY <1>1, <1>2, <1>3, <1>4, <1>5, <1>6, <1>9, <2>1 DEF MarksInOrder
<1>13. DueOnce'
  <2>1. ASSUME Active PROVE req.nth \in Nat /\ call.id \in Id /\ call.before \in Nat
    BY <1>1, <2>1, ReqFacts, CallFields DEF TypeOK
  <2>2. ASSUME Active, NEW j \in DOMAIN list', list'[j].mark = req.nth PROVE j \in DOMAIN list
    BY <1>3, <1>6, <2>1, <2>2
  <2>3. ASSUME Active PROVE Copies(list, call.id) > call.before => Copies(list', call.id) > call.before
    BY <1>8, <2>1, <2>3
  <2>4. QED
    BY <1>1, <1>2, <1>4, <1>5, <1>9, <2>2, <2>3 DEF DueOnce
<1>14. AppleCounts'
  <2>1. call.counts \in [Id -> Nat] /\ call.before \in Nat /\ call.id \in Id
    BY <1>1, CallFields DEF TypeOK
  <2>2. \A j \in Id : call.counts[j] <= Copies(list, j) => call.counts[j] <= Copies(list', j)
    BY <1>8, <2>1
  <2>3. call.before <= Copies(list, call.id) => call.before <= Copies(list', call.id)
    BY <1>8, <2>1
  <2>4. QED
    BY <1>1, <1>2, <1>9, <2>2, <2>3 DEF AppleCounts
<1>15. \A j : HadIt(j) => HadIt(j)'
  BY <1>2 DEF HadIt
<1>16. AllAccounted'
  <2>1. \A j : Accounted(j) => Accounted(j)'
    BY <1>2, <1>15 DEF Accounted
  <2>2. QED
    BY <1>1, <1>2, <1>9, <2>1 DEF AllAccounted, Asked
<1>17. NothingPassedOver' /\ ConfirmedIsThere'
  BY <1>1, <1>2, <1>9, <1>15 DEF NothingPassedOver, ConfirmedIsThere
<1>18. KeepersSound'
  BY <1>1, <1>2, <1>8, <1>9 DEF KeepersSound, Wiping, Lost
<1>19. QED
  BY <1>10, <1>11, <1>12, <1>13, <1>14, <1>16, <1>17, <1>18 DEF WriteInv

LEMMA PersonRemovesHolds ==
  ASSUME WriteInv, NEW k \in DOMAIN list, PersonRemoves(k)
  PROVE  WriteInv'
<1> DEFINE e == list[k]
<1>1. /\ TypeOK /\ PlanInShape /\ MarksInOrder /\ DueOnce /\ AppleCounts /\ AllAccounted
      /\ NothingPassedOver /\ ConfirmedIsThere /\ KeepersSound
  BY DEF WriteInv
<1>2. /\ list' = RemoveAt(list, k) /\ taken' = taken \cup {e.id} /\ edits' = edits - 1 /\ edits > 0
      /\ kept' = IF e.mark # -2 /\ (target \in Deezers \/ e.mark = 0) /\ kept[e.id] > 0
                 THEN [kept EXCEPT ![e.id] = @ - 1] ELSE kept
      /\ UNCHANGED <<target, alias, call, landed, seen, faults, calls>>
  BY DEF PersonRemoves
<1>3. list \in Seq(Entry) /\ Len(list) \in Nat /\ DOMAIN list = 1..Len(list) /\ k \in 1..Len(list)
      /\ kept \in [Id -> Nat]
  BY <1>1 DEF TypeOK
<1>4. e \in Entry /\ e.id \in Id
  BY <1>3, EntryFacts
<1> HIDE DEF e
<1>5. list' \in Seq(Entry) /\ Len(list') \in Nat /\ DOMAIN list' = 1..Len(list')
  BY <1>2, <1>3, RemoveAtRows
<1>6. PICK place \in [1..Len(list') -> 1..Len(list)] : Shrinks(list, list', place)
  BY <1>2, <1>3, RemoveAtShrinks
<1>7. \A E : CountIn(list', E) = CountIn(list, E) - IF e \in E THEN 1 ELSE 0
  BY <1>2, <1>3, RemoveAtShrinks DEF e
<1>8. ASSUME NEW j \in Id
      PROVE  /\ kept'[j] \in Nat /\ kept[j] \in Nat
             /\ kept'[j] <= kept[j]
             /\ j = e.id /\ e.mark # -2 /\ (target \in Deezers \/ e.mark = 0) /\ kept[j] > 0 => kept'[j] = kept[j] - 1
             /\ kept[j] = 0 => kept'[j] = 0
  BY <1>2, <1>3, <1>4
<1>9. ASSUME NEW j \in Id
      PROVE  /\ CountIn(list, StayingOf(j)) \in Nat /\ CountIn(list', StayingOf(j)) \in Nat
             /\ CountIn(list, OwnOf(j)) \in Nat /\ CountIn(list', OwnOf(j)) \in Nat
             /\ CountIn(list', StayingOf(j)) = CountIn(list, StayingOf(j))
                  - IF e.id = j /\ e.mark = 0 THEN 1 ELSE 0
             /\ CountIn(list', OwnOf(j)) = CountIn(list, OwnOf(j)) - IF e.id = j /\ e.mark # -2 THEN 1 ELSE 0
             /\ j # e.id => Copies(list', j) = Copies(list, j)
  <2>1. /\ e \in StayingOf(j) <=> e.id = j /\ e.mark = 0
        /\ e \in OwnOf(j) <=> e.id = j /\ e.mark # -2
        /\ e \in EntriesOf(j) <=> e.id = j
    BY <1>4, EntryFacts
  <2>2. /\ CountIn(list, StayingOf(j)) \in Nat /\ CountIn(list', StayingOf(j)) \in Nat
        /\ CountIn(list, OwnOf(j)) \in Nat /\ CountIn(list', OwnOf(j)) \in Nat
        /\ Copies(list, j) = CountIn(list, EntriesOf(j)) /\ Copies(list, j) \in Nat
        /\ Copies(list', j) = CountIn(list', EntriesOf(j)) /\ Copies(list', j) \in Nat
    BY <1>3, <1>5, OwnCounted, CopiesCounted
  <2>3. QED
    BY <1>7, <2>1, <2>2
<1>10. req' = req /\ (Active' <=> Active) /\ (Steady' <=> Steady)
  BY <1>2 DEF req, Active, Steady
<1>11. TypeOK'
  <2>1. kept' \in [Id -> Nat]
    <3>1. CASE kept[e.id] > 0
      <4>1. kept[e.id] - 1 \in Nat
        BY <1>3, <1>4, <3>1
      <4>2. QED
        BY <1>2, <1>3, <4>1
    <3>2. CASE ~(kept[e.id] > 0)
      BY <1>2, <1>3, <3>2
    <3>3. QED
      BY <3>1, <3>2
  <2>2. edits - 1 \in Nat
    BY <1>1, <1>2 DEF TypeOK
  <2>3. QED
    BY <1>1, <1>2, <1>4, <1>5, <2>1, <2>2 DEF TypeOK
<1>12. PlanInShape'
  BY <1>1, <1>2, <1>10 DEF PlanInShape, Asked
<1>13. MarksInOrder'
  BY <1>2, <1>5, <1>6, <1>10, MarksShrink
<1>14. DueOnce'
  <2>1. ASSUME NEW j \in DOMAIN list' PROVE place[j] \in DOMAIN list /\ list'[j] = list[place[j]]
    <3>1. j \in 1..Len(list')
      BY <1>5
    <3>2. place[j] \in 1..Len(list)
      BY <1>6, <3>1
    <3>3. QED
      BY <1>3, <1>6, <3>1, <3>2 DEF Shrinks
  <2>2. call.id \in Id
    BY <1>1, CallFields DEF TypeOK
  <2>3. call.id \notin taken' => Copies(list', call.id) = Copies(list, call.id)
    BY <1>2, <1>9, <2>2
  <2>4. QED
    BY <1>1, <1>2, <1>10, <2>1, <2>3 DEF DueOnce
<1>15. AppleCounts'
  <2>1. call.id \in Id
    BY <1>1, CallFields DEF TypeOK
  <2>2. \A j \in Id : j \notin taken' => Copies(list', j) = Copies(list, j) /\ j \notin taken
    BY <1>2, <1>9
  <2>3. QED
    BY <1>1, <1>2, <1>10, <2>1, <2>2 DEF AppleCounts
<1>16. \A j : HadIt(j) => HadIt(j)'
  BY <1>2 DEF HadIt
<1>17. AllAccounted'
  <2>1. \A j : Accounted(j) => Accounted(j)'
    BY <1>2, <1>16 DEF Accounted
  <2>2. QED
    BY <1>1, <1>2, <1>10, <2>1 DEF AllAccounted, Asked
<1>18. NothingPassedOver' /\ ConfirmedIsThere'
  BY <1>1, <1>2, <1>10, <1>16 DEF NothingPassedOver, ConfirmedIsThere
<1>19. KeepersSound'
  <2>1. target \notin Deezers => \A j \in Id : CountIn(list', StayingOf(j)) >= kept'[j]
    BY <1>1, <1>8, <1>9 DEF KeepersSound
  <2>2. ASSUME target \in Deezers, NEW j \in Id, CountIn(list, OwnOf(j)) >= kept[j]
        PROVE  CountIn(list', OwnOf(j)) >= kept'[j]
    BY <1>8, <1>9, <2>2
  <2>3. ASSUME target \in Deezers, NEW j \in Id, NEW n \in Nat, CountIn(list, OwnOf(j)) + n >= kept[j]
        PROVE  CountIn(list', OwnOf(j)) + n >= kept'[j]
    BY <1>8, <1>9, <2>3, SMTT(40)
  <2>4. \A j \in Id : CountIn(call.todo, PutsOf(j)) \in Nat /\ call.keep[j] \in Nat
    <3>1. call.todo \in Seq(Request) /\ call.keep \in [Id -> Nat]
      BY <1>1, CallFields DEF TypeOK
    <3>2. QED
      BY <3>1, CountFacts
  <2>5. \A j \in Id : call.keep[j] >= kept[j] => call.keep[j] >= kept'[j]
    BY <1>8, <2>4
  <2>6. \A j : (Wiping(j)' <=> Wiping(j)) /\ (Lost(j)' <=> Lost(j))
    BY <1>2 DEF Wiping, Lost
  <2>7. QED
    BY <1>1, <1>2, <1>10, <2>1, <2>2, <2>3, <2>4, <2>5, <2>6 DEF KeepersSound
<1>20. QED
  BY <1>11, <1>12, <1>13, <1>14, <1>15, <1>17, <1>18, <1>19 DEF WriteInv

-----------------------------------------------------------------------------
\* The start of a call.
LEMMA IdleCall ==
  /\ Idle \in WriteCall /\ Idle.kind = "add" /\ Idle.todo = <<>> /\ Idle.phase = "idle" /\ Idle.ok = {}
  /\ Idle.counts = NoCopies /\ NoCopies \in [Id -> Nat] /\ Idle.unrestored = {} /\ Idle.givenup = {}
  /\ Idle.plan = <<>>
<1>1. (CHOOSE i \in Id : TRUE) \in Id
  BY IdAssumption
<1>2. <<>> \in Seq(Request) /\ 0 \in 0..2 /\ NoCopies \in [Id -> Nat]
  BY DEF NoCopies
<1>3. {} \in SUBSET (Nat \X Id)
  OBVIOUS
<1> DEFINE one == CHOOSE i \in Id : TRUE
<1>4. Idle = [kind |-> "add", plan |-> <<>>, todo |-> <<>>, id |-> one,
              phase |-> "idle", tries |-> 0, checks |-> 0, renewed |-> FALSE, fixed |-> FALSE,
              bad |-> FALSE, base |-> 0, before |-> 0, counts |-> NoCopies, keep |-> NoCopies, size |-> 0,
              ok |-> {}, unrestored |-> {}, givenup |-> {}, result |-> "none"]
  BY DEF Idle
<1>5. one \in Id
  BY <1>1
<1> HIDE DEF one
<1>6. Idle \in WriteCall
  BY <1>2, <1>3, <1>4, <1>5 DEF WriteCall
<1>7. QED
  BY <1>2, <1>4, <1>6

LEMMA Begins ==
  ASSUME WriteInv, NEW how \in {"add", "copies", "drop"}, NEW n \in Nat, n > 0,
         NEW steps, DOMAIN steps = 1..n,
         \A k \in 1..n : steps[k].do \in {"put", "cut", "sweep", "wipe"} /\ steps[k].id \in Id,
         how = "drop" => target # "apple" /\ \A k \in 1..n : steps[k].do # "put",
         how # "drop" => \A k \in 1..n : steps[k].do = "put",
         \A k \in 1..n : steps[k].do # "put" => (steps[k].do = "wipe" <=> target \in Deezers),
         \A j, k \in 1..n : j # k /\ steps[j].do = "wipe" /\ steps[k].do = "wipe" => steps[j].id # steps[k].id,
         NEW keep \in [Id -> Nat], NEW l \in Seq(Entry), Len(l) = Len(list),
         \A k \in 1..Len(list) : l[k].id = list[k].id /\ l[k].mark <= 0,
         Begin(how, steps, keep, l), kept' \in [Id -> Nat], KeepersSound'
  PROVE  WriteInv'
<1> DEFINE plan == [k \in 1..n |-> [do |-> steps[k].do, id |-> steps[k].id, nth |-> k]]
           size == Len(l)
           c == [Idle EXCEPT !.kind = how, !.plan = plan, !.keep = keep, !.size = size]
<1>1. /\ TypeOK /\ MarksInOrder /\ AppleCounts /\ alias \in [Id -> Id]
      /\ list \in Seq(Entry) /\ DOMAIN list = 1..Len(list) /\ calls \in Nat
  BY DEF WriteInv, TypeOK
<1>2. /\ list' = l /\ call' = Current(c, plan, alias) /\ landed' = {} /\ seen' = Ids(l) /\ taken' = {}
      /\ calls > 0 /\ calls' = calls - 1 /\ UNCHANGED <<target, alias, faults, edits>>
  BY DEF Begin
<1>3. plan \in Seq(Request) /\ Len(plan) = n /\ DOMAIN plan = 1..n /\ plan # <<>>
  <2>1. ASSUME NEW k \in 1..n
        PROVE  [do |-> steps[k].do, id |-> steps[k].id, nth |-> k] \in Request
    <3>1. steps[k].do \in {"put", "cut", "sweep", "wipe"} /\ steps[k].id \in Id /\ k \in Nat
      OBVIOUS
    <3> DEFINE a == steps[k].do  i == steps[k].id
    <3> HIDE DEF a, i
    <3>2. [do |-> a, id |-> i, nth |-> k] \in Request
      BY <3>1 DEF Request, a, i
    <3>3. QED
      BY <3>2 DEF a, i
  <2>2. plan \in Seq(Request) /\ Len(plan) = n /\ DOMAIN plan = 1..n
    BY <2>1
  <2> HIDE DEF plan
  <2>3. plan # <<>>
    BY <2>2
  <2>4. QED
    BY <2>2, <2>3
<1>4. \A k \in 1..n : plan[k].do = steps[k].do /\ plan[k].id = steps[k].id /\ plan[k].nth = k
  OBVIOUS
<1>5. size \in Nat
  OBVIOUS
<1> HIDE DEF plan, size
<1>6. /\ c \in WriteCall /\ c.kind = how /\ c.plan = plan /\ c.keep = keep /\ c.ok = {}
      /\ c.counts = NoCopies /\ c.unrestored = {} /\ c.givenup = {}
  <2>1. c \in WriteCall
    BY <1>3, <1>5, IdleCall DEF WriteCall
  <2>2. QED
    BY <2>1, IdleCall DEF WriteCall
<1> HIDE DEF c
<1>7. /\ call' \in WriteCall
      /\ call'.kind = how /\ call'.plan = plan /\ call'.keep = keep /\ call'.counts = NoCopies
      /\ call'.ok = {} /\ call'.unrestored = {} /\ call'.givenup = {}
      /\ call'.todo = plan /\ call'.phase = "send" /\ ~call'.fixed /\ ~call'.bad
      /\ call'.id = IF target = "apple" THEN alias[plan[1].id] ELSE plan[1].id
      /\ call'.base = NoCopies[call'.id] /\ call'.before = NoCopies[call'.id]
  BY <1>1, <1>2, <1>3, <1>6, CurrentShape, SMTT(40)
<1>8. Active' /\ req' = plan[1] /\ 1 \in 1..n /\ req'.id \in Id /\ call'.id \in Id
  <2>1. 1 \in 1..n
    OBVIOUS
  <2>2. Head(plan) = plan[1]
    BY <1>3, CountTail
  <2>3. call'.id \in Id
    BY <1>7, CallFields
  <2>4. QED
    BY <1>4, <1>7, <2>1, <2>2, <2>3, SMTT(40) DEF Active, req
<1>9. /\ call'.base = 0 /\ call'.before = 0
      /\ \A i \in Id : call'.counts[i] = 0
  BY <1>7, <1>8 DEF NoCopies
<1>10. /\ DOMAIN list' = 1..Len(list) /\ list' \in Seq(Entry)
       /\ \A k \in 1..Len(list) : list'[k].id = list[k].id /\ list'[k].id \in Ids(l) /\ ~(list'[k].mark > 0)
  <2>1. DOMAIN l = 1..Len(list)
    OBVIOUS
  <2>2. ASSUME NEW k \in 1..Len(list) PROVE l[k].id \in Ids(l) /\ ~(l[k].mark > 0)
    <3>1. l[k].mark <= 0 /\ l[k] \in Entry
      BY <2>1
    <3>2. l[k].mark \in Int
      BY <3>1, EntryFacts
    <3>3. ~(l[k].mark > 0)
      BY <3>1, <3>2
    <3>4. QED
      BY <2>1, <3>3 DEF Ids
  <2>3. QED
    BY <1>2, <2>1, <2>2
<1>11. TypeOK'
  <2>1. Ids(l) \subseteq Id
    <3>1. \A k \in DOMAIN l : l[k] \in Entry
      OBVIOUS
    <3>2. \A k \in DOMAIN l : l[k].id \in Id
      BY <3>1, EntryFacts
    <3>3. QED
      BY <3>2 DEF Ids
  <2>2. calls' \in Nat
    BY <1>1, <1>2
  <2>3. QED
    BY <1>1, <1>2, <1>7, <2>1, <2>2 DEF TypeOK
<1>12. PlanInShape'
  <2>1. \A k \in 1..n : (Asked(k)' <=> steps[k].do = "put")
    BY <1>4, <1>7 DEF Asked
  <2>2. target' = target /\ landed' = {} /\ call'.todo = plan /\ call'.plan = plan /\ call'.kind = how
    BY <1>2, <1>7
  <2>3. Active' <=> call'.todo # <<>>
    BY <1>3, <1>8, <2>2
  <2>4. Active' /\ target' # "apple" => call'.id = req'.id
    BY <1>7, <1>8, <2>2
  <2>5. \A j, k \in 1..n : j < k => /\ Asked(k)' => Asked(j)'
                                    /\ Asked(k)' => plan[j].nth < plan[k].nth
    BY <1>4, <2>1
  <2>6. \A j, k \in 1..n : j # k /\ plan[j].do = "wipe" /\ plan[k].do = "wipe" => plan[j].id # plan[k].id
    <3> SUFFICES ASSUME NEW j \in 1..n, NEW k \in 1..n, j # k, plan[j].do = "wipe", plan[k].do = "wipe"
                 PROVE  plan[j].id # plan[k].id
      OBVIOUS
    <3>1. /\ plan[j].do = steps[j].do /\ plan[j].id = steps[j].id
          /\ plan[k].do = steps[k].do /\ plan[k].id = steps[k].id
      BY <1>4
    <3>2. steps[j].do = "wipe" /\ steps[k].do = "wipe"
      BY <3>1
    <3>3. steps[j].id # steps[k].id
      BY <3>2
    <3>4. QED
      BY <3>1, <3>3
  <2>7. \A k \in 1..n : ~Asked(k)' => (plan[k].do = "wipe" <=> target \in Deezers)
    BY <1>4, <2>1
  <2>8. \A k \in 1..n : Asked(k)' => plan[k].nth \in 1..n /\ plan[plan[k].nth] = plan[k]
    BY <1>4
  <2>9. how # "drop" => \A k \in 1..n : Asked(k)'
    BY <2>1
  <2>10. QED
    BY <1>3, <2>2, <2>3, <2>4, <2>5, <2>6, <2>7, <2>8, <2>9 DEF PlanInShape
<1>13. MarksInOrder'
  BY <1>1, <1>2, <1>10 DEF MarksInOrder
<1>14. DueOnce'
  BY <1>2 DEF DueOnce
<1>15. AppleCounts'
  <2>1. \A i : Copies(list', i) \in Nat
    BY <1>10, CopiesCounted
  <2>2. \A i \in Gone : i \in Id
    BY IdAssumption
  <2>3. Steady' <=> Steady
    BY <1>2 DEF Steady
  <2>4. target = "apple" /\ Steady => call'.id = req'.id \/ req'.id \in Gone
    BY <1>1, <1>7, <1>8 DEF AppleCounts
  <2>5. QED
    BY <1>1, <1>2, <1>7, <1>8, <1>9, <2>1, <2>2, <2>3, <2>4 DEF AppleCounts
<1>16. AllAccounted'
  <2>1. ASSUME NEW k \in 1..n, call'.plan[k].do = "put"
        PROVE  \E j \in DOMAIN call'.todo : Asked(j)' /\ call'.todo[j].nth = k
    <3>1. k \in DOMAIN call'.todo /\ call'.todo[k].nth = k
      BY <1>3, <1>4, <1>7
    <3>2. Asked(k)'
      BY <1>7, <2>1 DEF Asked
    <3>3. QED
      BY <3>1, <3>2
  <2>2. QED
    BY <1>3, <1>7, <2>1 DEF AllAccounted
<1>17. NothingPassedOver' /\ ConfirmedIsThere'
  BY <1>2, <1>7 DEF NothingPassedOver, ConfirmedIsThere
<1>18. QED
  BY <1>11, <1>12, <1>13, <1>14, <1>15, <1>16, <1>17 DEF WriteInv

\* The entries that are not flagged are counted by their mark.
LEMMA StayingCounted ==
  ASSUME NEW l \in Seq(Entry), NEW F, NEW i \in Id,
         \A k \in 1..Len(l) : l[k].mark = 0 <=> k \notin F
  PROVE  CountIn(l, StayingOf(i)) = Cardinality({k \in DOMAIN l \ F : l[k].id = i})
<1>1. Positions(l, StayingOf(i)) = {k \in 1..Len(l) : l[k] \in StayingOf(i)} /\ DOMAIN l = 1..Len(l)
  BY CountFacts
<1>2. \A k \in 1..Len(l) : l[k] \in StayingOf(i) <=> l[k].id = i /\ k \notin F
  <2>1. \A k \in 1..Len(l) : l[k] \in Entry
    OBVIOUS
  <2>2. QED
    BY <2>1, EntryFacts
<1>3. Positions(l, StayingOf(i)) = {k \in DOMAIN l \ F : l[k].id = i}
  BY <1>1, <1>2
<1>4. QED
  BY <1>3 DEF CountIn

\* The entries as a call finds them.
LEMMA Remarked ==
  ASSUME list \in Seq(Entry), NEW F, NEW l,
         l = [k \in DOMAIN list |-> [list[k] EXCEPT !.mark = IF k \in F THEN -1 ELSE 0]]
  PROVE  /\ l \in Seq(Entry) /\ Len(l) = Len(list) /\ DOMAIN l = 1..Len(list) /\ DOMAIN list = 1..Len(list)
         /\ \A k \in 1..Len(list) : /\ l[k].id = list[k].id /\ l[k].mark <= 0
                                    /\ l[k].mark = 0 <=> k \notin F
<1>1. Len(list) \in Nat /\ DOMAIN list = 1..Len(list) /\ \A k \in 1..Len(list) : list[k] \in Entry
  OBVIOUS
<1>2. ASSUME NEW k \in 1..Len(list)
      PROVE  /\ l[k] \in Entry /\ l[k].id = list[k].id /\ l[k].mark = IF k \in F THEN -1 ELSE 0
  <2>1. l[k] = [list[k] EXCEPT !.mark = IF k \in F THEN -1 ELSE 0] /\ list[k] \in Entry
    BY <1>1
  <2>2. QED
    BY <2>1 DEF Entry
<1>3. l \in Seq(Entry) /\ Len(l) = Len(list) /\ DOMAIN l = 1..Len(list)
  <2>1. l = [k \in 1..Len(list) |-> l[k]]
    BY <1>1
  <2>2. QED
    BY <1>1, <1>2, <2>1
<1>4. QED
  BY <1>1, <1>2, <1>3

\* The plan of an append.
LEMMA AppendBegins ==
  ASSUME WriteInv, NEW how \in {"add", "copies"}, NEW n \in 1..MaxLen, NEW ids \in [1..n -> Id],
         Begin(how, Puts(ids), NoCopies, Plain), kept' = [i \in Id |-> Copies(list, i)]
  PROVE  WriteInv'
<1>1. PICK none : none = {}
  OBVIOUS
<1> DEFINE steps == Puts(ids)
           l == [k \in DOMAIN list |-> [list[k] EXCEPT !.mark = IF k \in none THEN -1 ELSE 0]]
<1>2. TypeOK /\ list \in Seq(Entry) /\ n \in Nat /\ n > 0
  BY BoundAssumption DEF WriteInv, TypeOK
<1>3. DOMAIN steps = 1..n /\ \A k \in 1..n : steps[k].do = "put" /\ steps[k].id = ids[k] /\ ids[k] \in Id
  BY DEF Puts, Put
<1>4. l = Plain
  BY <1>1 DEF Plain
<1>5. /\ l \in Seq(Entry) /\ Len(l) = Len(list) /\ DOMAIN l = 1..Len(list) /\ DOMAIN list = 1..Len(list)
      /\ \A k \in 1..Len(list) : /\ l[k].id = list[k].id /\ l[k].mark <= 0
                                 /\ l[k].mark = 0 <=> k \notin none
  BY <1>2, Remarked
<1> HIDE DEF steps, l
<1>6. kept' \in [Id -> Nat]
  BY <1>2, CopiesCounted
<1>7. Begin(how, steps, NoCopies, l)
  BY <1>4 DEF steps
<1>8. /\ list' = l /\ target' = target /\ call'.kind = how
  <2>1. list' = l /\ target' = target
    BY <1>7 DEF Begin
  <2>2. call'.kind = how
    BY <1>7, IdleCall, ZenonT(40) DEF Begin, Current, WriteCall
  <2>3. QED
    BY <2>1, <2>2
<1>9. KeepersSound'
  <2>1. ASSUME NEW i \in Id
        PROVE  CountIn(list', StayingOf(i)) >= kept'[i] /\ CountIn(list', OwnOf(i)) >= kept'[i]
    <3>1. CountIn(l, StayingOf(i)) = Cardinality({k \in DOMAIN l \ none : l[k].id = i})
      BY <1>5, StayingCounted
    <3>2. {k \in DOMAIN l \ none : l[k].id = i} = {k \in DOMAIN list : list[k].id = i}
      BY <1>1, <1>5
    <3>3. CountIn(l, StayingOf(i)) = kept'[i]
      BY <3>1, <3>2 DEF Copies
    <3>4. CountIn(l, StayingOf(i)) <= CountIn(l, OwnOf(i)) /\ CountIn(l, StayingOf(i)) \in Nat
          /\ CountIn(l, OwnOf(i)) \in Nat
      BY <1>5, OwnCounted
    <3>5. QED
      BY <1>8, <3>3, <3>4
  <2>2. QED
    BY <1>8, <2>1 DEF KeepersSound
<1>10. NoCopies \in [Id -> Nat] /\ how # "drop" /\ how \in {"add", "copies", "drop"}
  BY IdleCall
<1>11. /\ \A k \in 1..n : steps[k].do \in {"put", "cut", "sweep", "wipe"} /\ steps[k].id \in Id
       /\ \A k \in 1..n : steps[k].do = "put" /\ steps[k].do # "wipe"
  BY <1>3
<1>12. \A k \in 1..Len(list) : l[k].id = list[k].id /\ l[k].mark <= 0
  BY <1>5
<1>13. QED
  BY <1>2, <1>3, <1>5, <1>6, <1>7, <1>9, <1>10, <1>11, <1>12, Begins

\* The plan of a removal: an id for each request; Deezer's wipes are of distinct ids.
LEMMA RemovalSteps ==
  ASSUME WriteInv, target # "apple", NEW F \in SUBSET DOMAIN list, F # {}
  PROVE  \E n \in Nat :
           /\ n > 0 /\ DOMAIN RemovalPlan(F) = 1..n
           /\ \A k \in 1..n : /\ RemovalPlan(F)[k].do \in {"cut", "sweep", "wipe"}
                              /\ RemovalPlan(F)[k].id \in Id
                              /\ RemovalPlan(F)[k].do = "wipe" <=> target \in Deezers
           /\ target \in Deezers => \A j, k \in 1..n : j # k => RemovalPlan(F)[j].id # RemovalPlan(F)[k].id
<1> DEFINE one == list[CHOOSE k \in F : TRUE].id
           S == {list[k].id : k \in F}
           ids == SetToSeq(S)
<1>1. list \in Seq(Entry) /\ DOMAIN list = 1..Len(list) /\ Len(list) \in Nat
  BY DEF WriteInv, TypeOK
<1>2. \A k \in F : list[k] \in Entry /\ list[k].id \in Id
  BY <1>1, EntryFacts
<1>3. one \in Id
  BY <1>2
<1>4. IsFiniteSet(F) /\ Cardinality(F) \in Nat /\ Cardinality(F) > 0
  <2>1. IsFiniteSet(1..Len(list))
    BY <1>1, FS_Interval
  <2>2. IsFiniteSet(F)
    BY <1>1, <2>1, FS_Subset
  <2>3. QED
    BY <2>2, FS_CardinalityType, FS_EmptySet
<1>5. CASE target \in Deezers
  <2>1. IsFiniteSet(S) /\ S # {} /\ S \subseteq Id
    <3>1. IsFiniteSet(S)
      <4> DEFINE f == [k \in F |-> list[k].id]
      <4>1. f \in Surjection(F, S)
        BY DEF Surjection
      <4>2. QED
        BY <1>4, <4>1, FS_Surjection
    <3>2. QED
      BY <1>2, <3>1
  <2> HIDE DEF S
  <2>2. PICK n \in Nat : n = Cardinality(S) /\ n > 0
    BY <2>1, FS_CardinalityType, FS_EmptySet
  <2>3. \E f \in [1..n -> S] : IsInjective(f)
    <3>1. ExistsBijection(1..n, S)
      BY <2>1, <2>2, FS_CardinalityType
    <3>2. QED
      BY <3>1 DEF ExistsBijection, Bijection, Injection, IsInjective
  <2>4. ids \in [1..n -> S] /\ IsInjective(ids)
    BY <2>2, <2>3 DEF SetToSeq
  <2> HIDE DEF ids
  <2>5. \A j, k \in 1..n : j # k => ids[j] # ids[k]
    BY <2>4 DEF IsInjective
  <2>6. RemovalPlan(F) = [k \in DOMAIN ids |-> [do |-> "wipe", id |-> ids[k]]]
    BY <1>5 DEF RemovalPlan, Deezers, Entrywise, ids, S
  <2>7. DOMAIN ids = 1..n
    BY <2>4
  <2>8. QED
    BY <1>5, <2>1, <2>2, <2>4, <2>5, <2>6, <2>7, SMTT(40)
<1>6. CASE target \in Entrywise
  <2> HIDE DEF one
  <2>1. target \notin Deezers
    BY <1>6 DEF Entrywise, Deezers
  <2>2. RemovalPlan(F) = [k \in 1..Cardinality(F) |-> [do |-> "cut", id |-> one]]
    BY <1>6, <2>1 DEF RemovalPlan, one
  <2>3. QED
    BY <1>3, <1>4, <2>1, <2>2
<1>7. CASE target \notin Deezers /\ target \notin Entrywise
  <2> HIDE DEF one
  <2>1. RemovalPlan(F) = <<[do |-> "sweep", id |-> one]>>
    BY <1>7 DEF RemovalPlan, one
  <2>2. DOMAIN RemovalPlan(F) = 1..1 /\ RemovalPlan(F)[1] = [do |-> "sweep", id |-> one]
    BY <2>1
  <2>3. \A k \in 1..1 : k = 1
    OBVIOUS
  <2>4. QED
    BY <1>3, <1>7, <2>2, <2>3
<1>8. QED
  BY <1>5, <1>6, <1>7

LEMMA DropHolds ==
  ASSUME WriteInv, NEW F \in SUBSET DOMAIN list, Drop(F)
  PROVE  WriteInv'
<1> DEFINE steps == RemovalPlan(F)
           l == [k \in DOMAIN list |-> [list[k] EXCEPT !.mark = IF k \in F THEN -1 ELSE 0]]
           keep == Unflagged(F)
<1>1. TypeOK /\ list \in Seq(Entry) /\ target # "apple" /\ F # {}
  BY DEF WriteInv, TypeOK, Drop
<1>2. PICK n \in Nat :
        /\ n > 0 /\ DOMAIN steps = 1..n
        /\ \A k \in 1..n : /\ steps[k].do \in {"cut", "sweep", "wipe"}
                           /\ steps[k].id \in Id
                           /\ steps[k].do = "wipe" <=> target \in Deezers
        /\ target \in Deezers => \A j, k \in 1..n : j # k => steps[j].id # steps[k].id
  BY <1>1, RemovalSteps
<1>3. Begin("drop", steps, keep, l) /\ kept' = keep
  BY DEF Drop, Unflagged
<1>4. /\ l \in Seq(Entry) /\ Len(l) = Len(list) /\ DOMAIN l = 1..Len(list) /\ DOMAIN list = 1..Len(list)
      /\ \A k \in 1..Len(list) : /\ l[k].id = list[k].id /\ l[k].mark <= 0
                                 /\ l[k].mark = 0 <=> k \notin F
  BY <1>1, Remarked
<1>5. keep \in [Id -> Nat] /\ \A i \in Id : keep[i] = Cardinality({k \in DOMAIN l \ F : l[k].id = i})
  <2>1. ASSUME NEW i \in Id
        PROVE  /\ Cardinality({k \in DOMAIN list \ F : list[k].id = i}) \in Nat
               /\ {k \in DOMAIN list \ F : list[k].id = i} = {k \in DOMAIN l \ F : l[k].id = i}
    <3>1. IsFiniteSet(1..Len(list))
      BY <1>1, FS_Interval
    <3>2. IsFiniteSet({k \in DOMAIN list \ F : list[k].id = i})
      BY <1>4, <3>1, FS_Subset
    <3>3. {k \in DOMAIN list \ F : list[k].id = i} = {k \in DOMAIN l \ F : l[k].id = i}
      <4> HIDE DEF l
      <4>1. QED
        BY <1>4
    <3>4. QED
      BY <3>2, <3>3, FS_CardinalityType
  <2>2. QED
    BY <2>1 DEF Unflagged
<1> HIDE DEF steps, l, keep
<1>6. list' = l /\ target' = target /\ call'.kind = "drop" /\ call'.keep = keep /\ Active'
  <2>1. list' = l /\ target' = target
    BY <1>3 DEF Begin
  <2>2. call'.kind = "drop" /\ call'.keep = keep /\ call'.phase = "send"
    BY <1>3, IdleCall DEF Begin, Current, WriteCall
  <2>3. QED
    BY <2>1, <2>2 DEF Active
<1>7. KeepersSound'
  <2>1. ASSUME NEW i \in Id
        PROVE  /\ CountIn(list', StayingOf(i)) >= kept'[i] /\ CountIn(list', OwnOf(i)) >= kept'[i]
               /\ call'.keep[i] >= kept'[i] /\ CountIn(list', OwnOf(i)) \in Nat /\ kept'[i] \in Nat
    <3>1. CountIn(l, StayingOf(i)) = Cardinality({k \in DOMAIN l \ F : l[k].id = i})
      BY <1>4, StayingCounted
    <3>2. CountIn(l, StayingOf(i)) <= CountIn(l, OwnOf(i)) /\ CountIn(l, StayingOf(i)) \in Nat
          /\ CountIn(l, OwnOf(i)) \in Nat
      BY <1>4, OwnCounted
    <3>3. QED
      BY <1>3, <1>5, <1>6, <3>1, <3>2
  <2>2. ASSUME NEW i \in Id
        PROVE  CountIn(list', OwnOf(i)) + CountIn(call'.todo, PutsOf(i)) >= kept'[i]
    <3>1. call'.todo \in Seq(Request)
      <4>1. call'.todo = [k \in DOMAIN steps |-> [do |-> steps[k].do, id |-> steps[k].id, nth |-> k]]
        BY <1>3, IdleCall DEF Begin, Current, WriteCall
      <4>2. \A k \in 1..n : [do |-> steps[k].do, id |-> steps[k].id, nth |-> k] \in Request
        <5>1. ASSUME NEW k \in 1..n PROVE [do |-> steps[k].do, id |-> steps[k].id, nth |-> k] \in Request
          <6>1. steps[k].do \in {"put", "cut", "sweep", "wipe"} /\ steps[k].id \in Id /\ k \in Nat
            BY <1>2
          <6>2. QED
            BY <6>1 DEF Request
        <5>2. QED
          BY <5>1
      <4>3. QED
        BY <1>2, <4>1, <4>2
    <3>2. CountIn(call'.todo, PutsOf(i)) \in Nat
      BY <3>1, CountFacts
    <3>3. QED
      BY <2>1, <3>2
  <2>3. QED
    BY <1>6, <2>1, <2>2 DEF KeepersSound, Deezers
<1>8. /\ \A k \in 1..n : /\ steps[k].do \in {"put", "cut", "sweep", "wipe"} /\ steps[k].id \in Id
                         /\ steps[k].do # "put" /\ (steps[k].do = "wipe" <=> target \in Deezers)
      /\ \A j, k \in 1..n : j # k /\ steps[j].do = "wipe" /\ steps[k].do = "wipe" => steps[j].id # steps[k].id
  BY <1>2
<1>9. \A k \in 1..Len(list) : l[k].id = list[k].id /\ l[k].mark <= 0
  BY <1>4
<1>10. QED
  <2>1. "drop" \in {"add", "copies", "drop"} /\ kept' \in [Id -> Nat]
    BY <1>3, <1>5
  <2>2. QED
    BY <1>1, <1>2, <1>3, <1>4, <1>5, <1>7, <1>8, <1>9, <2>1, Begins

-----------------------------------------------------------------------------
LEMMA WriteBegins ==
  ASSUME Init
  PROVE  WriteInv
<1>1. /\ call = Idle /\ landed = {} /\ seen = {} /\ taken = {} /\ kept = NoCopies
      /\ alias = [i \in Id |-> i] /\ target \in Target
  BY DEF Init
<1>2. PICK n \in 0..2 : list \in [1..n -> [id : Id \ Gone, mark : {0}]]
  BY DEF Init
<1>3. list \in Seq(Entry) /\ DOMAIN list = 1..n
      /\ \A k \in 1..n : list[k].id \notin Gone /\ list[k].mark = 0
  <2>1. \A k \in 1..n : list[k] \in [id : Id \ Gone, mark : {0}]
    BY <1>2
  <2>2. \A k \in 1..n : list[k] \in Entry /\ list[k].id \notin Gone /\ list[k].mark = 0
    BY <2>1 DEF Entry
  <2>3. QED
    BY <1>2, <2>2
<1>4. ~Active /\ call.todo = <<>> /\ DOMAIN call.todo = {}
  BY <1>1, IdleCall DEF Active
<1>5. TypeOK
  <2>1. {faults, edits, calls} \subseteq Nat
    BY BoundAssumption DEF Init
  <2>2. QED
    BY <1>1, <1>3, <2>1, IdleCall DEF TypeOK
<1>6. PlanInShape
  BY <1>1, <1>4, IdleCall DEF PlanInShape
<1>7. MarksInOrder
  BY <1>3, <1>4 DEF MarksInOrder
<1>8. DueOnce /\ AllAccounted
  BY <1>4 DEF DueOnce, AllAccounted
<1>9. AppleCounts
  <2>1. \A i : Copies(list, i) \in Nat
    BY <1>3, CopiesCounted
  <2>2. \A i \in Id : call.counts[i] = 0
    BY <1>1, IdleCall DEF NoCopies
  <2>3. QED
    BY <1>1, <1>4, <2>1, <2>2, IdAssumption DEF AppleCounts
<1>10. NothingPassedOver /\ ConfirmedIsThere
  BY <1>1, IdleCall DEF NothingPassedOver, ConfirmedIsThere
<1>11. KeepersSound
  <2>1. \A i \in Id : /\ CountIn(list, StayingOf(i)) \in Nat /\ CountIn(list, OwnOf(i)) \in Nat
                      /\ kept[i] = 0
    BY <1>1, <1>3, CountFacts DEF NoCopies
  <2>2. call.kind # "drop"
    BY <1>1, IdleCall
  <2>3. QED
    BY <2>1, <2>2 DEF KeepersSound
<1>12. QED
  BY <1>5, <1>6, <1>7, <1>8, <1>9, <1>10, <1>11 DEF WriteInv

LEMMA WriteRests ==
  ASSUME WriteInv, UNCHANGED vars
  PROVE  WriteInv'
<1>1. UNCHANGED <<target, list, alias, call, landed, seen, taken, kept, faults, edits, calls>>
  BY DEF vars
<1>2. /\ req' = req /\ (Active' <=> Active) /\ (Steady' <=> Steady) /\ (TypeOK' <=> TypeOK)
      /\ (PlanInShape' <=> PlanInShape) /\ (MarksInOrder' <=> MarksInOrder)
  BY <1>1 DEF req, Active, Steady, TypeOK, PlanInShape, Asked, MarksInOrder
<1>3. (DueOnce' <=> DueOnce) /\ (AppleCounts' <=> AppleCounts)
  BY <1>1, <1>2 DEF DueOnce, AppleCounts
<1>4. /\ (AllAccounted' <=> AllAccounted) /\ (NothingPassedOver' <=> NothingPassedOver)
      /\ (ConfirmedIsThere' <=> ConfirmedIsThere)
  BY <1>1, <1>2 DEF AllAccounted, Accounted, Asked, NothingPassedOver, ConfirmedIsThere, HadIt
<1>5. KeepersSound' <=> KeepersSound
  BY <1>1, <1>2 DEF KeepersSound, Wiping, Lost
<1>6. QED
  BY <1>2, <1>3, <1>4, <1>5 DEF WriteInv

LEMMA WriteStep ==
  ASSUME WriteInv, [Next]_vars
  PROVE  WriteInv'
<1>1. ASSUME NEW n \in 1..MaxLen, NEW ids \in [1..n -> Id], Add(ids) \/ AddCopies(ids) PROVE WriteInv'
  BY <1>1, AppendBegins DEF Add, AddCopies
<1>2. ASSUME NEW ids \in UNION {[1..n -> Id] : n \in 1..MaxLen}, Add(ids) \/ AddCopies(ids) PROVE WriteInv'
  <2>1. PICK n \in 1..MaxLen : ids \in [1..n -> Id]
    OBVIOUS
  <2>2. QED
    BY <1>1, <1>2, <2>1
<1>3. ASSUME NEW F \in SUBSET DOMAIN list, Drop(F) PROVE WriteInv'
  BY <1>3, DropHolds
<1>4. CASE Accepted
  BY <1>4, AcceptedHolds
<1>5. CASE Throttle
  BY <1>5, ThrottleHolds
<1>6. CASE Lose
  BY <1>6, LoseHolds
<1>7. CASE Unauthorised
  BY <1>7, UnauthorisedHolds
<1>8. CASE Garble
  BY <1>8, GarbleHolds
<1>9. CASE Refused
  BY <1>9, RefusedHolds
<1>10. CASE Found
  BY <1>10, FoundHolds
<1>11. CASE ReadStale
  BY <1>11, ReadStaleHolds
<1>12. CASE Unknown
  BY <1>12, UnknownHolds
<1>13. CASE NotFound
  BY <1>13, NotFoundHolds
<1>14. ASSUME NEW i \in Id \ Gone, PersonAdds(i) PROVE WriteInv'
  BY <1>14, PersonAddsHolds
<1>15. ASSUME NEW k \in DOMAIN list, PersonRemoves(k) PROVE WriteInv'
  BY <1>15, PersonRemovesHolds
<1>16. CASE UNCHANGED vars
  BY <1>16, WriteRests
<1>17. QED
  BY <1>2, <1>3, <1>4, <1>5, <1>6, <1>7, <1>8, <1>9, <1>10, <1>11, <1>12, <1>13, <1>14, <1>15, <1>16 DEF Next

\* The writes of every client (engine/targets): what its appends leave stands in the order they were
\* asked for, each once unless the client repeats a write blindly (or Apple offers another release of
\* a song it still takes), nothing is passed over, and what the client reports as written the
\* playlist has had, whatever is throttled, lost, renewed or refused and whatever a person edits.
THEOREM AppendsHoldAlways == Spec => []AppendsHold
<1>1. WriteInv => AppendsHold
  <2>1. ASSUME WriteInv PROVE InOrder
    <3>1. MarksInOrder
      BY <2>1 DEF WriteInv
    <3>2. QED
      BY <3>1 DEF InOrder, OrderedOnce, MarksInOrder
  <2>2. QED
    BY <2>1 DEF WriteInv, AppendsHold
<1>2. QED
  BY <1>1, WriteBegins, WriteStep, PTL DEF Spec

\* Removing duplicates (remove_occurrences of every client but Apple) leaves the copies that were not
\* flagged: at all times where copies are addressed one by one, when it reports success for Deezer.
THEOREM KeepersKeptAlways == Spec => []KeepersKept
<1>1. WriteInv => KeepersKept
  <2>1. ASSUME WriteInv, (call.phase = "idle" /\ call.result = "done") \/ target \notin Deezers,
               NEW i \in Id, ~Lost(i)
        PROVE  Copies(list, i) >= kept[i]
    <3>1. TypeOK /\ KeepersSound
      BY <2>1 DEF WriteInv
    <3>2. list \in Seq(Entry) /\ kept[i] \in Nat
      BY <3>1 DEF TypeOK
    <3>3. /\ CountIn(list, StayingOf(i)) <= CountIn(list, OwnOf(i)) /\ CountIn(list, OwnOf(i)) <= Copies(list, i)
          /\ CountIn(list, StayingOf(i)) \in Nat /\ CountIn(list, OwnOf(i)) \in Nat /\ Copies(list, i) \in Nat
      BY <3>2, OwnCounted, CopiesCounted
    <3>4. CountIn(list, StayingOf(i)) >= kept[i] \/ CountIn(list, OwnOf(i)) >= kept[i]
      BY <2>1, <3>1 DEF KeepersSound, Active
    <3>5. QED
      BY <3>2, <3>3, <3>4
  <2>2. QED
    BY <2>1 DEF KeepersKept, KeepersLeft, Lost
<1>2. QED
  BY <1>1, WriteBegins, WriteStep, PTL DEF Spec

=============================================================================
