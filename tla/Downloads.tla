------------------------------ MODULE Downloads ------------------------------
(***************************************************************************)
(* The local audio mirror (engine/downloads.py, engine/local_library.py):  *)
(* one folder of files per playlist, brought up to date after a pass by    *)
(* spotDL and by copies from the person's own library, and a state file    *)
(* that remembers, per playlist, the snapshot last mirrored, the tracks    *)
(* whose file is there and the tracks no source was found for.             *)
(* The playlists, the folders and the state file outlive a pass; what the  *)
(* pass has read does not.  A track's file is a function of the track      *)
(* (ISRC, name key or file name): two tracks may share one.                *)
(***************************************************************************)
EXTENDS Integers, FiniteSets

CONSTANTS
    Playlist,       \* playlists of the source, as numbers: their listing order
    Track,          \* tracks a person may put in them
    FileOf,         \* the file a track is recognised by
    Title,          \* a playlist's name, sanitised
    Library,        \* tracks the person's own library holds
    Sourced,        \* tracks spotDL finds audio for
    FromSpotify,    \* the source is Spotify, not another service
    Chunk,          \* tracks one spotDL is given by name
    MaxListEdits,   \* bound: edits people make to playlists and folders
    MaxDownloadFaults   \* bound: failed reads, copies and downloads, stops, crashes

ASSUME DownloadsAssumption ==
    /\ Playlist \subseteq Nat /\ IsFiniteSet(Playlist)
    /\ DOMAIN FileOf = Track /\ DOMAIN Title = Playlist
    /\ Library \subseteq Track /\ Sourced \subseteq Track
    /\ FromSpotify \in BOOLEAN /\ Chunk \in Nat /\ MaxListEdits \in Nat /\ MaxDownloadFaults \in Nat

File == {FileOf[t] : t \in Track}
Folder == {<<Title[p]>> : p \in Playlist} \cup {<<Title[p], p>> : p \in Playlist}
Unseen == -1

\* What may cost a folder a track that spotDL has audio for: a person deleted the
\* folder; a run deleted the file of a track that had left and did not get to
\* record it; spotDL read the playlist after the track had left it; the download
\* failed and spotDL exited with 0 all the same.
Cause == {"wiped", "undone", "left", "passing"}
By(lost, cause) == lost \X {cause}

\* One playlist's entry of the state file; a playlist it does not name.
NoEntry == [snap |-> Unseen, files |-> {}, lost |-> {}]

VARIABLES
    live,       \* the playlists as their service holds them
    snap,       \* the snapshot the service gives each: it changes with every edit
    saved,      \* the state file
    disk,       \* the audio files of each folder
    folders,    \* the folders that exist
    \* a pass
    at,         \* where it stands
    mem,        \* the state it loaded and has changed
    queue,      \* the playlists it still has to mirror, in listing order
    listed,     \* the snapshots they were listed with
    used,       \* folder names it has given out
    cur,        \* the playlist and the folder being mirrored
    tracks,     \* its tracks, as read
    pending,    \* those without a file yet
    clean,      \* every spotDL of it exited with 0
    dirty,      \* mem differs from the state file
    gone,       \* tracks whose files it has deleted and not yet recorded
    \* history and bounds
    hurt,       \* tracks something other than a missing source kept from being mirrored, and what
    listEdits, downloadFaults

world == <<live, snap, saved, disk, folders>>
pass == <<at, mem, queue, listed, used, cur, tracks, pending, clean, dirty, gone>>
downloadVars == <<world, pass, hurt, listEdits, downloadFaults>>

Nowhere == [p |-> 0, folder |-> <<>>]

\* Between runs nothing of a run is left.
Blank == [p \in Playlist |-> NoEntry]
NoTracks == [p \in Playlist |-> {}]
NoSnap == [p \in Playlist |-> 0]
NoPass ==
    /\ at = "idle" /\ mem = Blank /\ queue = {} /\ listed = NoSnap /\ used = {}
    /\ cur = Nowhere /\ tracks = {} /\ pending = {} /\ clean = TRUE /\ dirty = FALSE
    /\ gone = NoTracks
EndPass ==
    /\ at' = "idle" /\ mem' = Blank /\ queue' = {} /\ listed' = NoSnap /\ used' = {}
    /\ cur' = Nowhere /\ tracks' = {} /\ pending' = {} /\ clean' = TRUE /\ dirty' = FALSE
    /\ gone' = NoTracks

DownloadInit ==
    /\ live \in [Playlist -> SUBSET Track]
    /\ snap = [p \in Playlist |-> 0]
    /\ saved = Blank
    /\ disk = [f \in Folder |-> {}] /\ folders = {}
    /\ NoPass
    /\ hurt = NoTracks
    /\ listEdits = 0 /\ downloadFaults = 0

DownloadFault == downloadFaults < MaxDownloadFaults /\ downloadFaults' = downloadFaults + 1

-----------------------------------------------------------------------------
\* A person adds a track to a playlist or takes it out.
Edit(p, t) ==
    /\ listEdits < MaxListEdits /\ listEdits' = listEdits + 1
    /\ live' = [live EXCEPT ![p] = IF t \in @ THEN @ \ {t} ELSE @ \cup {t}]
    /\ snap' = [snap EXCEPT ![p] = @ + 1]
    /\ UNCHANGED <<saved, disk, folders, pass, hurt, downloadFaults>>

\* A person deletes a folder, or a pass's folder loses its files.
Wipe(f) ==
    /\ listEdits < MaxListEdits /\ listEdits' = listEdits + 1
    /\ f \in folders
    /\ folders' = folders \ {f}
    /\ disk' = [disk EXCEPT ![f] = {}]
    /\ hurt' = [p \in Playlist |->
                  IF f \in {<<Title[p]>>, <<Title[p], p>>}
                  THEN hurt[p] \cup By(Track, "wiped") ELSE hurt[p]]
    /\ UNCHANGED <<live, snap, saved, pass, downloadFaults>>

-----------------------------------------------------------------------------
\* run: the playlists one sync selected, as the pass listed them, and the state
\* file (a missing or malformed one is empty).
BeginPass(chosen) ==
    /\ at = "idle" /\ chosen # {}
    /\ at' = "next"
    /\ queue' = chosen
    /\ listed' = snap /\ mem' = saved /\ used' = {} /\ dirty' = FALSE
    /\ UNCHANGED <<world, cur, tracks, pending, clean, gone, hurt, listEdits, downloadFaults>>

\* _folder_for: a playlist whose name this run has already used gets its id too.
FolderFor(p) == IF <<Title[p]>> \in used THEN <<Title[p], p>> ELSE <<Title[p]>>

MirroredBy(entry, p) == entry.snap = listed[p]
Unchanged(p) == MirroredBy(mem[p], p) /\ FolderFor(p) \in folders

\* run: the next playlist, skipped when its snapshot is the one last mirrored
\* and its folder is still there.
Next1 ==
    /\ at = "next"
    /\ \E p \in queue :
       /\ \A q \in queue : p <= q
       /\ queue' = queue \ {p}
       /\ used' = used \cup {FolderFor(p)}
       /\ IF Unchanged(p)
          THEN UNCHANGED <<at, cur>>
          ELSE at' = "read" /\ cur' = [p |-> p, folder |-> FolderFor(p)]
    /\ UNCHANGED <<world, mem, listed, tracks, pending, clean, dirty, gone, hurt, listEdits, downloadFaults>>

\* source.read, complete or not at all: a failure leaves the playlist for the
\* next pass.
ReadTracks ==
    /\ at = "read"
    /\ \/ at' = "remove" /\ tracks' = live[cur.p] /\ UNCHANGED <<cur, downloadFaults>>
       \/ DownloadFault /\ at' = "next" /\ cur' = Nowhere /\ UNCHANGED tracks
    /\ UNCHANGED <<world, mem, queue, listed, used, pending, clean, dirty, gone, hurt, listEdits>>

\* _diff_ids: what to fetch is neither on disk nor known to have no source; what
\* to remove was one of the two and has left the playlist.
Remembered(p) == mem[p].files \cup mem[p].lost
NewIds == tracks \ Remembered(cur.p)
RemovedIdsAll == Remembered(cur.p) \ NewIds
RemovedIds == Remembered(cur.p) \ tracks

\* _delete_removed: the files of the tracks that left.
DeleteRemoved ==
    /\ at = "remove"
    /\ folders' = folders \cup {cur.folder}
    /\ disk' = [disk EXCEPT ![cur.folder] =
                  @ \ {FileOf[t] : t \in RemovedIds \cap mem[cur.p].files}]
    /\ at' = "serve" /\ pending' = NewIds /\ clean' = TRUE
    /\ gone' = [gone EXCEPT ![cur.p] = RemovedIds \cap mem[cur.p].files]
    /\ UNCHANGED <<live, snap, saved, mem, queue, listed, used, cur, tracks, dirty,
                   hurt, listEdits, downloadFaults>>

PutFiles(files) == disk' = [disk EXCEPT ![cur.folder] = @ \cup files] /\ folders' = folders \cup {cur.folder}

\* local_library.serve: the new tracks the library holds are copied in.  A track
\* whose copy fails is left to spotDL.
Serve ==
    /\ at = "serve"
    /\ at' = "fetch"
    /\ \E failed \in SUBSET (pending \cap Library) :
       /\ IF failed = {} THEN UNCHANGED downloadFaults ELSE DownloadFault
       /\ PutFiles({FileOf[t] : t \in (pending \cap Library) \ failed})
       /\ pending' = pending \ (Library \ failed)
    /\ UNCHANGED <<live, snap, saved, mem, queue, listed, used, cur, tracks, clean, dirty, gone, hurt, listEdits>>

\* What spotDL is asked for: the playlist itself when the library gave nothing
\* and either nothing of it was ever mirrored or more than one chunk is new,
\* otherwise the tracks one by one.  The playlist is read again by spotDL: it
\* may have changed since.
AsPlaylist ==
    /\ FromSpotify /\ pending = NewIds
    /\ mem[cur.p].files = {} \/ Cardinality(pending) > Chunk
Wanted == IF AsPlaylist THEN live[cur.p] ELSE pending

\* _stream_spotdl: spotDL leaves a file for every wanted track it finds audio
\* for.  The watchdog, or an error of its own, leaves some and a code that is not
\* 0; a single download that fails is logged and leaves the code as it was.
Stream ==
    /\ at = "fetch" /\ pending # {}
    /\ \E got \in SUBSET (Wanted \cap Sourced) :
       LET failed == (pending \cap Wanted \cap Sourced) \ got IN
       /\ PutFiles({FileOf[t] : t \in got})
       /\ \/ got = Wanted \cap Sourced /\ UNCHANGED <<clean, downloadFaults>>
          \/ DownloadFault /\ clean' \in {clean, FALSE}
       /\ hurt' = IF clean'
                  THEN [hurt EXCEPT ![cur.p] =
                          @ \cup By(pending \ Wanted, "left") \cup By(failed, "passing")]
                  ELSE hurt
    /\ at' = "finalize"
    /\ UNCHANGED <<live, snap, saved, mem, queue, listed, used, cur, tracks, pending, dirty,
                   gone, listEdits>>

FetchNothing ==
    /\ at = "fetch" /\ pending = {}
    /\ at' = "finalize"
    /\ UNCHANGED <<world, mem, queue, listed, used, cur, tracks, pending, clean, dirty,
                   gone, hurt, listEdits, downloadFaults>>

\* finalize_folder: a track is mirrored if one of the folder's files is its own.
OnDisk == {t \in tracks : FileOf[t] \in disk[cur.folder]}
LedgerEntryAfter == [snap |-> snap[cur.p], files |-> OnDisk, lost |-> tracks \ OnDisk]
LedgerEntry == [snap |-> listed[cur.p], files |-> OnDisk, lost |-> tracks \ OnDisk]
\* finalize_folder reads of every row what only the rows of Spotify hold: for
\* another source it raises, after all that was done to the folder.
RecordedAlways == TRUE
Recorded == clean /\ (FromSpotify \/ tracks = {})

\* run: the playlist's entry is replaced only when every spotDL of it was clean
\* and nothing raised.  A track found on disk is no longer one that was hurt.
Finalize ==
    /\ at = "finalize"
    /\ IF Recorded
       THEN /\ mem' = [mem EXCEPT ![cur.p] = LedgerEntry] /\ dirty' = TRUE
            /\ hurt' = [hurt EXCEPT ![cur.p] = {h \in @ : h[1] \notin OnDisk}]
       ELSE /\ hurt' = [hurt EXCEPT ![cur.p] = @ \cup By(gone[cur.p], "undone")]
            /\ UNCHANGED <<mem, dirty>>
    /\ at' = "next" /\ cur' = Nowhere /\ tracks' = {} /\ pending' = {} /\ clean' = TRUE
    /\ UNCHANGED <<world, queue, listed, used, gone, listEdits, downloadFaults>>

\* Every playlist done, or Stop or Pause seen before the next one.
Halt ==
    /\ at = "next"
    /\ \/ queue = {} /\ UNCHANGED downloadFaults
       \/ queue # {} /\ DownloadFault
    /\ at' = "save" /\ queue' = {}
    /\ UNCHANGED <<world, mem, listed, used, cur, tracks, pending, clean, dirty, gone, hurt, listEdits>>

\* _save_json, once for the whole run.
Save ==
    /\ at = "save"
    /\ saved' = IF dirty THEN mem ELSE saved
    /\ EndPass
    /\ UNCHANGED <<live, snap, disk, folders, hurt, listEdits, downloadFaults>>

\* The process dies.  Before the state file is written nothing of the pass is in
\* it; while it is written it is truncated, and read as empty from then on.
DownloadCrash ==
    /\ at # "idle" /\ DownloadFault
    /\ saved' = IF at = "save" /\ dirty THEN Blank ELSE saved
    /\ EndPass
    /\ hurt' = [p \in Playlist |-> hurt[p] \cup By(gone[p], "undone")]
    /\ UNCHANGED <<live, snap, disk, folders, listEdits>>

Mirror ==
    \/ Next1 \/ ReadTracks \/ DeleteRemoved \/ Stream \/ FetchNothing
    \/ Serve \/ Finalize \/ Halt \/ Save

DownloadNext ==
    \/ \E p \in Playlist, t \in Track : Edit(p, t)
    \/ \E f \in Folder : Wipe(f)
    \/ \E chosen \in SUBSET Playlist : BeginPass(chosen)
    \/ Mirror \/ DownloadCrash

DownloadSpec == DownloadInit /\ [][DownloadNext]_downloadVars

\* A run goes on while its process lives; the sync that selects every playlist
\* is scheduled again and again.
DownloadFairSpec == DownloadSpec /\ WF_downloadVars(Mirror) /\ SF_downloadVars(BeginPass(Playlist))

-----------------------------------------------------------------------------
DownloadTypeOK ==
    /\ live \in [Playlist -> SUBSET Track]
    /\ saved \in [Playlist -> [snap : Nat \cup {Unseen}, files : SUBSET Track, lost : SUBSET Track]]
    /\ disk \in [Folder -> SUBSET File] /\ folders \subseteq Folder
    /\ at \in {"idle", "next", "read", "remove", "serve", "fetch", "finalize", "save"}
    /\ tracks \subseteq Track /\ pending \subseteq tracks
    /\ hurt \in [Playlist -> SUBSET (Track \X Cause)]

\* A playlist is skipped because its snapshot is the one last mirrored: every
\* track it has now is then one the state file accounts for, although the
\* snapshot was listed before the tracks were read and people may edit in between.
SkipIsSafe ==
    \A p \in Playlist : saved[p].snap = snap[p] =>
        live[p] = saved[p].files \cup saved[p].lost

\* Tracks recognised by a file of their own, playlists with a name of their own.
OwnFile(t) == \A u \in Track : FileOf[u] = FileOf[t] => u = t
OwnTitle(p) == \A q \in Playlist : Title[q] = Title[p] => q = p

Hurt(p, t) == \E cause \in Cause : <<t, cause>> \in hurt[p]
IsThere(p, t) == FileOf[t] \in disk[<<Title[p]>>]

\* A track is given up for good (it is never asked for again) only if spotDL has
\* no audio for it, or its file is gone from the folder for a cause a person or
\* a run gave: the folder was deleted, a run that was interrupted or not clean
\* had deleted the file of the track while it was out of the playlist, spotDL
\* read the playlist after the track had left, or the download failed and spotDL
\* exited with 0.  A download that was killed, a copy that failed, a run
\* interrupted before or after and a lost state file are no such cause.  A track
\* or a playlist that shares its file or its folder may lose it to the other.
LostIsReal ==
    \A p \in Playlist : OwnTitle(p) =>
        \A t \in saved[p].lost \cap Sourced : OwnFile(t) => IsThere(p, t) \/ Hurt(p, t)

\* A track the state file has as mirrored has its file in the folder, except
\* while the pass under way has deleted it, after a run that deleted it and did
\* not get to record that, and after a person deleted the folder.
FilesAreThere ==
    \A p \in Playlist : OwnTitle(p) =>
        \A t \in saved[p].files : OwnFile(t) =>
            \/ IsThere(p, t) \/ t \in gone[p]
            \/ \E cause \in {"wiped", "undone"} : <<t, cause>> \in hurt[p]

\* The state file says of every playlist what is true of it: a playlist that is
\* skipped has the tracks it names, the files it names are there, and the tracks
\* it gives up have no source.
LedgerIsTrue == DownloadTypeOK /\ SkipIsSafe /\ FilesAreThere /\ LostIsReal

\* Of the tracks of the playlist a pass has read, none that has a file of its own
\* loses it, whatever an earlier run left in the folder or in the state.
OnlyLeaversDeleted ==
    [][ folders \subseteq folders' =>
          \A f \in Folder : \A t \in tracks :
              OwnFile(t) /\ cur.folder = f /\ FileOf[t] \in disk[f]
                  => FileOf[t] \in disk'[f] ]_downloadVars

\* Once people and faults leave it alone, every playlist of a Spotify source
\* comes to be mirrored: its last snapshot is recorded, and whatever spotDL can
\* find is in its folder, but for the tracks given up for one of the causes of
\* LostIsReal and those of a folder a person deleted (a run that was interrupted
\* after making it again leaves it empty, and the playlist is skipped from then
\* on).  Of a source other than Spotify nothing is ever recorded.
Mirrored(p) ==
    /\ saved[p].snap = snap[p]
    /\ \A t \in live[p] \cap Sourced :
          \/ IsThere(p, t)
          \/ t \in saved[p].lost /\ Hurt(p, t)
          \/ <<t, "wiped">> \in hurt[p]
CatchesUp == <>[](\A p \in Playlist : Mirrored(p))

\* README.md, Local download mirror: "Sync is true mirroring: new tracks are
\* downloaded, removed tracks are deleted locally", and downloads.py: "tracks
\* removed from the playlist are deleted, and an interrupted run just continues
\* on the next pass".
RemovedIsDeleted ==
    \A p \in Playlist : saved[p].snap = snap[p] =>
        disk[<<Title[p]>>] \subseteq {FileOf[t] : t \in live[p]}

\* downloads.py: "an interrupted run just continues on the next pass", and
\* README.md, Local download mirror: "An interrupted run continues next pass": a
\* track is not given up for the only cause that a run was interrupted, or not
\* clean, after it had deleted the track's file.
InterruptedContinues ==
    \A p \in Playlist : OwnTitle(p) =>
        \A t \in saved[p].lost \cap Sourced : OwnFile(t) =>
            IsThere(p, t) \/ \E cause \in Cause \ {"undone"} : <<t, cause>> \in hurt[p]

=============================================================================
