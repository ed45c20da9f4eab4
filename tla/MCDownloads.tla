----------------------------- MODULE MCDownloads -----------------------------
(* Two playlists of different names over two tracks with a file each: spotDL  *)
(* finds audio for both, the person's library holds one of them.              *)
EXTENDS Downloads

MCFileOf == [t \in Track |-> t]
MCTitle == [p \in Playlist |-> p]

=============================================================================
