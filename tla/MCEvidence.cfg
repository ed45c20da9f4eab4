\* Every provider's cache; one playlist of three tracks on two providers.
SPECIFICATION EvidenceSpec
CONSTANTS
  Provider = {"apple", "ytmusic", "spotify", "deezer", "qobuz", "tidal", "amazon"}
  Account = {"x", "y"}
  Session = {s1, s2}
  Found = {1, 2}
  MaxLoads = 2
  MaxFaults = 1
  Playlist = {"l"}
  Peer = {1, 2}
  Track = {11, 12, 21}
  PeerOf <- MCPeerOf
  SongOf <- MCSongOf
  Isrc = {1, 2}
  Spotify = {3}
  Key = {4, 5}
  ProofOf <- MCProofOf
  Alike = {}
  Aspect = {"good", "poor"}
  Shows <- MCShows
  Others = 2
  MaxPasses = 3
  MaxEdits = 1
INVARIANTS PersonDecides EvidenceIsOwn EvidenceIsReal
PROPERTIES SongStays
SYMMETRY Sessions
CHECK_DEADLOCK FALSE
