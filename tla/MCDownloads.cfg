SPECIFICATION DownloadFairSpec
CONSTANTS
    Playlist = {1, 2}
    Track = {"a", "b"}
    FileOf <- MCFileOf
    Title <- MCTitle
    Library = {"b"}
    Sourced = {"a", "b"}
    FromSpotify = TRUE
    Chunk = 1
    MaxListEdits = 2
    MaxDownloadFaults = 1
INVARIANTS LedgerIsTrue
PROPERTIES OnlyLeaversDeleted CatchesUp
