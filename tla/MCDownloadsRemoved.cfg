SPECIFICATION DownloadSpec
CONSTANTS
    Playlist = {1}
    Track = {"a", "b"}
    FileOf <- MCFileOf
    Title <- MCTitle
    Library = {"b"}
    Sourced = {"a", "b"}
    FromSpotify = TRUE
    Chunk = 1
    MaxListEdits = 1
    MaxDownloadFaults = 1
INVARIANTS RemovedIsDeleted
