SPECIFICATION FairSpec
CONSTANTS
  NumTracks = 2
  Invalid = {}
  Id = {1, 2}
  NoId = 0
  None = 99
  Match <- BothOne
  Refused = {2}
  BatchSize = 2
  NumWorkers = 2
  MaxPlaylists = 2
  MaxRequests = 4
  MaxFaults = 1
CHECK_DEADLOCK FALSE
INVARIANTS WritesOnce RowsAreTrue ChoicesKept
PROPERTIES Settles
