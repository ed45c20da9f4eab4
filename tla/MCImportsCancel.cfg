SPECIFICATION Spec
CONSTANTS
  NumTracks = 2
  Invalid = {}
  Id = {1, 2}
  NoId = 0
  None = 99
  Match <- OneEach
  Refused = {}
  BatchSize = 1
  NumWorkers = 2
  MaxPlaylists = 1
  MaxRequests = 5
  MaxFaults = 0
CHECK_DEADLOCK FALSE
INVARIANTS CancelStops
