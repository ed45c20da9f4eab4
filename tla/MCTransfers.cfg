\* Two copies of one playlist: one track is found, one as an id that is declined.
SPECIFICATION FairSpec
CONSTANTS
  NumJobs = 2
  NumTracks = 3
  Id = {1, 2, 3}
  NoId = 0
  Match <- FirstTwo
  Refused = {3}
  BatchSize = 1
  MaxRequests = 4
  MaxFaults = 1
  MaxRestarts = 1
CHECK_DEADLOCK FALSE
INVARIANTS NothingTwice ReportsHold HaltsSoon
PROPERTIES Served
