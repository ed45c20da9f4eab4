\* One copy, on which buttons are pressed; nothing fails.
SPECIFICATION Spec
CONSTANTS
  NumJobs = 1
  NumTracks = 3
  Id = {1, 2, 3}
  NoId = 0
  Match <- FirstTwo
  Refused = {3}
  BatchSize = 1
  MaxRequests = 4
  MaxFaults = 0
  MaxRestarts = 0
CHECK_DEADLOCK FALSE
INVARIANTS StopIsForGood
