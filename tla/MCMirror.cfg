SPECIFICATION FairSpec
CONSTANTS
  NumTracks = 3
  Source = {s1, s2}
  Main = s1
  s1 = s1
  s2 = s2
  Jobs <- AllJobs
  Alike <- OneAlikeThree
  MaxRemovals = 1
  MaxEdits = 1
  MaxFaults = 2
CHECK_DEADLOCK FALSE
INVARIANTS OrderKept OnlyCopyKept SkipIsSafe
PROPERTIES UnreadKept Converges
