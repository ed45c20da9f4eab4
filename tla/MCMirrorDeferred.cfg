SPECIFICATION FairSpec
CONSTANTS
  NumTracks = 3
  Source = {s1}
  Main = s1
  s1 = s1
  Jobs <- DrainingLess
  Alike <- OneAlikeThree
  MaxRemovals = 1
  MaxEdits = 1
  MaxFaults = 0
CHECK_DEADLOCK FALSE
PROPERTIES GetsCopied
