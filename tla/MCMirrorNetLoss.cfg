SPECIFICATION Spec
CONSTANTS
  NumTracks = 3
  Source = {s1}
  Main = s1
  s1 = s1
  Jobs <- Draining
  Alike <- OneAlikeThree
  MaxRemovals = 1
  MaxEdits = 0
  MaxFaults = 1
CHECK_DEADLOCK FALSE
PROPERTIES NetLossProtected
