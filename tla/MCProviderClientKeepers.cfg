\* Known departure: the Deezer web client takes an answer it cannot read for a refused removal.
SPECIFICATION ClientSpec
CONSTANTS
  Id = {"a", "b", "c"}
  Gone = {"c"}
  NewId <- MCNewId
  Target = {"deezerweb"}
  MaxTries = 3
  MaxFaults = 2
  MaxEdits = 1
  MaxCalls = 1
  MaxLen = 2
  Readers <- EveryReader
  Size = 1
  MaxEntry = 3
  MaxBad = 1
  MaxMoves = 4
  Kind = {"tidal"}
  Holder = {"pass"}
  MaxConnects = 0
  MaxRotations = 0
  MaxSessionFaults = 0
INVARIANTS UnflaggedPreserved
CHECK_DEADLOCK FALSE
