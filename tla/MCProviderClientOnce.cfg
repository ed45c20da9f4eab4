\* Known departure: clients that repeat a write whose answer was lost.
SPECIFICATION ClientSpec
CONSTANTS
  Id = {"a", "b", "c"}
  Gone = {"c"}
  NewId <- MCNewId
  Target = {"deezerweb", "spotify", "cookie"}
  MaxTries = 3
  MaxFaults = 2
  MaxEdits = 1
  MaxCalls = 1
  MaxLen = 2
  Readers <- EveryReader
  Size = 1
  MaxEntry = 3
  MaxBad = 1
  MaxMoves = 4
  Kind = {"tidal"}
  Holder = {"pass"}
  MaxConnects = 0
  MaxRotations = 0
  MaxSessionFaults = 0
INVARIANTS AppendedOnce
CHECK_DEADLOCK FALSE
