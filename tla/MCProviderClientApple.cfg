\* Known departure: the copies Apple counts after it has replaced an id.
SPECIFICATION ClientSpec
CONSTANTS
  Id = {"a", "b"}
  Gone = {}
  NewId <- MCOneRelease
  Target = {"apple"}
  MaxTries = 6
  MaxFaults = 2
  MaxEdits = 0
  MaxCalls = 1
  MaxLen = 3
  Readers <- EveryReader
  Size = 1
  MaxEntry = 3
  MaxBad = 1
  MaxMoves = 4
  Kind = {"tidal"}
  Holder = {"pass"}
  MaxConnects = 0
  MaxRotations = 0
  MaxSessionFaults = 0
INVARIANTS AppendedOnce
CHECK_DEADLOCK FALSE
