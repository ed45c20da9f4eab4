\* Every client's writes, every reader, every kind of session.
SPECIFICATION ClientSpec
CONSTANTS
  Id = {"a", "b", "c"}
  Gone = {"c"}
  NewId <- MCNewId
  Target = {"apple", "youtube", "youtubei", "deezer", "deezerweb", "qobuz", "tidal", "amazon", "amazonweb", "spotify", "cookie"}
  MaxTries = 3
  MaxFaults = 2
  MaxEdits = 1
  MaxCalls = 1
  MaxLen = 2
  Readers <- EveryReader
  Size = 1
  MaxEntry = 3
  MaxBad = 1
  MaxMoves = 4
  Kind = {"spotify", "tidal", "deezer", "amazon", "youtube"}
  Holder = {"pass", "library"}
  MaxConnects = 2
  MaxRotations = 1
  MaxSessionFaults = 2
INVARIANTS AppendsHold KeepersKept ReadsAreTrue SessionsHold
PROPERTIES OnlyPickedGo ReadEnds
CHECK_DEADLOCK FALSE
