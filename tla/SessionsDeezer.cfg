\* Known departure: a Deezer target does not use the session that was connected last.
SPECIFICATION SessionSpec
CONSTANTS
  Kind = {"deezer"}
  Holder = {"pass", "library"}
  MaxConnects = 2
  MaxRotations = 1
  MaxSessionFaults = 2
INVARIANTS UsesChosen
CHECK_DEADLOCK FALSE
