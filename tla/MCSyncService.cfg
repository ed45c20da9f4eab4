\* Two jobs, of which one is a merge job still without its destination; one restart.
SPECIFICATION Spec
CONSTANTS
  NumJobs = 2
  Merge = {1}
  Task = {t1, t2, t3}
  NoTask = NoTask
  Dead = Dead
  MaxRequests = 3
  MaxRestarts = 1
SYMMETRY Symmetry
CHECK_DEADLOCK FALSE
INVARIANTS StatusIsTrue DestinationOnce
PROPERTIES ImplementsEngineSlot ControlIsOwn
