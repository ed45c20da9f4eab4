\* One pass at a time: two jobs and a pass that was cancelled.
SPECIFICATION Spec
CONSTANTS
  NumJobs = 2
  Merge = {}
  Task = {t1, t2, t3}
  NoTask = NoTask
  Dead = Dead
  MaxRequests = 2
  MaxRestarts = 0
SYMMETRY Symmetry
CHECK_DEADLOCK FALSE
INVARIANT OnePass
