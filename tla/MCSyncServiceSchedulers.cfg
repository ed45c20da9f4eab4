\* The schedulers and the store: one merge job that creates its destination.
SPECIFICATION Spec
CONSTANTS
  NumJobs = 1
  Merge = {1}
  Task = {t1, t2}
  NoTask = NoTask
  Dead = Dead
  MaxRequests = 3
  MaxRestarts = 0
SYMMETRY Symmetry
CHECK_DEADLOCK FALSE
INVARIANT SchedulersFollowStore
