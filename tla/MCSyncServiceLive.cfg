\* Two jobs and one more client of the lock; liveness, so no symmetry.
SPECIFICATION FairSpec
CONSTANTS
  NumJobs = 2
  Merge = {}
  Task = {t1, t2, t3}
  NoTask = NoTask
  Dead = Dead
  MaxRequests = 2
  MaxRestarts = 0
CHECK_DEADLOCK FALSE
PROPERTIES QueueMoves KeepsRunning
