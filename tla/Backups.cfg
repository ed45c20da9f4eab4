SPECIFICATION BackupFairSpec
CONSTANTS
  Account = {"x"}
  Interval = {1, 2}
  Retention = {1}
  Dir = {"d", "e"}
  Task = {t1, t2}
  NoTask = NoTask
  Stamp = {1, 2}
  Format = {1, 2}
  MaxRuns = 3
  MaxScheduleEdits = 2
  MaxDeletes = 1
  MaxBackupFaults = 1
INVARIANTS TasksFollowRows
PROPERTIES SavedIsThere Stops
CHECK_DEADLOCK FALSE
