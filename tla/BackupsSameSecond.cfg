\* Known departure: backups of one second, whose numbers or formats sort before an older one's.
SPECIFICATION BackupSpec
CONSTANTS
  Account = {"x"}
  Interval = {1}
  Retention = {1}
  Dir = {"d"}
  Task = {t1}
  NoTask = NoTask
  Stamp = {1}
  Format = {1, 2}
  MaxRuns = 3
  MaxScheduleEdits = 1
  MaxDeletes = 0
  MaxBackupFaults = 0
PROPERTIES SuccessIsOnDisk
CHECK_DEADLOCK FALSE
