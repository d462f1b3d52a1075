SPECIFICATION Spec
CONSTANTS
  Workers = {w1}
  Cron = {}
  Snapshots = {s1}
  Targets = 2
  LastPage = 1
  MaxRetries = 1
  EndlessServer = FALSE
  Configs <- OneConfig
  Relaunch = FALSE
  MaxAborts = 0
  MaxCrashes = 0
  None = None
INVARIANT
  FailedIsNotPublished
CHECK_DEADLOCK FALSE
