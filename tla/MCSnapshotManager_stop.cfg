SPECIFICATION Spec
CONSTANTS
  Workers = {w1}
  Cron = {}
  Snapshots = {s1}
  Targets = 2
  LastPage = 2
  MaxRetries = 2
  EndlessServer = TRUE
  Configs <- AllConfigs
  Relaunch = TRUE
  MaxAborts = 0
  MaxCrashes = 1
  None = None
INVARIANTS
  SuccessIsAccountedFor
  StopWithinBatchIsObeyed
  OrphanCanBeStopped
PROPERTIES
  StopEndsRun
CHECK_DEADLOCK FALSE
