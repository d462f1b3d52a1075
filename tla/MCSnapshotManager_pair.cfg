SPECIFICATION Spec
CONSTANTS
  Workers = {w1, w2}
  Cron = {w1}
  Snapshots = {s1, s2}
  Targets = 1
  LastPage = 1
  MaxRetries = 1
  EndlessServer = FALSE
  Configs <- OneConfig
  Relaunch = FALSE
  MaxAborts = 1
  MaxCrashes = 0
  None = None
INVARIANTS
  TypeOK
  StopFindsWorker
  RegistryNamesItsWorker
SYMMETRY Symmetry
CHECK_DEADLOCK FALSE
