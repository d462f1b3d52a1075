SPECIFICATION Spec
CONSTANTS
  n1 = n1
  n2 = n2
  s1 = s1
  s2 = s2
  w1 = w1
  None = None
  Networks <- TwoNetworks
  Snapshots <- TwoSnapshots
  Jobs <- OneJob
  Tasks <- TasksOfTwo
  NetworkOf <- NetworkOfTwo
  PagesOf <- PagesOfTwo
  MaxPages = 2
  MaxFailures = 2
  Cleanable = {s1}
  Administered = {n1}
  Failures = {"delete", "page", "index", "rollback", "autocommit"}
INVARIANTS
  TypeOK
  NothingLeftPending
PROPERTIES
  PublishesSnapshots
  EveryTaskEnds
CHECK_DEADLOCK FALSE
