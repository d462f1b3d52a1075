SPECIFICATION Spec
CONSTANTS
  n1 = n1
  n2 = n2
  s1 = s1
  s2 = s2
  w1 = w1
  None = None
  Networks <- OneNetwork
  Snapshots <- OneSnapshot
  Jobs <- OneJob
  Tasks <- TasksOfOne
  NetworkOf <- NetworkOfOne
  PagesOf <- PagesOfOne
  MaxPages = 2
  Failures = {"index"}
  MaxFailures = 1
  Cleanable = {}
  Administered = {}
INVARIANT SuccessIsIndexed
CHECK_DEADLOCK FALSE
