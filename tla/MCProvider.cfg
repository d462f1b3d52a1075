SPECIFICATION Spec
CONSTANTS
  n1 = n1
  n2 = n2
  c1 = c1
  c2 = c2
  home = home
  unknown = unknown
  AllSets = AllSets
  ByName <- MCByName
  Snapshots = {1, 2, 3}
  NetworkOf <- MCNetworkOf
  PagesOf <- MCPagesOf
  Stored = {1, 3}
  Clients = {c1, c2}
  AddressOf <- MCAddressOf
  SetsOf <- MCSetsOf
  MaxChanges = 3
  MaxLosses = 1

INVARIANTS TypeOK WholeIsWhole BreaksOnlyWhenEmptied RequestsAreCounted
PROPERTIES ListsPages ListingsEnd
CHECK_DEADLOCK FALSE
