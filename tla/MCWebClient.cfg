SPECIFICATION Spec
CONSTANTS
  n1 = n1
  n2 = n2
  n3 = n3
  o1 = o1
  o2 = o2
  o3 = o3
  o4 = o4
  s1 = s1
  p1 = p1
  l1 = l1
  None = None
  Blank = Blank
  Order <- MCOrder
  KindOf <- MCKindOf
  FirstParent <- MCFirstParent
  Stored <- MCStored
  MaxClicks = 3
  MaxFailures = 1
INVARIANTS TypeOK OwnContent QuietTablesAreFresh CreatedItemsJoin
PROPERTIES RelationsAreKept
