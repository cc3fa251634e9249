CONSTANTS
  n1 = n1
  n2 = n2
  r1 = r1
  r2 = r2
  r3 = r3
  g1 = g1
  g2 = g2
  g3 = g3
  Empty = Empty
  Operator = Operator
  First = n1
  NodeID <- MCNodes
  Address <- MCAddresses
  Flags <- MCFlags
  LockName = {}
  Owner = {}
  MaxInt64 = 7
  Slot = {1, 2, 3}
  MaxAttempts = 2
  MaxOps = 2
  MaxEvents = 1
SPECIFICATION Spec
CHECK_DEADLOCK FALSE
INVARIANTS
  TypeOK
  JoinedIsAdvertised
  RemovedIsGone
PROPERTIES
  LeaderBecomesKnown
