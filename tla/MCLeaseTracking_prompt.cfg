CONSTANTS
  n1 = n1  n2 = n2  q1 = q1  q2 = q2  o1 = o1
  Node = {n1, n2}
  Request = {q1, q2}
  Owner = {o1}
  LockName = {}  NodeID = {}  Address = {}
  Empty = Empty
  MaxInt64 = 100
  TTL = 2
  Skew <- MCSkew
  Stalls = {}
  MaxTime = 3
  MaxTerm = 2
  MaxLog = 4
  MaxLeases = 1
SYMMETRY Requests
SPECIFICATION Spec
CHECK_DEADLOCK FALSE
INVARIANTS
  TypeOK
  LeaderHonoursPromises
  AcknowledgedLeaseLives
