CONSTANTS
  w1 = w1  w2 = w2  t1 = t1  t2 = t2  lk = lk  o1 = o1
  LockName = {lk}  Owner = {o1}  NodeID = {}  Address = {}
  Empty = Empty
  MaxInt64 = 7
  lockName = lk
  owner = o1
  Call = {w1, w2, t1, t2}
  LeaseOf <- MCSharedLease
  Waits = {w1, w2}
  Mortal = {}
SPECIFICATION Spec
CHECK_DEADLOCK FALSE
PROPERTIES
  NoBarging
