CONSTANTS
  w1 = w1  w2 = w2  t1 = t1  t2 = t2  lk = lk  o1 = o1
  LockName = {lk}  Owner = {o1}  NodeID = {}  Address = {}
  Empty = Empty
  MaxInt64 = 7
  lockName = lk
  owner = o1
  Call = {w1, w2, t1}
  LeaseOf <- MCOwnLeases
  Waits = {w1, w2}
  Mortal = {1, 3}
SPECIFICATION Spec
CHECK_DEADLOCK FALSE
INVARIANTS
  TypeOK
  NoLostWakeup
PROPERTIES
  EveryWaiterAnswered
  WaitersInOrder
