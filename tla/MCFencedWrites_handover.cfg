CONSTANTS
  l1 = l1
  o1 = o1
  r1 = r1
  Empty = Empty
  LockName = {l1}
  Owner = {o1}
  NodeID = {}
  Address = {}
  MaxInt64 = 7
  Node = {r1}
  Input <- MCInput
  MaxLog = 5
  Guard = l1
SPECIFICATION WritesSpec
INVARIANTS
  FencingOrder
  TokensNeverReused
  LeaseIDsNeverReused
PROPERTIES
  TermsClimb
  ImplementsFencedLock
