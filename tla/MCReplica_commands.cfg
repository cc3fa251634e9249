CONSTANTS
  l1 = l1
  o1 = o1
  o2 = o2
  r1 = r1
  r2 = r2
  n1 = n1
  a1 = a1
  Empty = Empty
  LockName = {l1}
  Owner <- MCOwners
  NodeID = {n1}
  Address = {a1}
  MaxInt64 = 7
  Node <- MCNodes
  Input <- MCInput
  MaxLog = 3
SPECIFICATION Spec
SYMMETRY MCSymmetry
INVARIANTS
  TypeOK
  ReplicasAgree
  LocksBackedByLeases
  SnapshotsRestorable
