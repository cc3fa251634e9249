CONSTANTS
  n1 = n1
  n2 = n2
  lock = lock
  me = me
  rival = rival
  Empty = Empty
  Node <- MCNodes
  NodeID <- MCNodes
  Address <- MCNodes
  Seeds <- MCBothSeeds
  First = {n1, n2}
  Members <- MCMembers
  LockName <- MCLocks
  Owner <- MCOwners
  MaxInt64 = 7
  MaxCalls = 3
  MaxEvents = 1
SPECIFICATION Spec
CHECK_DEADLOCK FALSE
INVARIANTS
  RepeatIsSafe
