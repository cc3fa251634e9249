CONSTANTS
  n1 = n1
  n2 = n2
  lock = lock
  me = me
  rival = rival
  Empty = Empty
  Node <- MCNodes
  NodeID <- MCNodes
  Address <- MCNodes
  Seeds <- MCSeeds
  First = {n2}
  Members <- MCMembers
  LockName <- MCLocks
  Owner <- MCOwners
  MaxInt64 = 7
  MaxCalls = 2
  MaxEvents = 2
SPECIFICATION Spec
CHECK_DEADLOCK FALSE
INVARIANTS
  TypeOK
  LostOnlyByRelease
  BusyMeansContended
PROPERTIES
  CallsAnswered
