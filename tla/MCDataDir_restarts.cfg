\* Once the bounds are used up a running node does nothing more.
CONSTANTS
  i1 = i1  i2 = i2  None = None
  ID = {i1, i2}
  MaxLog = 2
  MaxValue = 1
  MaxCrashes = 2
SPECIFICATION Spec
INVARIANTS
  TypeOK
  NothingLost
  OneIdentity
PROPERTIES
  NoSecondCluster
  ComesUp
CHECK_DEADLOCK FALSE
