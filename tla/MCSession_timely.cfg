CONSTANTS
  s1 = s1  s2 = s2  NoStream = NoStream
  Stream = {s1, s2}
  TTL = 12
  FirstBackoff = 1
  MaxBackoff = 6
  MinAttempt = 1
  StartDelay = 2
  OpenDelay = 1
  MaxTime = 20
SPECIFICATION Spec
SYMMETRY MCSymmetry
CHECK_DEADLOCK FALSE
INVARIANTS
  TypeOK
  GivesUpInTime
  LeaseOutlivesSession
