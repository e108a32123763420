SPECIFICATION FairSpec
CONSTANTS
  Sessions = {s1, s2, s3}
  NoSession = NoSession
INVARIANTS
  TypeOK
  NoOrphan
  NeverGivesUp
  StateReported
PROPERTIES
  Reconnects
  DestructorReturns
CHECK_DEADLOCK FALSE
