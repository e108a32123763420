SPECIFICATION FairSpec
CONSTANTS
  Sessions = {s1, s2, s3}
  NoSession = NoSession
  MaxListens = 3
CHECK_DEADLOCK FALSE
INVARIANTS
  TypeOK
  OneClient
  NoOrphan
  NeverDeaf
  ClientReported
  NothingOutlivesTransport
PROPERTIES
  Serves
  JoinReturns
