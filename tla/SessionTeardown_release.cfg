SPECIFICATION FairSpec
CONSTANTS
  NoThread = NoThread
  MaxSends = 3
  MaxRequests = 2
CHECK_DEADLOCK FALSE
PROPERTY
  ReleaseReturns
