SPECIFICATION Spec
CONSTANTS
  Ids = {1, 2}
  Levels = {0, 5}
  MaxSends = 3
  MaxUnderWay = 1
CHECK_DEADLOCK FALSE
INVARIANTS
  ViewFaithful
  StateFaithful
