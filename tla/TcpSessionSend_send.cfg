SPECIFICATION FairSpec
CONSTANTS
  Callers = {a, b, c}
  NoCaller = NoCaller
  FrameParts = 2
  MaxSends = 3
INVARIANTS
  TypeOK
  WriteExclusion
  WireFramed
  NothingLost
  LossReported
PROPERTIES
  GateReleased
  ImplementsChannel
