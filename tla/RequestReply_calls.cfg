SPECIFICATION FairSpec
CONSTANTS
  Callers = {c1}
  Edge = 4
  MaxCalls = 2
  MaxPushes = 1
  MaxBreaks = 2
INVARIANTS
  ResultNamesCall
  OneResult
  CapabilitiesAsked
  ResultIsLast
PROPERTY CallForgotten
