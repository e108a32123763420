SPECIFICATION Spec
CONSTANTS
  Sessions = {s1, s2}
  NoSession = NoSession
INVARIANT ClosedStaysClosed
CHECK_DEADLOCK FALSE
