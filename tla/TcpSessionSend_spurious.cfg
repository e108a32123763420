SPECIFICATION SpuriousSpec
CONSTANTS
  Callers = {a, b}
  NoCaller = NoCaller
  FrameParts = 2
  MaxSends = 3
INVARIANT OneTimeRequest
