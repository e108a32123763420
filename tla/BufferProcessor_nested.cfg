SPECIFICATION Spec
CONSTANTS
  Payloads <- NestedPayloads
  Junk <- MCJunk
  MaxFrames = 2
  SizeValues = 16
INVARIANT HalfMessageYieldsNothing
