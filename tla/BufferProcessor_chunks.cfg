SPECIFICATION Spec
CONSTANTS
  Payloads <- PlainPayloads
  Junk <- MCJunk
  MaxFrames = 2
  SizeValues = 16
INVARIANTS
  ExtractedExactly
  NoResidue
PROPERTY MessagesReturns
