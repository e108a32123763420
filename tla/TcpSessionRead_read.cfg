SPECIFICATION Spec
CONSTANTS
  FrameParts = 2
  MaxFrames = 3
INVARIANTS
  DeliveredInOrder
  NothingHeldBack
  CloseLosesNothing
PROPERTIES
  FramesDelivered
  JoinReturns
