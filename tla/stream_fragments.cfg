SPECIFICATION Spec
CONSTRAINT InReach
CONSTANTS
  Half = 4
  StartSeq <- CloseToWrap
  Kinds = {"fragment"}
  MaxMessages = 1
  MaxFragments = 5
  MaxDepth = 1
  MaxBuffered = 2
  MaxRetries = 1
  BitmapWidth = 2
  InFlight = 1
INVARIANTS StreamInv Retained HeartbeatTruthful WindowBounded
PROPERTY DeliverySpec
CHECK_DEADLOCK FALSE
