SPECIFICATION Spec
CONSTANTS
  Half = 4
  StartSeq = 0
  Kinds = {"plain", "fragment"}
  MaxMessages = 2
  MaxFragments = 2
  MaxDepth = 1
  MaxBuffered = 2
  MaxRetries = 1
  BitmapWidth = 2
  InFlight = 1
INVARIANT Retained
CHECK_DEADLOCK FALSE
