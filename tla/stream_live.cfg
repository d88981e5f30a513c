SPECIFICATION FairSpec
CONSTANTS
  Half = 4
  StartSeq = 0
  Kinds = {"plain"}
  MaxMessages = 2
  MaxFragments = 2
  MaxDepth = 1
  MaxBuffered = 1
  MaxRetries = 1
  BitmapWidth = 2
  InFlight = 1
INVARIANT Retained
PROPERTIES Settled WindowDrains
CHECK_DEADLOCK FALSE
