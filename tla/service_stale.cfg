SPECIFICATION Spec
CONSTANTS
  MaxRequests = 3
  MaxCalls = 2
  MaxServing = 2
  MaxArrivals = 4
INVARIANT ReplyMatches
CHECK_DEADLOCK FALSE
