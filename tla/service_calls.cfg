SPECIFICATION Spec
CONSTANTS
  MaxRequests = 3
  MaxCalls = 2
  MaxServing = 2
  MaxArrivals = 4
INVARIANTS RoutedRight ReturnedOnce FreshReplies CallInv
CHECK_DEADLOCK FALSE
