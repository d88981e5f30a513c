SPECIFICATION Spec
CONSTANTS
  IdMod = 4
  Reserved = 2
  IdsPerKind = 2
  Names = {"a"}
  Calls = {"connect", "create_publisher", "create_service"}
  MaxDepth = 2
  MaxRequests = 4
INVARIANTS OnlyWrapConfuses HandlesBacked KeptConfirmed RequestsInv
CHECK_DEADLOCK FALSE
