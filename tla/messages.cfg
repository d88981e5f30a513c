SPECIFICATION Spec
CONSTANTS
  Schema <- Fields
  content <- Samples
  Responses <- ResponseTypes
  Misaligned = {"NavSatFix"}
  MaxAlloc = 100
  MaxArray = 2
  MaxLength = 2
  MaxLeaves = 100
INVARIANTS RoundTrip TruncationCaught ReplyDecoded WireIsCDR
CHECK_DEADLOCK FALSE
