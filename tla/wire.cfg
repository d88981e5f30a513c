SPECIFICATION Spec
CONSTANTS
  Payloads <- SomePayloads
  crc16 <- Crc16Arc
  MaxPayload = 9
  ChunkSizes = {1, 4}
  Noise = {0, 7, 125, 126, 255}
  MaxDamaged = 1
  Missed = {1, 6}
INVARIANTS OnlySent DamageContained
CHECK_DEADLOCK FALSE
