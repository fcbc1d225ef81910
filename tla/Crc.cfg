SPECIFICATION Spec
CONSTANTS
  CHUNK_SZ = 128
  Bufs <- MCBufs
INVARIANT DamageDetected
PROPERTY CrcIsRemainder
CHECK_DEADLOCK FALSE
