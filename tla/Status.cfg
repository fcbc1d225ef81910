SPECIFICATION Spec
CONSTANTS
  CHUNK_SZ = 128
  NameLengths <- MCNameLengths
  Digits <- MCDigits
INVARIANTS InsideTheBuffers NameArrives NothingStale SizeCutOnlyWhenFull
CHECK_DEADLOCK FALSE
