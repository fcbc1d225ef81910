SPECIFICATION PrioSpec
CONSTANTS
  CHUNK_SZ = 2
  Crc <- MCCrc
  Batches <- TrickyBatches
  UninitBlks <- MCUninit
  CreatMayFail = FALSE
  CloseMayFail = FALSE
  WriteMayFail = FALSE
  T2toT1_CORRUPT_BYTE = 20
  ACK_PERIOD = 4
  CachedBatches <- NoneInCache
CHECK_DEADLOCK FALSE
PROPERTY EotEndsTheFile
