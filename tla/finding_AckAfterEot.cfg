SPECIFICATION Spec
CONSTANTS
  CHUNK_SZ = 2
  Crc <- MCCrc
  Batches <- FaultyBatches
  UninitBlks <- MCUninit
  CreatMayFail = TRUE
  CloseMayFail = TRUE
  WriteMayFail = TRUE
  T2toT1_CORRUPT_BYTE = 20
  ACK_PERIOD = 4
CHECK_DEADLOCK FALSE
PROPERTY AckAfterEot
