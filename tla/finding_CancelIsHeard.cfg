SPECIFICATION FairSpec
CONSTANTS
  CHUNK_SZ = 2
  Crc <- MCCrc
  Batches <- OneBatch
  UninitBlks <- MCUninit
  CreatMayFail = TRUE
  CloseMayFail = FALSE
  WriteMayFail = FALSE
  T2toT1_CORRUPT_BYTE = 20
  ACK_PERIOD = 4
CHECK_DEADLOCK FALSE
PROPERTY CancelIsHeard
