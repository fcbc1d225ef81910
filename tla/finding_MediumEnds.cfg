SPECIFICATION FairProgSpec
CONSTANTS
  CHUNK_SZ = 2
  Crc <- MCCrc
  Batches <- OneBatch
  UninitBlks <- MCUninit
  CreatMayFail = FALSE
  CloseMayFail = FALSE
  WriteMayFail = FALSE
  LogMayFail = FALSE
  SourceMayFail = FALSE
  T2toT1_CORRUPT_BYTE = 20
  ACK_PERIOD = 4
CHECK_DEADLOCK FALSE
PROPERTY MediumEnds
