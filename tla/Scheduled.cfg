SPECIFICATION PrioSpec
CONSTANTS
  CHUNK_SZ = 2
  Crc <- MCCrc
  Batches <- AllBatches
  CachedBatches <- InTheCache
  UninitBlks <- MCUninit
  CreatMayFail = FALSE
  CloseMayFail = FALSE
  WriteMayFail = FALSE
  T2toT1_CORRUPT_BYTE = 20
  ACK_PERIOD = 4
CHECK_DEADLOCK FALSE
INVARIANTS DoneMeansStored SameReport ConsecutiveBlocks
PROPERTIES AcceptsWhatWasSent RepliesAsAssumed EotEndsTheFile
