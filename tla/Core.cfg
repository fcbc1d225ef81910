SPECIFICATION FairSpec
CONSTANTS
  CHUNK_SZ = 2
  Crc <- MCCrc
  Batches <- MCBatches
  UninitBlks <- MCUninit
  CreatMayFail = FALSE
  CloseMayFail = FALSE
  WriteMayFail = FALSE
  T2toT1_CORRUPT_BYTE = 20
  ACK_PERIOD = 4
INVARIANTS TypeOK StopAndWait SameReport ConsecutiveBlocks IndexNearTheArray DiskInv
PROPERTIES AcceptsWhatWasSent ImplementsDelivery TransferEnds
CHECK_DEADLOCK FALSE
