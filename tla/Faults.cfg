SPECIFICATION ProgSpec
CONSTANTS
  CHUNK_SZ = 2
  Crc <- MCCrc
  Batches <- FaultyBatches
  UninitBlks <- MCUninit
  CreatMayFail = TRUE
  CloseMayFail = TRUE
  WriteMayFail = TRUE
  LogMayFail = TRUE
  SourceMayFail = TRUE
  T2toT1_CORRUPT_BYTE = 20
  ACK_PERIOD = 4
INVARIANTS InOrder DoneMeansStored NamesStayApart NoLogNoFile DiskInv
CHECK_DEADLOCK FALSE
