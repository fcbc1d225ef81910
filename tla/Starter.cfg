SPECIFICATION Spec
CONSTANTS
  Lists <- MCLists
  DiskMayFail = TRUE
INVARIANTS NumbersFollowChunks ReportIsRight
CHECK_DEADLOCK FALSE
