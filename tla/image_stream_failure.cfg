CONSTANTS
  N = 2
  Chunks = 2
SPECIFICATION FairImport
PROPERTY FailureReported
CHECK_DEADLOCK FALSE
