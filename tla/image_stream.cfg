CONSTANTS
  N = 3
  Chunks = 2
SPECIFICATION FairImport
INVARIANTS
  SuccessMeansImported
  Lockstep
PROPERTY ImportEnds
CHECK_DEADLOCK FALSE
