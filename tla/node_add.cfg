SPECIFICATION Spec
CONSTANTS
  n1 = n1
  n2 = n2
  New <- MCNew
  Clusters <- MCClusters
  Requests <- MCRequests
  None = None
  MaxRequests = 3
CHECK_DEADLOCK FALSE
INVARIANTS
  OneInitServer
  CopiesRun
PROPERTIES
  JoinsTheCluster
  LimitKept
