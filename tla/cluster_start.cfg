CONSTANTS
  InitNode <- MCInit
  Servers <- MCServers
  Agents <- MCAgents
  LB <- MCLB
  Registries <- MCRegistries
  BackOffLimit = 2
SPECIFICATION FairSpec
INVARIANTS
  StartedWhenJoinable
  NoGoroutineLeft
  SuccessMeansReady
PROPERTIES
  FailureStopsRequests
  TimeoutEnds
  EndsUnlessSilent
  StartsInPhases
CHECK_DEADLOCK FALSE
