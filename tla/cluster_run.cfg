CONSTANTS
  Setup <- MCSetup
  Servers <- MCServers
  LB = "serverlb"
  Tools = "tools"
  NewReg = "registry"
  PeerNames <- MCPeerNames
  Options <- MCOptions
SPECIFICATION FairSpec
INVARIANTS
  SuccessMeansComplete
  CreatedInOrder
  CleanRollbackRestores
PROPERTIES
  UserNetworkLostOnlyEarly
  Terminates
CHECK_DEADLOCK FALSE
