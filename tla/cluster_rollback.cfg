CONSTANTS
  Setup <- MCSetup
  Servers <- MCServers
  LB = "serverlb"
  Tools = "tools"
  NewReg = "registry"
  PeerNames = {}
  Options <- MCOptions
SPECIFICATION Spec
INVARIANT RolledBackMeansRestored
CHECK_DEADLOCK FALSE
