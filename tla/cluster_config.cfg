SPECIFICATION Spec
CONSTANTS
  Ports <- MCPorts
  Files <- MCFiles
  FlagSets <- MCFlagSets
  Changes <- MCChanges
  FreePorts = {40000}
  MaxEdits = 2
INVARIANTS
  TypeOK
  HostNetworkAlone
  FiltersHold
  FlagLabelWins
  MigratedFiltersParse
  
  PortsReachNodes
