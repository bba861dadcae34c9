SPECIFICATION Spec
CONSTANTS
  Count = 2
  n1 = n1
  agent = agent
  lb = lb
  registry = registry
  a = a
  b = b
  Added <- MCAdded
  Others <- MCOthers
  Outsiders <- MCOutsiders
  Lasts <- MCLasts
  Subnets <- MCSubnets
  Tools = Tools
  None = None
SYMMETRY MCSymmetry
CHECK_DEADLOCK FALSE
INVARIANTS
  AddressesOfTheirOwn
  ServersKeepAddress
  CommandsEndForAReason
  OnlyOthersOverlap
