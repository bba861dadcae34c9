CONSTANTS
  Initial <- MCInitial
  AddTasks <- MCAddTasks
  DelTasks <- MCDelTasks
  Of <- MCOf
  Cmd <- MCCmd
SPECIFICATION FairSpec
INVARIANTS
  StableServersRouted
PROPERTIES
  SoloUpdateExact
  UpdateEnds
CHECK_DEADLOCK FALSE
