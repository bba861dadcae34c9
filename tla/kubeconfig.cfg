CONSTANTS
  Clusters = {"c1"}
  Foreign = {"work"}
  Tasks <- MCTasks
  Kind <- MCKind
  Of <- MCOf
  Paths = {"default", "c1.yaml"}
  Own <- MCOwn
  Options <- MCOptions
  MaxGen = 2
SPECIFICATION Spec
INVARIANTS
  FilesWhole
PROPERTIES
  ForeignKept
  SoloExact
CHECK_DEADLOCK FALSE
