CONSTANTS
  e1 = e1
  e2 = e2
  Editors <- MCTwo
  Orig = orig
  LbName = lb
  NoName = none
SPECIFICATION FairSpec
INVARIANTS
  NeverWithoutContainer
PROPERTIES
  SoloReplaced
  SoloUndo
  EditEnds
CHECK_DEADLOCK FALSE
