CONSTANTS
  e1 = e1
  e2 = e2
  Editors <- MCSingle
  Orig = orig
  LbName = lb
  NoName = none
SPECIFICATION Spec
INVARIANT RolledBackServes
CHECK_DEADLOCK FALSE
