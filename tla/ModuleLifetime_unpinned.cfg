SPECIFICATION Spec
CONSTANTS
  Factories = {f1}
  Objects = {o1}
  Workers = {w1}
  MaxLocks = 0
  Cap <- MCCap
INVARIANT ActionKeepsModule
CHECK_DEADLOCK FALSE
