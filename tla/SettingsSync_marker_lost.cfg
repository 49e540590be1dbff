SPECIFICATION Spec
CONSTANTS
  Keys = {k1}
  Vals = {0, 1}
  Default = 0
  Accounts = {a1}
  Workers = {w1, w2}
  MaxConflicts = 3
  MaxTransient = 2
  MaxVersion = 2
  Patient = FALSE
  Absent = Absent
  None = None
SYMMETRY Symmetry
INVARIANT FailuresAreRetried
CHECK_DEADLOCK FALSE
