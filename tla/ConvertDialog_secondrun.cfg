SPECIFICATION Spec
CONSTANTS
    Calls = {c1, c2}
    N = 2
    W = 2
    Results = {some, none}
    Skip = none
    Some = some
    None = None
CHECK_DEADLOCK FALSE
SYMMETRY Symmetry
INVARIANTS RunningWhileConverting
