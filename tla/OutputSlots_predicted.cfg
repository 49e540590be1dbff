SPECIFICATION Spec
CONSTANTS
    Jobs = {j1, j2}
    Kinds = {"rotate"}
    Stems = {s1}
    MaxN = 2
    MaxOthers = 0
    Other = Other
    None = None
CHECK_DEADLOCK FALSE
SYMMETRY Symmetry
INVARIANTS PredictsItsOutput
