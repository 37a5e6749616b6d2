SPECIFICATION Spec
CONSTANTS
    Requests = {r1, r2, r3}
    Drives = {d1, d2}
    NoDrive = NoDrive
    MaxSwaps = 2
    MaxRestarts = 1
INVARIANTS MissingRowIsTrue InsertFollowsMissing
SYMMETRY RequestSymmetry
CHECK_DEADLOCK FALSE
