SPECIFICATION Spec
CONSTANTS
    Calls = {c1, c2, c3}
    Names = {"a", "b"}
    MaxCrashes = 1
SYMMETRY CallSymmetry
INVARIANTS
    FileHoldsFacts
CHECK_DEADLOCK FALSE
