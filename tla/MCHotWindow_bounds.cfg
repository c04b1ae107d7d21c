\* A block shorter than an earlier one.
SPECIFICATION Spec
CONSTANTS
    Capacity = 4
    Times = {1, 2, 3}
    MinTime = 1
    MaxTime = 4
    Windows = {0, 1}
    InOrder = TRUE
    MaxAppends = 4
    MaxOpens = 2
    MaxRot = 1
INVARIANTS
    BlockEndIsMax
CHECK_DEADLOCK FALSE
