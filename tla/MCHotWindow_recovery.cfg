\* A store with a block older than the window.
SPECIFICATION Spec
CONSTANTS
    Capacity = 4
    Times = {1, 2, 3}
    MinTime = 1
    MaxTime = 4
    Windows = {0, 1}
    InOrder = TRUE
    MaxAppends = 4
    MaxOpens = 2
    MaxRot = 1
PROPERTIES
    HotEntriesComeBack
CHECK_DEADLOCK FALSE
