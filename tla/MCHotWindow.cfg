\* One sensor, timestamps in any order, an unreadable block and two reopenings.
SPECIFICATION Spec
CONSTANTS
    Capacity = 3
    Times = {1, 2, 3}
    MinTime = 1
    MaxTime = 4
    Windows = {0, 1}
    InOrder = FALSE
    MaxAppends = 4
    MaxOpens = 2
    MaxRot = 1
INVARIANTS
    TypeOK
    PersistedOnce
PROPERTIES
    PassKeepsTheWindow
    RestoresAllOrNothing
CHECK_DEADLOCK FALSE
