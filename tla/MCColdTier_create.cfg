\* Create on the path of an earlier engine, as its documentation allows.
SPECIFICATION Spec
CONSTANTS
    c1 = c1
    c2 = c2
    Worker = Worker
    Sensors = {s1}
    Callers = {c1}
    RingCapacity = 2
    MaxAppends = 3
    MaxFailures = 0
    MaxRestarts = 2
    PathsFit = FALSE
PROPERTY
    BlocksAreImmutable
CHECK_DEADLOCK FALSE
