\* One sensor, two Flush callers and the background pass, crashes and failed writes.
SPECIFICATION Spec
CONSTANTS
    c1 = c1
    c2 = c2
    Worker = Worker
    Sensors = {s1}
    Callers = {c1, c2}
    RingCapacity = 2
    MaxAppends = 3
    MaxFailures = 1
    MaxRestarts = 2
    PathsFit = TRUE
INVARIANTS
    TypeOK
    FlushedIsDurable
    NextIdIsFresh
    BlocksInOrder
    SchemaBeforeBlocks
PROPERTIES
    BlocksAreImmutable
SYMMETRY CallerSymmetry
CHECK_DEADLOCK FALSE
