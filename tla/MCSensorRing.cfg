\* The producer, eviction and one query at a time, over two laps of the ring.
SPECIFICATION Spec
CONSTANTS
    r1 = r1
    Capacity = 2
    MaxAppends = 4
    Readers = {r1}
INVARIANTS
    TypeOK
    NoSilentLoss
    LosslessWhileNotFull
    CleanUnlessLapped
    LappedReadsAreNewer
    WindowFits
PROPERTIES
    TailAdvances
    ImplementsSlidingLog
