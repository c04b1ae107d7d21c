\* Eviction of a full ring while the producer appends.
SPECIFICATION Spec
CONSTANTS
    r1 = r1
    Capacity = 2
    MaxAppends = 4
    Readers = {}
INVARIANTS
    BlocksUncorrupted
