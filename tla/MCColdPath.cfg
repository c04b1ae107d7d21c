\* Two sensors with related names over three engines on one path, with given uuids and
\* windows set as they run, one damaged value.
SPECIFICATION Spec
CONSTANTS
    ByteValues = 3
    IdBytes = 2
    MaxNameLen = 2
    Int8Enabled = TRUE
    Junk = 2
    Callers <- MCCallers
    Requests <- MCRequests
    GivenUuids = {9}
    Windows <- MCWindows
    BlockCounts = {2}
    Noise = {0, 2}
    MaxBlockId = 2
    MaxKeys = 4
    MaxStarts = 3
    MaxDamages = 1
INVARIANTS
    TypeOK
    BlocksMatchSchema
    MetadataIsTheConfig
    RunningConfigIsValid
PROPERTY
    ImplementsBlockMap
    IdentityIsStable
CHECK_DEADLOCK FALSE
