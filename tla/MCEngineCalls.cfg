\* Two sensors with rings of two entries, four appends, a failed write and a drop.
SPECIFICATION Spec
CONSTANTS
    s1 = s1
    s2 = s2
    t1 = t1
    t2 = t2
    Int8Max = 127
    Resolution = 25
    Sensors = {s1, s2}
    Capacity = 2
    Setups <- MCSetups
    Recovered = {s2}
    Traffic <- MCTraffic
    Targets <- MCTargets
    Counts = {1, 3}
    Ranges <- MCRanges
    Thresholds = {1}
    MaxAppends = 4
    MaxFailures = 1
    MaxDrops = 1
INVARIANTS
    TypeOK
    AnswersAreOfTheWindow
    RangeOkIsComplete
    SinkKnowsTheLosses
    EveryEntryIsAccountedFor
    PayloadIsOwnOrStale
CHECK_DEADLOCK FALSE
