\* Two producers, a get_stats caller, a flush caller, another thread that drops, the
\* eviction thread and Close.
SPECIFICATION Spec
CONSTANTS
    s1 = s1
    s2 = s2
    o1 = o1
    d1 = d1
    m1 = m1
    Worker = Worker
    Sensors = {s1, s2}
    Observers = {o1}
    Maintainers = {m1}
    Droppers = {d1}
    MaxSensors = 1
    WritersFirst = TRUE
    Rings = {r1, r2}
    r1 = r1
    r2 = r2
    NoRing = NoRing
    Absent = Absent
    MaxOverwrites = 1
INVARIANTS
    TypeOK
    RingsInUseExist
    LimitRespected
    OneScratchUser
    ClosedIsQuiet
    LossIsNotInflated
PROPERTIES
    LossIsNeverForgotten
    StatsRewindNeedsDrop
