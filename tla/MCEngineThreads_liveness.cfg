\* Every call returns and Close joins, under fair threads and fair locks.
SPECIFICATION FairSpec
CONSTANTS
    s1 = s1
    o1 = o1
    d1 = d1
    m1 = m1
    r1 = r1
    s2 = s2
    r2 = r2
    Worker = Worker
    Sensors = {s1}
    Observers = {o1}
    Maintainers = {m1}
    Droppers = {}
    MaxSensors = 1
    WritersFirst = TRUE
    Rings = {r1, r2}
    NoRing = NoRing
    Absent = Absent
    MaxOverwrites = 0
PROPERTIES
    CallsReturn
    CloseReturns
