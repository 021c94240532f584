CONSTANTS
    Metrics = {m1, m2}
    RawKey <- MCRawKey
    T0s = {1, 2}
    Size <- MCSize
    MaxSize = 2
    EventQSize = 1
    EvictQSize = 1
    GaugeSize = 4
    Workloads <- MCHitsOnly
    m1 = m1
    m2 = m2
SPECIFICATION Spec
CHECK_DEADLOCK FALSE
INVARIANT
    LruCountExact
