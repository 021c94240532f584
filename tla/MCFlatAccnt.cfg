CONSTANTS
    Metrics = {m1, m2}
    RawKey <- MCRawKey
    T0s = {1, 2}
    Size <- MCSize
    MaxSize = 2
    EventQSize = 1
    EvictQSize = 1
    GaugeSize = 2
    Workloads <- MCWorkloads
    m1 = m1
    m2 = m2
SPECIFICATION Spec
CHECK_DEADLOCK FALSE
INVARIANTS
    TypeOK
    StatsExact
    AccountedInLRU
