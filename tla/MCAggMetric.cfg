CONSTANTS
    ChunkSpan = 2
    NumChunks = 3
    Window = 0
    Interval = 1
    AllowUpdate = FALSE
    DropFirstChunk = TRUE
    IngestFromT0 = 0
    FutureTolerance = 0
    EnforceFutureTolerance = TRUE
    ChunkMaxStale = 3
    Grace = 1
    QueueSize = 1
    Timestamps <- MCTimestampsLong
    RemoteT0s = {4, 6}
    Start = 10
    TickSize = 5
    MaxNow = 15
    Modulus = 64
SPECIFICATION Spec
INVARIANTS
    TypeOK
    RingInv
    PersistedFinal
    SaveStateSound
    ClosedDurable
    GetComplete
