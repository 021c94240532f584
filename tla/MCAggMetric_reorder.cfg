CONSTANTS
    ChunkSpan = 2
    NumChunks = 2
    Window = 2
    Interval = 1
    AllowUpdate = FALSE
    DropFirstChunk = FALSE
    IngestFromT0 = 0
    FutureTolerance = 0
    EnforceFutureTolerance = TRUE
    ChunkMaxStale = 3
    Grace = 1
    QueueSize = 1
    Timestamps <- MCTimestamps
    RemoteT0s = {}
    Start = 8
    TickSize = 5
    MaxNow = 13
    Modulus = 64
SPECIFICATION Spec
INVARIANTS
    PersistedFinal
    GetComplete
    OldestSound
    ClosedDurable
PROPERTY LockReleased
