CONSTANTS
    Keys = {k1, k2}
    Callers = {c1, c2}
    Times = {1, 2}
    MaxBuffered = 2
    MaxArchives = 2
SYMMETRY Symmetry
SPECIFICATION Spec
CHECK_DEADLOCK FALSE
INVARIANTS
    TypeOK
    KnownFound
    BatchBounded
    StopFlushes
    IndexedUpdateKept
