CONSTANTS
    Keys = {k1, k2}
    Callers = {c1, c2}
    Times = {1, 2}
    MaxBuffered = 2
    MaxArchives = 3
SPECIFICATION Spec
CHECK_DEADLOCK FALSE
PROPERTY LastUpdateKept
