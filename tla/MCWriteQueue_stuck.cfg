CONSTANTS
    Keys = {k1, k2}
    Callers = {c1, c2}
    Times = {1}
    MaxBuffered = 1
    MaxArchives = 3
SPECIFICATION Spec
CHECK_DEADLOCK FALSE
PROPERTY EventuallyIndexed
