CONSTANTS
    Window = 3
    Interval = 2
    AllowUpdates = {TRUE, FALSE}
    Timestamps <- MCTimestamps
    Vals = {1, 2}
    Modulus = 64
SPECIFICATION Spec
INVARIANTS
    TypeOK
    WindowInv
PROPERTY ImplementsWindow
