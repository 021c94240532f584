CONSTANTS
    Callers = {c1, c2, c3}
    Values <- MCValues
SPECIFICATION Spec
INVARIANTS
    TypeOK
    HighestHeld
    QuiescentHighest
PROPERTY BumpReturns
