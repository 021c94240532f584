CONSTANTS
    Keys = {"a1", "b1"}
    Org <- MCOrg
    Ingesters = {g1, g2}
    Points <- MCPoints
    ChunkSpan = 2
    ChunkMaxStale = 3
    MetricMaxStale = 8
    Grace = 1
    Roles = {TRUE, FALSE}
    MaxSeries = 2
    Start = 6
    TickSize = 5
    MaxNow = 16
SYMMETRY Symmetry
SPECIFICATION Spec
INVARIANTS
    TypeOK
    OneSeriesPerKey
    GCSeesItsKeys
    PurgedIsSaved
