CONSTANTS
    Keys = {"a1"}
    Org <- MCOrg
    Ingesters = {g1}
    Points <- MCPointsA
    ChunkSpan = 2
    ChunkMaxStale = 3
    MetricMaxStale = 8
    Grace = 1
    Roles = {TRUE}
    MaxSeries = 3
    Start = 6
    TickSize = 5
    MaxNow = 16
SPECIFICATION Spec
PROPERTY NeverOverwritten
