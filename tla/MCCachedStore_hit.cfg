CONSTANTS
    ChunkSpan = 2
    Histories <- MCGapLegacy
    Old = {2}
    Queries = {q1}
    Ranges <- MCRanges
    MonthSec = 8
    EventQSize = 1
    EvictQSize = 1
SPECIFICATION Spec
INVARIANTS
    SearchComplete
