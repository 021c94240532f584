CONSTANTS
    ChunkSpan = 2
    Histories <- MCHistories
    Old = {2}
    Queries = {q1}
    Ranges <- MCRanges
    MonthSec = 8
    EventQSize = 1
    EvictQSize = 1
SPECIFICATION Spec
INVARIANTS
    TypeOK
    KeysAscending
    LinksSound
    SearchComplete
