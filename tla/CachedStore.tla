------------------------------ MODULE CachedStore ------------------------------
(***************************************************************************)
(* The chunk cache in use, for one series: queries that read through the   *)
(* cache (api/dataprocessor.go, getSeriesCachedStore), the push of chunks  *)
(* that were just closed (CCache.AddIfHot, called by AggMetric), and the   *)
(* eviction of chunks the accounting no longer wants (FlatAccnt.evict and  *)
(* CCache.evict).  A series without cached chunks has no CCacheMetric.     *)
(*                                                                         *)
(* A query searches the cache, then the store, then adds what the store    *)
(* returned to the cache: three steps, with no lock in between.            *)
(***************************************************************************)
EXTENDS CCacheMetric

CONSTANTS
    Old,          \* chunks the store holds when the node starts
    Queries,      \* goroutines that serve requests
    Ranges,       \* the <<from, until>> that are asked for
    MonthSec,     \* Month_sec: the time a row of the store covers
    EventQSize,   \* EventQSize of FlatAccnt
    EvictQSize    \* evictQSize

ASSUME CachedStoreAssumption ==
    /\ MonthSec \in Nat \ {0} /\ MonthSec % ChunkSpan = 0
    /\ EventQSize \in Nat \ {0} /\ EvictQSize \in Nat \ {0}
    /\ \A h \in Histories : Old \subseteq h.t0s /\ \A t \in Old, u \in h.t0s \ Old : t < u
    /\ \A r \in Ranges : r[1] \in Nat \ {0} /\ r[2] \in Nat /\ r[1] < r[2]

VARIABLES
    closed,     \* chunks the series has closed so far
    stored,     \* those the store holds
    hot,        \* chunks whose AddIfHot has not decided yet
    hotMet,     \* chunks AddIfHot is about to add to the CCacheMetric it found
    accounted,  \* chunks of the series FlatAccnt knows
    events,     \* the event queue of FlatAccnt
    evicting,   \* the targets FlatAccnt.evict has not sent yet
    evictQ,     \* the evict queue
    misled,     \* history: Add was given a predecessor that is not older than the chunk
    query       \* query[q] = [pc, from, until, prev, gens]

cacheVars == <<chunks, keys>>
accntVars == <<accounted, events, evicting, evictQ>>
vars == <<series, cacheVars, closed, stored, hot, hotMet, accntVars, misled, query>>

Idle == [pc |-> "idle", from |-> 0, until |-> 0, prev |-> 0, gens |-> <<>>]

Init ==
    /\ series \in Histories
    /\ chunks = [t \in {} |-> [prev |-> 0, next |-> 0]] /\ keys = <<>>
    /\ closed = Old /\ stored = Old /\ hot = {} /\ hotMet = {}
    /\ accounted = {} /\ events = <<>> /\ evicting = <<>> /\ evictQ = <<>> /\ misled = FALSE
    /\ query = [q \in Queries |-> Idle]
-------------------------------------------------------------------------------
(* The series closes its chunks in order, pushes each to the cache and hands *)
(* it to the store, where it arrives later.                                  *)

CloseChunk(t) ==
    /\ t \in series.t0s \ closed /\ \A u \in series.t0s : u < t => u \in closed
    /\ closed' = closed \cup {t} /\ hot' = hot \cup {t}
    /\ UNCHANGED <<series, cacheVars, stored, hotMet, accntVars, misled, query>>

StoreChunk(t) ==
    /\ t \in closed \ stored /\ \A u \in closed : u < t => u \in stored
    /\ stored' = stored \cup {t}
    /\ UNCHANGED <<series, cacheVars, closed, hot, hotMet, accntVars, misled, query>>

\* AddIfHot, under the read lock of the cache: is the chunk before it cached?
IsHot(t) == Cached # {} /\ LastTs >= t

AddIfHot(t) ==
    /\ t \in hot
    /\ hot' = hot \ {t}
    /\ hotMet' = IF IsHot(t) THEN hotMet \cup {t} ELSE hotMet
    /\ UNCHANGED <<series, cacheVars, closed, stored, accntVars, misled, query>>

\* ... and, with that lock released, met.Add with prev 0.
AddHot(t) ==
    /\ t \in hotMet
    /\ AddOne(0, t)
    /\ hotMet' = hotMet \ {t}
    /\ UNCHANGED <<series, closed, stored, hot, accntVars, misled, query>>
-------------------------------------------------------------------------------
\* FlatAccnt.eventLoop: chunks that were added, or the deletion of the series.
Added(gens) == [op |-> "add", t0s |-> ToSet(gens)]
Deleted == [op |-> "del", t0s |-> {}]

Account ==
    /\ evicting = <<>> /\ events # <<>>
    /\ accounted' = IF Head(events).op = "add" THEN accounted \cup Head(events).t0s ELSE {}
    /\ events' = Tail(events)
    /\ UNCHANGED <<series, cacheVars, closed, stored, hot, hotMet, evicting, evictQ, misled, query>>

\* FlatAccnt.evict: the least recently used chunk and all older ones it knows of
\* the series.  Any chunk may be the least recently used one ...
EvictTargets(t) ==
    /\ evicting = <<>>
    /\ t \in closed /\ \E u \in accounted : u <= t
    /\ evicting' = SetToSortSeq({u \in accounted : u <= t}, <)
    /\ UNCHANGED <<series, cacheVars, closed, stored, hot, hotMet, accounted, events, evictQ, misled, query>>

\* ... and they are sent one by one; a send blocks the event loop while the queue is full.
EvictSend ==
    /\ evicting # <<>> /\ Len(evictQ) < EvictQSize
    /\ evictQ' = Append(evictQ, Head(evicting))
    /\ accounted' = accounted \ {Head(evicting)}
    /\ evicting' = Tail(evicting)
    /\ UNCHANGED <<series, cacheVars, closed, stored, hot, hotMet, events, misled, query>>

\* CCache.evict; with its last chunk the CCacheMetric leaves the cache, and what
\* AddIfHot still adds to it is lost.
Evict ==
    /\ evictQ # <<>>
    /\ evictQ' = Tail(evictQ)
    /\ Del(Head(evictQ))
    /\ hotMet' = IF keys' = <<>> THEN {} ELSE hotMet
    /\ UNCHANGED <<series, closed, stored, hot, accounted, events, evicting, misled, query>>

\* CCache.DelMetric and Reset.
DelMetric ==
    /\ Cached # {}
    /\ chunks' = [t \in {} |-> [prev |-> 0, next |-> 0]] /\ keys' = <<>>
    /\ hotMet' = {}
    /\ Len(events) < EventQSize /\ events' = Append(events, Deleted)
    /\ UNCHANGED <<series, closed, stored, hot, accounted, evicting, evictQ, misled, query>>
-------------------------------------------------------------------------------
(* A query.                                                                  *)

\* The T0 of the last chunk that the cache returned in Start.
PrevTs(res) == IF res.start = <<>> THEN 0 ELSE res.start[Len(res.start)]

\* A search that does not return takes no step here; Returns says when it does.
SearchCache(q, r) ==
    /\ query[q].pc = "idle"
    /\ Returns(r[1], r[2])
    /\ LET res == Search(r[1], r[2])
       IN  query' = [query EXCEPT ![q] =
               IF res.hit \/ res.from = res.until THEN Idle
               ELSE [pc |-> "store", from |-> res.from, until |-> res.until,
                     prev |-> PrevTs(res), gens |-> <<>>]]
    /\ UNCHANGED <<series, cacheVars, closed, stored, hot, hotMet, accntVars, misled>>

\* The store has one row per month, and reads "key IN ? AND ts < ?": there is no lower
\* bound within the row that `from` falls into, "we can't assume we know the chunkSpan".
RowKeys(from, until) == from \div MonthSec .. (until - 1) \div MonthSec

QueryRead(rows, until) == {t \in stored : t \div MonthSec \in rows /\ t < until}

Answer(from, until) == SetToSortSeq(QueryRead(RowKeys(from, until), until), <)

SearchStore(q) ==
    /\ query[q].pc = "store"
    /\ query' = [query EXCEPT ![q] = [Idle EXCEPT !.pc = "add", !.prev = query[q].prev,
                                                  !.gens = Answer(query[q].from, query[q].until)]]
    /\ UNCHANGED <<series, cacheVars, closed, stored, hot, hotMet, accntVars, misled>>

\* "add all the iterators that are in good shape": the chunks before a corrupt one.
\* (variant with a fault: the corrupt ones are left out)
GoodSkips(gens) == SelectSeq(gens, LAMBDA t : t \notin series.corrupt)

Good(gens) ==
    LET bad == {i \in DOMAIN gens : gens[i] \in series.corrupt}
    IN  SubSeq(gens, 1, IF bad = {} THEN Len(gens) ELSE (CHOOSE i \in bad : \A j \in bad : i <= j) - 1)

\* CCache.AddRange, which also reports the chunks to the accounting.
AddToCache(q) ==
    LET gens == Good(query[q].gens)
    IN  /\ query[q].pc = "add"
        /\ AddRange(query[q].prev, gens)
        /\ IF gens = <<>> THEN UNCHANGED events
           ELSE Len(events) < EventQSize /\ events' = Append(events, Added(gens))
        /\ misled' = (misled \/ (Len(gens) = 1 /\ query[q].prev >= gens[1]))
        /\ query' = [query EXCEPT ![q] = Idle]
        /\ UNCHANGED <<series, closed, stored, hot, hotMet, accounted, evicting, evictQ>>

\* The request is cancelled, or the store fails.
Abort(q) ==
    /\ query[q].pc # "idle"
    /\ query' = [query EXCEPT ![q] = Idle]
    /\ UNCHANGED <<series, cacheVars, closed, stored, hot, hotMet, accntVars, misled>>

T0s == UNION {h.t0s : h \in Histories}

Next ==
    \/ \E t \in T0s : \/ CloseChunk(t) \/ StoreChunk(t) \/ AddIfHot(t) \/ AddHot(t)
                      \/ EvictTargets(t)
    \/ Account \/ EvictSend \/ Evict \/ DelMetric
    \/ \E q \in Queries : \/ \E r \in Ranges : SearchCache(q, r)
                          \/ SearchStore(q) \/ AddToCache(q) \/ Abort(q)

Spec == Init /\ [][Next]_vars
-------------------------------------------------------------------------------
\* keys and chunks name the same chunks, each once; only closed chunks of the series
\* travel through the store, the cache, the accounting and the queues.
TypeOK ==
    /\ Cached \subseteq closed /\ ToSet(keys) = Cached /\ Len(keys) = Cardinality(Cached)
    /\ \A t \in Cached : chunks[t].prev \in closed \cup {0} /\ chunks[t].next \in closed \cup {0}
    /\ stored \subseteq closed /\ accounted \subseteq closed /\ ToSet(evictQ) \subseteq closed
    /\ hot \subseteq closed /\ hotMet \subseteq closed
    /\ ToSet(evicting) \subseteq closed /\ Len(events) <= EventQSize /\ Len(evictQ) <= EvictQSize
    /\ \A q \in Queries : query[q].pc \in {"idle", "store", "add"}

\* "chunk time stamps in ascending order": seeks stop at the first key that is too
\* recent or too old, so a key out of order hides chunks.
KeysAscending == \A i, j \in DOMAIN keys : i < j => keys[i] < keys[j]

\* "the previous chunk. if the previous chunk isn't cached this is 0": a link leads
\* to a cached chunk, so that a search that follows it does not fail ...
LinksCached == \A t \in Cached : {chunks[t].prev, chunks[t].next} \subseteq Cached \cup {0}

\* ... and Prev leads back, Next forward in time, so that a search ends.
LinksOrdered == \A t \in Cached : chunks[t].prev < t /\ (chunks[t].next = 0 \/ t < chunks[t].next)

\* Both hold until CCacheMetric.Add is given a predecessor that is not older than the
\* chunk it adds: that call is the only one, among all interleavings of queries, pushes,
\* evictions and deletions, that leads to a link to a chunk that is gone or to a circle.
LinksSound == misled \/ (LinksCached /\ LinksOrdered)

\* The cache never makes data disappear, whatever its links are: of any range for which
\* Search comes to its end, what it neither returns nor leaves for the store to be asked
\* is not in any chunk of the series.  It is enough to look in quiet states: Abort,
\* AddIfHot and StoreChunk take any state to one with the same cache and closed chunks.
Times == UNION {t - 1 .. t + ChunkSpan : t \in series.t0s}
Left(res, x) == ~res.hit /\ res.from <= x /\ x < res.until
CompleteFor(from, until) ==
    LET res == Search(from, until)
    IN  \A t \in closed \ (ToSet(res.start) \cup ToSet(res.end)) :
            \A x \in t .. t + ChunkSpan - 1 : from <= x /\ x < until => Left(res, x)
Quiet == (\A q \in Queries : query[q] = Idle) /\ hot = {} /\ stored = closed
SearchComplete ==
    Quiet =>
        \A from \in Times, until \in Times : from < until /\ Returns(from, until) => CompleteFor(from, until)

\* What the accounting dropped does not stay in the cache: a chunk in the cache that
\* is neither accounted nor waiting to be evicted would never leave it again.
CachedAccounted ==
    Cached \subseteq accounted \cup UNION {e.t0s : e \in ToSet(events)} \cup ToSet(evictQ)
===============================================================================
