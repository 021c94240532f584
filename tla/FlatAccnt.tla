------------------------------- MODULE FlatAccnt -------------------------------
(***************************************************************************)
(* The accounting of the chunk cache (mdata/cache/accnt/flat_accnt.go and  *)
(* lru.go) together with the cache it serves (mdata/cache/ccache.go).      *)
(*                                                                         *)
(* Calls into the cache change it under its write lock and, still holding  *)
(* the lock, send an event to the accounting; hits are reported later by a *)
(* goroutine of their own.  The event loop keeps sizes and the order of    *)
(* use and, when the cache is too large, sends evict targets to the evict  *)
(* loop, which deletes them under the lock of the cache.  Both channels    *)
(* are bounded and every send blocks.                                      *)
(*                                                                         *)
(* Of a cached series only the set of its chunks is kept (CCacheMetric has *)
(* the rest); chunk t covers the times from t up to t + 1.  The overhead   *)
(* statistics are kept as the number of items they stand for; the one of   *)
(* the LRU drifts, so it keeps the wrap-around of the unsigned gauge.      *)
(* Not modelled: Stop, and GetTotal, which only reads.                     *)
(***************************************************************************)
EXTENDS Integers, Sequences, FiniteSets, SequencesExt

CONSTANTS
    Metrics,           \* cached series: a raw key and an archive (schema.AMKey)
    RawKey,            \* RawKey[m]: the raw key of m (schema.MKey)
    T0s,
    Size,              \* Size[t]: bytes of the chunk t of any series
    MaxSize,           \* a.maxSize
    EventQSize, EvictQSize,
    GaugeSize,         \* a gauge counts modulo GaugeSize (2^64 in the code)
    Workloads          \* what may happen in one behaviour: [series, maxHits], the series that
                       \* are cached and a bound on the hit reports under way

ASSUME FlatAccntAssumption ==
    /\ Size \in [T0s -> Nat \ {0}]
    /\ T0s \subseteq Nat
    /\ {MaxSize, EventQSize, EvictQSize} \subseteq Nat
    /\ \A w \in Workloads : w.series \subseteq Metrics /\ w.maxHits \in Nat
    /\ GaugeSize \in Nat \ {0}

VARIABLES
    workload,       \* one of Workloads; it does not change
    cached,         \* cached[m]: chunks in c.metricCache[m]
    sending,        \* events the holder of the cache's lock has yet to send; <<>> if it is free
    hits,           \* hit events whose goroutine is not through yet
    eventQ, evictQ,
    metrics,        \* a.metrics[m]: the accounted chunks; {} if there is no entry
    lru,            \* a.lru, least recently used first
    targets,        \* targets evict() has not sent yet
    loop,           \* "idle": waits for an event; "evicting": evict until below the max
    victim,         \* the target the evict loop has taken, or None
    cacheSizeUsed,
    metricsCounted, chunksCounted,  \* in cacheOverheadFlat and cacheOverheadChunk
    lruCounted                      \* in cacheOverheadLru

cacheVars == <<cached, sending, hits, victim>>
statVars == <<cacheSizeUsed, metricsCounted, chunksCounted, lruCounted>>
accntVars == <<metrics, lru, targets, loop, statVars>>
vars == <<workload, cacheVars, eventQ, evictQ, accntVars>>

None == <<>>
Event(type, m, ts) == [type |-> type, metric |-> m, chunks |-> ts]
Ascending(S) == SetToSortSeq(S, <)
Gauge(n) == n % GaugeSize
Target(m, t) == <<m, t>>
Unlocked == sending = <<>>
Total(S) == FoldSet(LAMBDA t, n : n + Size[t], 0, S)

Init ==
    /\ workload \in Workloads
    /\ cached = [m \in Metrics |-> {}] /\ sending = <<>> /\ hits = {} /\ victim = None
    /\ eventQ = <<>> /\ evictQ = <<>>
    /\ metrics = [m \in Metrics |-> {}] /\ lru = <<>> /\ targets = <<>> /\ loop = "idle"
    /\ cacheSizeUsed = 0 /\ metricsCounted = 0 /\ chunksCounted = 0 /\ lruCounted = 0
-------------------------------------------------------------------------------
(* Calls into the cache.                                                     *)

\* Add and AddRange.
AddRange(m, S) ==
    /\ m \in workload.series /\ Unlocked /\ S # {}
    /\ cached' = [cached EXCEPT ![m] = @ \cup S]
    /\ sending' = <<Event("add", m, Ascending(S))>>
    /\ UNCHANGED <<workload, hits, victim, eventQ, evictQ, accntVars>>

\* AddIfHot: the previous chunk, or a later one, is cached; no event is sent.  The
\* decision and the addition are one step here (CachedStore separates them).
AddIfHot(m, t) ==
    /\ Unlocked /\ t \notin cached[m]
    /\ \E u \in cached[m] : u + 1 >= t
    /\ cached' = [cached EXCEPT ![m] = @ \cup {t}]
    /\ UNCHANGED <<workload, sending, hits, victim, eventQ, evictQ, accntVars>>

\* DelMetric: every archive of a raw key, in the order of a map; one event each.
DelMetric(k) ==
    LET archs == {m \in Metrics : RawKey[m] = k /\ cached[m] # {}}
    IN  /\ Unlocked /\ archs # {}
        /\ cached' = [m \in Metrics |-> IF m \in archs THEN {} ELSE cached[m]]
        /\ \E order \in SetToSeqs(archs) :
              sending' = [i \in DOMAIN order |-> Event("del", order[i], <<>>)]
        /\ UNCHANGED <<workload, hits, victim, eventQ, evictQ, accntVars>>

Reset ==
    /\ Unlocked
    /\ cached' = [m \in Metrics |-> {}]
    /\ sending' = <<Event("reset", None, <<>>)>>
    /\ UNCHANGED <<workload, hits, victim, eventQ, evictQ, accntVars>>

\* act, called by the holder of the lock; the lock is released after the last event.
Act ==
    /\ ~Unlocked /\ Len(eventQ) < EventQSize
    /\ eventQ' = Append(eventQ, Head(sending))
    /\ sending' = Tail(sending)
    /\ UNCHANGED <<workload, cached, hits, victim, evictQ, accntVars>>

\* Search found chunks, forwards from the start of its range or backwards from the
\* end; each of the two results is reported later, by a new goroutine.
SearchHit(m, S) ==
    /\ Unlocked /\ S # {} /\ S \subseteq cached[m]
    /\ Cardinality(hits) < workload.maxHits
    /\ \E ts \in {Ascending(S), Reverse(Ascending(S))} : hits' = hits \cup {Event("hit", m, ts)}
    /\ UNCHANGED <<workload, cached, sending, victim, eventQ, evictQ, accntVars>>

HitChunks(h) ==
    /\ h \in hits /\ Len(eventQ) < EventQSize
    /\ eventQ' = Append(eventQ, h)
    /\ hits' = hits \ {h}
    /\ UNCHANGED <<workload, cached, sending, victim, evictQ, accntVars>>
-------------------------------------------------------------------------------
(* The event loop.                                                           *)

\* lru.touch for each of the chunks, and lru.del.
\* (variant with a fault: touch does not look for the item first)
TouchedTwice(m, ts) == lru \o [i \in DOMAIN ts |-> Target(m, ts[i])]

Touched(m, ts) ==
    SelectSeq(lru, LAMBDA x : ~(x[1] = m /\ x[2] \in ToSet(ts)))
        \o [i \in DOMAIN ts |-> Target(m, ts[i])]

Deleted(m, S) == SelectSeq(lru, LAMBDA x : ~(x[1] = m /\ x[2] \in S))

\* "we already have that chunk"
\* (variant with a fault: such a chunk is counted again)
NewChunksAll(m, ts) == ToSet(ts)

NewChunks(m, ts) == ToSet(ts) \ metrics[m]

\* add and addRange, with the touches of the event loop.
OnAdd(m, ts) ==
    LET new == NewChunks(m, ts)
    IN  /\ metrics' = [metrics EXCEPT ![m] = @ \cup new]
        /\ cacheSizeUsed' = cacheSizeUsed + Total(new)
        /\ metricsCounted' = IF metrics[m] = {} THEN metricsCounted + 1 ELSE metricsCounted
        /\ chunksCounted' = chunksCounted + Cardinality(new)
        /\ lruCounted' = Gauge(lruCounted + Cardinality(new))
        /\ lru' = Touched(m, ts)

OnHit(m, ts) == lru' = Touched(m, ts) /\ UNCHANGED <<metrics, statVars>>

\* delMet
OnDel(m) ==
    IF metrics[m] = {} THEN UNCHANGED <<metrics, lru, statVars>>
    ELSE /\ cacheSizeUsed' = cacheSizeUsed - Total(metrics[m])
         /\ metricsCounted' = metricsCounted - 1
         /\ chunksCounted' = chunksCounted - Cardinality(metrics[m])
         /\ lruCounted' = Gauge(lruCounted - Cardinality(metrics[m]))
         /\ lru' = Deleted(m, metrics[m])
         /\ metrics' = [metrics EXCEPT ![m] = {}]

OnReset ==
    /\ metrics' = [m \in Metrics |-> {}] /\ lru' = <<>>
    /\ cacheSizeUsed' = 0 /\ metricsCounted' = 0 /\ chunksCounted' = 0 /\ lruCounted' = 0

EventLoop ==
    /\ loop = "idle" /\ eventQ # <<>>
    /\ LET e == Head(eventQ)
       IN  \/ e.type = "add" /\ OnAdd(e.metric, e.chunks)
           \/ e.type = "hit" /\ OnHit(e.metric, e.chunks)
           \/ e.type = "del" /\ OnDel(e.metric)
           \/ e.type = "reset" /\ OnReset
    /\ eventQ' = Tail(eventQ)
    /\ loop' = "evicting"
    /\ UNCHANGED <<workload, cacheVars, evictQ, targets>>

\* "evict until we're below the max"
Exceeded == cacheSizeUsed > MaxSize

EvictDone ==
    /\ loop = "evicting" /\ targets = <<>> /\ ~Exceeded
    /\ loop' = "idle"
    /\ UNCHANGED <<workload, cacheVars, eventQ, evictQ, metrics, lru, targets, statVars>>

\* "chronologically older chunks": they are evicted with the least recently used one.
\* (variant with a fault: a younger chunk loses its place in the LRU only)
OlderThan(m, t) == {u \in metrics[m] : u < t}

Older(m, t) == {u \in metrics[m] : u <= t}

\* evict, up to its loop over the targets.
Evict ==
    /\ loop = "evicting" /\ targets = <<>> /\ Exceeded /\ lru # <<>>
    /\ LET m == lru[1][1] old == Ascending(Older(m, lru[1][2]))
       IN  targets' = [i \in DOMAIN old |-> Target(m, old[i])]
    /\ lru' = Tail(lru)
    /\ lruCounted' = Gauge(lruCounted - 1)
    /\ UNCHANGED <<workload, cacheVars, eventQ, evictQ, metrics, loop, cacheSizeUsed, metricsCounted,
                   chunksCounted>>

\* One target: sent to the evict queue, which may block, and dropped from the
\* accounting; the entry of the series goes with its last byte.
EvictSend ==
    /\ targets # <<>> /\ Len(evictQ) < EvictQSize
    /\ evictQ' = Append(evictQ, Head(targets))
    /\ targets' = Tail(targets)
    /\ LET m == Head(targets)[1] t == Head(targets)[2] left == metrics[m] \ {t}
       IN  /\ metrics' = [metrics EXCEPT ![m] = left]
           /\ cacheSizeUsed' = cacheSizeUsed - Size[t]
           /\ metricsCounted' = IF Total(left) <= 0 THEN metricsCounted - 1 ELSE metricsCounted
    /\ chunksCounted' = chunksCounted - 1
    /\ UNCHANGED <<workload, cacheVars, eventQ, lru, loop, lruCounted>>
-------------------------------------------------------------------------------
(* The evict loop of the cache.                                              *)

EvictTake ==
    /\ victim = None /\ evictQ # <<>>
    /\ victim' = Head(evictQ) /\ evictQ' = Tail(evictQ)
    /\ UNCHANGED <<workload, cached, sending, hits, eventQ, accntVars>>

EvictDel ==
    /\ victim # None /\ Unlocked
    /\ cached' = [cached EXCEPT ![victim[1]] = @ \ {victim[2]}]
    /\ victim' = None
    /\ UNCHANGED <<workload, sending, hits, eventQ, evictQ, accntVars>>

Loops == EventLoop \/ EvictDone \/ Evict \/ EvictSend

Next ==
    \/ \E m \in Metrics : \/ \E S \in SUBSET T0s : AddRange(m, S) \/ SearchHit(m, S)
                          \/ \E t \in T0s : AddIfHot(m, t)
    \/ \E k \in {RawKey[m] : m \in Metrics} : DelMetric(k)
    \/ Reset \/ Act
    \/ \E h \in hits : HitChunks(h)
    \/ Loops \/ EvictTake \/ EvictDel

\* The two loops and the senders keep going.  A blocked sender of a Go channel and a
\* writer waiting for a sync.RWMutex are served in turn, hence the strong fairness.
Fairness ==
    /\ SF_vars(Act) /\ SF_vars(EvictDel)
    /\ SF_vars(\E h \in hits : HitChunks(h))
    /\ WF_vars(Loops) /\ WF_vars(EvictTake)

Spec == Init /\ [][Next]_vars /\ Fairness
-------------------------------------------------------------------------------
Accounted == {x \in Metrics \X T0s : x[2] \in metrics[x[1]]}

\* The queues respect their capacities, a target is only under way while the event
\* loop evicts, and the LRU holds a key once.
TypeOK ==
    /\ cached \in [Metrics -> SUBSET T0s] /\ metrics \in [Metrics -> SUBSET T0s]
    /\ Len(eventQ) <= EventQSize /\ Len(evictQ) <= EvictQSize
    /\ loop \in {"idle", "evicting"} /\ (targets # <<>> => loop = "evicting")
    /\ lruCounted \in 0 .. GaugeSize - 1
    /\ ToSet(lru) \subseteq Metrics \X T0s /\ Cardinality(ToSet(lru)) = Len(lru)

\* The statistics that drive eviction follow what is accounted: the size, and the
\* number of series and chunks behind the overhead, never drift, whatever the order
\* of additions, deletions, resets and evictions.
StatsExact ==
    targets = <<>> =>
        /\ cacheSizeUsed = FoldSet(LAMBDA x, n : n + Size[x[2]], 0, Accounted)
        /\ chunksCounted = Cardinality(Accounted)
        /\ metricsCounted = Cardinality({m \in Metrics : metrics[m] # {}})

\* Every accounted chunk can be found by the eviction, so "evict until we're below
\* the max" does not spin on an empty LRU; the chunks of the evict() that is running
\* are on their way out.
AccountedInLRU == Accounted \subseteq ToSet(lru) \cup ToSet(targets)

\* "the item is already removed from the LRU and will not be re-added in this call
\* path so it is safe to decrement the stat": the statistic of the LRU's overhead
\* counts the items of the LRU.
LruCountExact == targets = <<>> => lruCounted = Gauge(Len(lru))

\* "these reductions in size might be inaccurate for a short period of time": when no
\* event and no eviction is under way, what is accounted is in the cache.
Quiet == Unlocked /\ hits = {} /\ eventQ = <<>> /\ evictQ = <<>> /\ victim = None /\ loop = "idle"
QuietAccurate == Quiet => \A m \in Metrics : metrics[m] \subseteq cached[m]

\* "we never want this to fill up because otherwise events get dropped": a call into
\* the cache does not wait for the accounting for ever.
CallsReturn == ~Unlocked ~> Unlocked
===============================================================================
