# A TLA+ verification of metrictank

metrictank keeps recent points of each time series in memory, compresses them
into chunks, saves finished chunks in a persistent store, and answers queries
from memory, a chunk cache and the store. This directory holds TLA+ models of
its concurrent core, the TLC configurations that check them, and TLAPS proofs.
`PROJECT.json` lists every run, mutant, mapped definition, hazard, finding and
theorem with its source lines.

Run a configuration with `tlc -config X.cfg M`, check proofs with `tlapm M.tla`.

## 1. Inventory

How the parts interact:

    input -> AggMetrics (registry) -> AggMetric (series) -> ReorderBuffer
      |                                  |   \-> chunk ring -> persist -> store queue -> store
      v                                  |                                    |
    memory index <- write queue          +-> CCache.AddIfHot                  v
                                                              callback, notifier: lastSaveStart
    query -> CCache.Search -> store -> CCache.AddRange -> FlatAccnt -> evict queue -> CCache.evict

| Part | State | Operations | What makes it hard | What must hold |
|---|---|---|---|---|
| AtomicBump (`util/atomic.go`) | a word, a local per call | swap loop | other callers see the word while it is too low | the highest value is never lost; calls return |
| ReorderBuffer (`mdata/reorder_buffer.go`) | ring of slots, newest | Add, Get, Flush, IsEmpty | position alone identifies a point; gaps beyond one lap | it behaves as a sliding window |
| AggMetric (`mdata/aggmetric.go`) | chunk ring, lastSaveStart, lastWrite, buffer | Add, persist, GC, Get, SyncChunkSaveState | blocking sends under the lock, role changes, late persist messages | order, final chunks, nothing unsaved is skipped, Get complete |
| AggMetrics (`mdata/aggmetrics.go`), input handler | maps org -> key -> series | GetOrCreate, GC | lookup and use in different critical sections, role changes | one series per key; what a primary's GC closed is saved when it is purged |
| Index write queue (`idx/memory/write_queue.go`) | buffered archives, index, signal channel, timer | AddOrUpdate, Update, UpdateArchiveLastSave, Queue, flush, loop, Stop | three lookups with flushes in between | known keys are found, updates kept, Stop flushes what was queued before it |
| CCacheMetric, read-through (`mdata/cache`, `api/dataprocessor.go`) | linked chunks, sorted keys; a query in three steps | Add, AddRange, Del, Search; AddIfHot, evict, DelMetric | predecessor is stale when used; guessed spans; a store that answers with whole rows | keys sorted, links sound unless Add is misled, no search loses data |
| FlatAccnt, CCache (`mdata/cache/accnt`) | sizes, LRU, two bounded queues, the cache lock | add, hit, delete, reset, evict, evict loop | late hits, blocking sends under the lock | sizes exact, eviction finds its chunk |

The parts without a module, with the reason for each, are in section 8 and
under `components` in `PROJECT.json`. The hazards are listed there at the line
where they bite.

## 2. Modules and how they follow the code

One action is one critical section, one atomic instruction or one channel
operation; a handler that blocks in the middle is split there and nowhere else.

* **AtomicBump**: `Call` enters `AtomicBumpUint32`, `Swap` is one
  `atomic.SwapUint32` with the loop test. `highest` is a history variable.
* **ReorderWindow** is the abstract promise of a reorder buffer: a set of held
  points. **ReorderBuffer** is the ring of slots of the code. Its
  `ImplementsWindow` (in MCReorderBuffer) instantiates the former with a
  refinement mapping. Whether updates are allowed is a field of the buffer.
* **AggMetric** composes ReorderBuffer and AtomicBump by INSTANCE: `Add`,
  `AddNext` (the function `add`), `CloseCurrent`/`Persist`, `StoreAdd` (the
  blocking send), `Advance`, `GC...`. The store's writer, the notifier, another
  primary, the role and the clock are its environment. A chunk is
  `[t0, pts, first, finished]`; values of points are left out.
* **AggMetrics** has the registry, ingest goroutines, the GC goroutine and the
  role of the node, which may change at any time. A series is reduced to the
  points it holds, the T0 and state of its current chunk, and lastSaveStart;
  persisting happens on a primary only, is immediate, and takes every chunk after
  lastSaveStart, as the walk back in `persist` does. Each lock is held for one
  action only, so a point can be added between GC's verdict and the purge.
* **WriteQueue** has callers, the queue and its loop. Archives are pointers
  (positions in `heap`), since an update must reach the object that ends up in
  the index. Partition and LastSave are left out; AtomicBump is one step. `Stop`
  may come while calls are running, and calls may start after it: at shutdown the
  inputs are waited for, but for 10 seconds only.
* **CCacheMetric** holds the operations of one cached series as operators over
  `chunks` and `keys`. **CachedStore** composes them with queries (search, store,
  add: three steps), hot pushes (decision, addition: two steps), eviction (targets
  are chosen, then sent one by one to a bounded queue) and deletion. The store
  answers as Cassandra is asked: with every chunk that begins before the end of
  the range, in the rows of `MonthSec` the range touches, so an answer may begin
  long before the range. A search that runs into a link to a chunk that is gone,
  or in a circle, is marked (`Lost`); queries take the ones that return.
  The series is one of `Histories`: the chunks it has, which of them know their
  span, and which cannot be decoded. It is chosen in Init and does not change.
* **FlatAccnt** has the callers of CCache, the event loop and the evict loop
  with their two queues. A cached series is the set of its chunks. The decision
  and the addition of AddIfHot are one step here; a search with two results is
  two hit reports. The statistic that drifts is kept modulo `GaugeSize`. A
  behaviour has one of `Workloads`, since two archives together with late hits
  are too many states.

Operators commented "variant with a fault" are mutated forms of the definition
that follows them. No specification uses them; each shows that a property
notices a plausible mistake in the code.

## 3. Runs

Passing runs:

| Run | Shows | Bounds |
|---|---|---|
| bump | highest value held, left in the word at rest, calls return | 3 callers |
| reorder_buffer | the ring implements the window, with and without updates | 3 slots, interval 2, two values, gaps beyond a lap |
| series | order, final chunks, save state, durable chunks, complete Get; role changes, another primary with messages arbitrarily late, first chunk dropped | ring of 3, four chunks: the ring wraps and persist walks back over more than one chunk; queue of 1: sends block |
| series_reorder | final and durable chunks, complete Get, honest Oldest behind a reorder buffer that GC flushes; the lock holder gets through a full queue | window of 2, ring of 2, three chunks of two points |
| registry | one series per key, GC's lookups valid, a purged series saved if its last chunk was closed by GC on a primary | 2 ingesters, 2 orgs, 2 series objects: both keys, or one purged and created anew; two chunks, one with two points; the role toggles |
| index_queue | known keys found, updates of indexed series survive late copies, buffer bounded, what was queued before Stop indexed when it returns | 2 keys, 2 callers, 2 times, batch of 2, 2 archives: both keys, or two copies for one; Stop at any time |
| cache | keys sorted, links sound until Add is misled, no search that returns loses data | 3 chunks, rows of 8, 1 query at a time, queues of 1; span-aware with and without a gap, without span, mixed with a corrupt chunk in the middle |
| accounting | sizes exact, eviction finds its chunk | 2 chunks of 1 and 2 bytes, limit 2, queues of 1; one series with late hits, two archives deleted together |

Each bound is the smallest at which the case in question occurs: a ring that
wraps, a queue that is full, a batch that fills, several unsaved chunks, a middle
chunk with two neighbours. Symmetry is used only for callers, ingesters and
keys that no definition tells apart, and only in runs without liveness.

Deadlock is checked except in WriteQueue and FlatAccnt, where the code can
deadlock (below).

## 4. Where code and comments disagree

Four runs check what a comment says and TLC finds it violated; `findings` quotes
the line.

| Run | What happens |
|---|---|
| series_getall | GC empties the reorder buffer, which then takes older points; Get trusts it to be newer and leaves chunks out |
| registry_orphan | a point added between GC's verdict and the delete is lost |
| index_stuck | a flush blocks on its signal with the lock its only receiver needs |
| cache_selflink | an evicted predecessor that comes back is linked to itself; a backward search then does not end |

Nine more configurations, not listed as runs, replay further ones in the same
way. The hazards at those lines refer to them.

| Configuration | Property | What happens |
|---|---|---|
| MCAggMetric_lastwrite | LastWriteCurrent | an accepted point does not move lastWrite when the purged points are refused |
| MCAggMetrics_overwrite | NeverOverwritten | a purged series created anew overwrites a complete chunk |
| MCWriteQueue_lastupdate | LastUpdateKept | a second AddOrUpdate replaces the queued archive; LastUpdate goes down |
| MCCachedStore_dangling | LinksCached | after Add was given a predecessor that is not older than its chunk, an eviction leaves a link to a chunk that is gone |
| MCCachedStore_hit | SearchComplete | without spans and with a gap, a search claims a hit it does not have |
| MCCachedStore_unaccounted | CachedAccounted | chunks added by AddIfHot are unknown to the accounting |
| MCFlatAccnt_lrustat | LruCountExact | the statistic of the LRU's overhead drifts |
| MCFlatAccnt_phantom | QuietAccurate | a chunk added again during its eviction stays accounted until it is evicted itself |
| MCFlatAccnt_stuck | CallsReturn | with both queues full, caller, event loop and evict loop wait for each other |

The two deadlocks are shown with queues of one element. `index_stuck` has that
capacity in the code; MCFlatAccnt_stuck needs 100000 events and a full evict
queue there, so it takes a long burst.

Links are where the cache goes wrong. Between its search and its AddRange a query
holds a predecessor; when the store then returns a single chunk that is not after
it, `CCacheMetric.Add` links the two nevertheless. `LinksSound` says that this is
the only way: until it happens (`misled`) every link leads to a cached chunk, in
the right direction. `SearchComplete` holds even afterwards, for the searches
that return.

What GC closes on a secondary is not saved by this node: `persist` walks back
over older chunks, but only when it is called, and GC does not call it again for
a finished chunk. If the node is promoted and no newer chunk is opened, the series
is purged with that chunk unsaved. `PurgedIsSaved` therefore asks for the role the
node had when GC closed the last chunk, and then covers every point the series
held at GC's verdict.

`SearchComplete` holds in the run cache and fails with MCCachedStore_hit: the
difference is exactly chunks without span in a series with a gap.

## 5. Fairness

* Loops and running calls are weakly fair: a runnable goroutine runs.
* FlatAccnt's senders and the evict loop's lock are strongly fair, since Go
  serves blocked senders in turn and does not starve writers of a RWMutex.
* Nobody has to call, query, tick or change role.
* The store's writer is fair in AggMetric: the code retries until a write
  succeeds, so this assumes a store that comes back.

## 6. Proofs

`AtomicBumpProofs` and `AggMetricProofs` prove, for all values of the constants
that satisfy the named assumptions:

* **HighestHeldAlways, QuiescentHighestAlways**: the swap loop keeps the highest
  value, for any number of callers. The invariant adds to HighestHeld that every
  value in flight is at most the highest (`Bounded`).
* **TypeCorrect, RingOrdered, PersistedIsFinal**: a series keeps its types, its
  ring is ordered with only the current chunk open, and what was handed to the
  store or the cache never changes afterwards.

PersistedFinal is not inductive: a new chunk could reuse the T0 of a request,
and a point could enter a chunk being saved. `IInv` adds `SavePhase`: no request
is ahead of the current chunk; while the lock holder saves, the current chunk is
finished; and the waiting point belongs to a later chunk. The order of the ring
is needed because `Advance` reuses a slot. Each action that moves the ring has a
lemma; the others go by a frame lemma.

Assumptions: `AggMetricAssumption` says sizes are natural and timestamps lie
beyond the first chunk and window (they are Unix seconds). TLC evaluates the
assumptions in every run.

## 7. Only model-checked

Liveness (BumpReturns, LockReleased, EventuallyIndexed, CallsReturn), refinement of
ReorderWindow, SaveStateSound, ClosedDurable, GetComplete, OldestSound, and all
properties of AggMetrics, WriteQueue, CachedStore and FlatAccnt. TLAPS as used
here proves no liveness under fairness, no ENABLED, does no induction over data,
and cannot be used with RECURSIVE operators (the modules declare none).

## 8. Not modelled

Rollup aggregators, notifier batching and replay, the stores' read queues and
shutdown, the index's path tree, deletion and find cache, tag and meta-tag
queries, the persistent indexes, cluster membership, inputs and lag monitor, the
rest of the query path, expression functions, chunk encoding, configuration,
statistics, tools. The models cover the concurrent core, a small share of the
repository's lines: most of the rest is sequential string or float processing,
or I/O.

## 9. Plan

1. **Aggregator**: boundaries and flush into rollup series; every point is in
   exactly one rollup, across GC.
2. **Stores**: write queues with retries and shutdown, read queue with timeouts;
   what is lost at shutdown, a late answer to a request that timed out.
3. **Notifier**: batching, partitions, replay before a node becomes ready.
4. **Cluster**: merge of node states, readiness and priority, peer selection.
5. **Index**: tree against a set of paths, delete and prune, find-cache
   invalidation with back-off, TimeLimiter, meta-tag enricher, persistent indexes.
6. **Query**: merge of memory, cache and store by `Oldest`, composing AggMetric's
   Get with CachedStore.
7. **Proofs**: SaveStateSound and ClosedDurable (strengthening: every value in
   lastSaveStart or in flight is covered by `remote` or not ahead of the current
   chunk; a chunk not ahead of a request is durable); WindowInv of ReorderBuffer;
   KnownFound and IndexedUpdateKept of WriteQueue; StatsExact is left to TLC.
