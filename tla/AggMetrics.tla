------------------------------ MODULE AggMetrics ------------------------------
(***************************************************************************)
(* mdata/aggmetrics.go: the registry of the in-memory series of a node,    *)
(* used at the same time by the ingest goroutines (GetOrCreate, then Add,  *)
(* see input.ProcessMetricData) and by the one GC goroutine, which closes  *)
(* quiet series, persists them on a primary, and purges the ones that stay *)
(* quiet whatever the role.  The node may be promoted and demoted.         *)
(*                                                                         *)
(* Locks are held per step: every action below is one critical section, so *)
(* what happens between looking a series up and using it is visible.  A    *)
(* series is an AggMetric without reorder buffer, seen through its own     *)
(* lock: Add and GC are atomic, persisting is immediate, the ring has room *)
(* for all chunks, the first chunk is not dropped, and no other node's     *)
(* persist messages come in (module AggMetric has all of these).           *)
(***************************************************************************)
EXTENDS Integers, FiniteSets, FiniteSetsExt, Sequences

CONSTANTS
    Keys,                         \* metric keys
    Org(_),                       \* the org a key belongs to
    Ingesters,                    \* goroutines that process incoming points
    Points,                       \* points that may come in, as <<key, ts>>
    ChunkSpan,
    ChunkMaxStale, MetricMaxStale,
    Grace,                        \* 15*60 in AggMetric.collectable
    Roles,                        \* whether the node is primary: the values it may take
    MaxSeries,                    \* bound on the number of AggMetric objects
    Start, TickSize, MaxNow       \* wall clock

ASSUME AggMetricsAssumption ==
    /\ ChunkSpan \in Nat \ {0} /\ MaxSeries \in Nat
    /\ Points \subseteq Keys \X (Nat \ {0}) /\ Roles \subseteq BOOLEAN
    /\ {ChunkMaxStale, MetricMaxStale, Grace, Start, TickSize, MaxNow} \subseteq Nat

VARIABLES
    orgs,     \* orgs that have a map in ms.Metrics
    metrics,  \* ms.Metrics[org][key]: number of the series, 0 if absent
    series,   \* the AggMetric objects: [key, t0, pts, finished, lastSaveStart, lastWrite],
              \* with the T0 of the current chunk and the points of all chunks
    ing,      \* ing[g] = [pc, key, ts, m]: an ingest goroutine
    gc,       \* [pc, now, orgs, org, keys, key, a]: the GC goroutine
    store,    \* store[key][t0]: content of the chunk in the persistent store
    primary,  \* cluster.Manager.IsPrimary()
    now,
    written,  \* history: points the store was ever given, as <<key, ts>>
    sealed,   \* history: the points of a series when GC found it stale
    closedAs  \* history: the role of the node when GC last closed a chunk of the series

historyVars == <<written, sealed, closedAs>>
vars == <<orgs, metrics, series, ing, gc, store, primary, now, historyVars>>

T0(ts) == ts - (ts % ChunkSpan)
ChunkT0s == {T0(p[2]) : p \in Points}
Created == DOMAIN series
AllOrgs == {Org(k) : k \in Keys}
None == "none"
NotSealed == [stale |-> FALSE, pts |-> {}]

IdleIngest == [pc |-> "idle", key |-> None, ts |-> 0, m |-> 0]
IdleGC == [pc |-> "idle", now |-> 0, orgs |-> {}, org |-> None, keys |-> {}, key |-> None, a |-> 0]

Init ==
    /\ orgs = {} /\ metrics = [k \in Keys |-> 0] /\ series = <<>>
    /\ ing = [g \in Ingesters |-> IdleIngest] /\ gc = IdleGC
    /\ store = [k \in Keys |-> [t \in ChunkT0s |-> {}]]
    /\ primary \in Roles /\ now = Start
    /\ written = {} /\ sealed = <<>> /\ closedAs = <<>>
-------------------------------------------------------------------------------
(* The series.                                                               *)

\* (variant with a fault: the chunks an earlier primary left unsaved are not looked for)
PendingLast(m) == {ts \in series[m].pts : series[m].lastSaveStart < series[m].t0 /\ T0(ts) = series[m].t0}

\* persist of series m: a chunk at or below lastSaveStart was saved before, the others
\* are pending, the ones before the current chunk included ("if we recently became
\* the primary").  pts has no point after the current chunk.
Pending(m) == {ts \in series[m].pts : series[m].lastSaveStart < T0(ts)}

\* the store's copy of a chunk is replaced, not merged
Persist(m) ==
    LET k == series[m].key
        chunk(t) == {ts \in Pending(m) : T0(ts) = t}
    IN  /\ store' = [store EXCEPT ![k] = [t \in ChunkT0s |-> IF chunk(t) = {} THEN @[t] ELSE chunk(t)]]
        /\ written' = written \cup ({k} \X Pending(m))

\* Add and GC persist on a primary only, and lastSaveStart is bumped by persist
PersistIfPrimary(m) == IF primary /\ series[m].t0 # 0 THEN Persist(m) ELSE UNCHANGED <<store, written>>

SaveStart(m) == IF primary THEN Max({series[m].lastSaveStart, series[m].t0}) ELSE series[m].lastSaveStart

LastTs(m) == Max(series[m].pts)

Opens(m, ts) == T0(ts) > series[m].t0                         \* no chunk yet: t0 = 0
Pushes(m, ts) == T0(ts) = series[m].t0 /\ ~series[m].finished /\ ts > LastTs(m)

\* AggMetric.Add
Add(m, ts) ==
    \/ /\ Opens(m, ts)
       /\ PersistIfPrimary(m)
       /\ series' = [series EXCEPT ![m] =
             [@ EXCEPT !.t0 = T0(ts), !.pts = @ \cup {ts}, !.finished = FALSE, !.lastWrite = now,
                       !.lastSaveStart = SaveStart(m)]]
    \/ /\ Pushes(m, ts)
       /\ series' = [series EXCEPT ![m].pts = @ \cup {ts}, ![m].lastWrite = now]
       /\ UNCHANGED <<store, written>>
    \/ /\ ~Opens(m, ts) /\ ~Pushes(m, ts)
       /\ UNCHANGED <<series, store, written>>

Collectable(m, t) ==
    /\ series[m].lastWrite < t - ChunkMaxStale
    /\ series[m].t0 # 0 => series[m].t0 + ChunkSpan + Grace < t

\* AggMetric.GC and whether it reports the series stale
Stale(m, t) == Collectable(m, t) /\ (series[m].t0 # 0 => series[m].lastWrite < t - MetricMaxStale)

\* GC closes the current chunk
Closes(m, t) == Collectable(m, t) /\ series[m].t0 # 0 /\ ~series[m].finished

CollectSeries(m, t) ==
    IF Closes(m, t)
    THEN /\ PersistIfPrimary(m)
         /\ series' = [series EXCEPT ![m].finished = TRUE, ![m].lastSaveStart = SaveStart(m)]
         /\ closedAs' = [closedAs EXCEPT ![m] = primary]
    ELSE UNCHANGED <<series, store, written, closedAs>>
-------------------------------------------------------------------------------
(* Ingest goroutines: GetOrCreate, then Add.                                 *)

\* (variant with a fault: only the map of the org is looked at)
FoundOrg(k) == Org(k) \in orgs

Found(k) == metrics[k] # 0

\* GetOrCreate under the read lock
Lookup(g, k, ts) ==
    /\ ing[g].pc = "idle"
    /\ ing' = [ing EXCEPT ![g] = [pc |-> IF Found(k) THEN "add" ELSE "create",
                                  key |-> k, ts |-> ts, m |-> metrics[k]]]
    /\ UNCHANGED <<orgs, metrics, series, gc, store, primary, now, historyVars>>

NewSeries(k) == [key |-> k, t0 |-> 0, pts |-> {}, finished |-> FALSE, lastSaveStart |-> 0, lastWrite |-> now]

\* (variant with a fault: the second look is missing)
MissingUnchecked(k) == TRUE

Missing(k) == metrics[k] = 0

\* GetOrCreate under the write lock: somebody may have added it in the meantime
Create(g) ==
    LET k == ing[g].key IN
    /\ ing[g].pc = "create"
    /\ orgs' = orgs \cup {Org(k)}
    /\ IF Missing(k)
       THEN /\ Cardinality(Created) < MaxSeries
            /\ series' = Append(series, NewSeries(k))
            /\ sealed' = Append(sealed, NotSealed)
            /\ closedAs' = Append(closedAs, FALSE)
            /\ metrics' = [metrics EXCEPT ![k] = Len(series) + 1]
       ELSE UNCHANGED <<series, sealed, closedAs, metrics>>
    /\ ing' = [ing EXCEPT ![g].pc = "add", ![g].m = metrics'[k]]
    /\ UNCHANGED <<gc, store, primary, now, written>>

AddPoint(g) ==
    /\ ing[g].pc = "add"
    /\ Add(ing[g].m, ing[g].ts)
    /\ ing' = [ing EXCEPT ![g] = IdleIngest]
    /\ UNCHANGED <<orgs, metrics, gc, primary, now, sealed, closedAs>>
-------------------------------------------------------------------------------
(* The GC goroutine.                                                         *)

GCStart ==
    /\ gc.pc = "idle"
    /\ gc' = [IdleGC EXCEPT !.pc = "orgs", !.now = now, !.orgs = orgs]
    /\ UNCHANGED <<orgs, metrics, series, ing, store, primary, now, historyVars>>

\* the list of keys of the next org
GCOrg(o) ==
    /\ gc.pc = "orgs" /\ o \in gc.orgs
    /\ gc' = [gc EXCEPT !.pc = "keys", !.orgs = @ \ {o}, !.org = o,
                        !.keys = {k \in Keys : Org(k) = o /\ metrics[k] # 0}]
    /\ UNCHANGED <<orgs, metrics, series, ing, store, primary, now, historyVars>>

GCKey(k) ==
    /\ gc.pc = "keys" /\ k \in gc.keys
    /\ gc' = [gc EXCEPT !.pc = "collect", !.keys = @ \ {k}, !.key = k, !.a = metrics[k]]
    /\ UNCHANGED <<orgs, metrics, series, ing, store, primary, now, historyVars>>

\* on with the loop over the keys, with the loop over the orgs
NextKey == [gc EXCEPT !.pc = "keys", !.key = None, !.a = 0]
NextOrg == [gc EXCEPT !.pc = "orgs", !.org = None]

\* a.GC(now, chunkMinTs, metricMinTs), without ms.Lock
GCCollect ==
    /\ gc.pc = "collect"
    /\ CollectSeries(gc.a, gc.now)
    /\ gc' = IF Stale(gc.a, gc.now) THEN [gc EXCEPT !.pc = "purge"] ELSE NextKey
    /\ sealed' = IF Stale(gc.a, gc.now)
                 THEN [sealed EXCEPT ![gc.a] = [stale |-> TRUE, pts |-> series[gc.a].pts]]
                 ELSE sealed
    /\ UNCHANGED <<orgs, metrics, ing, primary, now>>

GCPurge ==
    /\ gc.pc = "purge"
    /\ metrics' = [metrics EXCEPT ![gc.key] = 0]
    /\ gc' = NextKey
    /\ UNCHANGED <<orgs, series, ing, store, primary, now, historyVars>>

Active(o) == {k \in Keys : Org(k) = o /\ metrics[k] # 0}

\* all keys done: an empty org is dropped, after a second look under the write lock
GCOrgDone ==
    /\ gc.pc = "keys" /\ gc.keys = {}
    /\ gc' = IF Active(gc.org) = {} THEN [gc EXCEPT !.pc = "droporg"] ELSE NextOrg
    /\ UNCHANGED <<orgs, metrics, series, ing, store, primary, now, historyVars>>

\* (variant with a fault: no second look)
DroppableUnchecked(o) == TRUE

Droppable(o) == Active(o) = {}

GCDropOrg ==
    /\ gc.pc = "droporg"
    /\ orgs' = IF Droppable(gc.org) THEN orgs \ {gc.org} ELSE orgs
    /\ gc' = NextOrg
    /\ UNCHANGED <<metrics, series, ing, store, primary, now, historyVars>>

GCEnd ==
    /\ gc.pc = "orgs" /\ gc.orgs = {}
    /\ gc' = IdleGC
    /\ UNCHANGED <<orgs, metrics, series, ing, store, primary, now, historyVars>>

\* A tick is of the order of the staleness limits (hours): no goroutine sits that
\* long between looking a series up and adding to it.
Tick ==
    /\ \A g \in Ingesters : ing[g].pc = "idle"
    /\ now + TickSize <= MaxNow
    /\ now' = now + TickSize
    /\ UNCHANGED <<orgs, metrics, series, ing, gc, store, primary, historyVars>>

\* MemberlistManager.SetPrimary: the node is promoted or demoted
SetPrimary(p) ==
    /\ primary # p
    /\ primary' = p
    /\ UNCHANGED <<orgs, metrics, series, ing, gc, store, now, historyVars>>

Next ==
    \/ \E g \in Ingesters :
          \/ \E p \in Points : Lookup(g, p[1], p[2])
          \/ Create(g)
          \/ AddPoint(g)
    \/ GCStart \/ GCCollect \/ GCPurge \/ GCOrgDone \/ GCDropOrg \/ GCEnd
    \/ \E o \in AllOrgs : GCOrg(o)
    \/ \E k \in Keys : GCKey(k)
    \/ \E p \in Roles : SetPrimary(p)
    \/ Tick

Spec == Init /\ [][Next]_vars
-------------------------------------------------------------------------------
\* What the registry and the ingest goroutines refer to are existing series.
TypeOK ==
    /\ orgs \subseteq AllOrgs /\ primary \in Roles
    /\ metrics \in [Keys -> {0} \cup Created]
    /\ \A m \in Created : series[m].key \in Keys /\ series[m].t0 \in ChunkT0s \cup {0}
    /\ \A g \in Ingesters : /\ ing[g].pc \in {"idle", "create", "add"}
                            /\ ing[g].pc = "add" => ing[g].m \in Created
    /\ gc.pc \in {"idle", "orgs", "keys", "collect", "purge", "droporg"}

\* GetOrCreate's double check: there is one series object per key; an object is
\* registered under its key unless GC found it stale.
OneSeriesPerKey ==
    \A m \in Created : metrics[series[m].key] = m \/ sealed[m].stale

\* "this is the only goroutine that can delete from ms.Metrics": the series GC looks
\* up after it listed the keys is still there, and so is the map of its org; an org
\* with series never loses its map.
GCSeesItsKeys ==
    /\ gc.pc \in {"collect", "purge"} => gc.a # 0 /\ metrics[gc.key] = gc.a
    /\ \A k \in Keys : metrics[k] # 0 => Org(k) \in orgs

\* What GC takes out of memory is in the store, provided that the node was primary
\* when GC closed the series' last chunk: then every point the series held when GC
\* called it stale was given to the store, the points of chunks that were completed
\* while the node was a secondary included, whatever the node has become since.  A
\* chunk that GC closes on a secondary is purged unsaved: saving it is up to the
\* primary of that time.
PurgedIsSaved ==
    \A m \in Created : metrics[series[m].key] # m /\ closedAs[m] =>
        {series[m].key} \X sealed[m].pts \subseteq written

\* "ProcessMetricData assures the data is stored [...] concurrency-safe": a point
\* that Add took is in a series of the registry, or the store was given it.
AcceptedIsKept ==
    \A m \in Created : \A ts \in series[m].pts :
        \/ <<series[m].key, ts>> \in written
        \/ \E n \in Created : metrics[series[m].key] = n /\ ts \in series[n].pts

\* "can't overwrite old data": no write takes a point out of the store.
NeverOverwritten ==
    [][\A k \in Keys, t \in ChunkT0s : store[k][t] \subseteq store'[k][t]]_vars
===============================================================================
