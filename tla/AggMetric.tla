------------------------------ MODULE AggMetric ------------------------------
(***************************************************************************)
(* mdata/aggmetric.go: one in-memory series of one metrictank node.        *)
(*                                                                         *)
(* Points enter through Add, optionally pass the reorder buffer, and are   *)
(* pushed into the current chunk of a ring of NumChunks chunks.  When a    *)
(* point opens a new chunk the previous one is finished and, on a primary  *)
(* node, persisted: handed to the store's bounded write queue together     *)
(* with the older chunks that were not saved yet.  GC closes and persists  *)
(* the chunk of a series that went quiet.                                  *)
(*                                                                         *)
(* Add and GC run under the write lock; Get runs under the read lock.  The *)
(* steps of the lock holder are kept apart where other goroutines can      *)
(* interleave: the swaps of AtomicBump on lastSaveStart and the blocking   *)
(* sends to the write queue.  The store's writer (callback of a saved      *)
(* chunk) and the notifier (chunks saved by other nodes, and the echo of   *)
(* our own) bump lastSaveStart without the lock.                           *)
(***************************************************************************)
EXTENDS Integers, Sequences, FiniteSets

CONSTANTS
    ChunkSpan, NumChunks,      \* a.chunkSpan, a.numChunks
    Window, Interval,          \* reorder buffer; Window = 0: a.rob == nil
    AllowUpdate,
    DropFirstChunk,            \* a.dropFirstChunk
    IngestFromT0,              \* a.ingestFromT0, 0 when ingest-from is not set
    FutureTolerance,           \* a.futureTolerance
    EnforceFutureTolerance,    \* enforceFutureTolerance
    ChunkMaxStale,             \* now - chunkMinTs in AggMetrics.GC
    Grace,                     \* 15*60 in collectable
    QueueSize,                 \* capacity of the store's write queue
    Timestamps,                \* timestamps of incoming points
    RemoteT0s,                 \* chunk T0's another primary may save
    Start, TickSize, MaxNow,   \* wall clock: first value, step, bound
    Modulus                    \* of the timestamp type

ASSUME AggMetricAssumption ==
    /\ ChunkSpan \in Nat \ {0} /\ NumChunks \in Nat \ {0}
    /\ Window \in Nat /\ Interval \in Nat \ {0} /\ Modulus \in Nat
    /\ {AllowUpdate, DropFirstChunk, EnforceFutureTolerance} \subseteq BOOLEAN
    /\ {IngestFromT0, FutureTolerance, ChunkMaxStale, Grace, QueueSize,
        Start, TickSize, MaxNow} \subseteq Nat
    /\ QueueSize > 0
    /\ \A ts \in Timestamps : ts \in Nat /\ ts >= ChunkSpan /\ ts > Window * Interval
    /\ \A t \in RemoteT0s : t \in Nat \ {0}

VARIABLES
    chunks,           \* a.chunks: sequence of [t0, pts, first, finished]
    currentChunkPos,  \* a.currentChunkPos, 0-based as in the code
    firstTs,          \* a.firstTs
    lastWrite,        \* a.lastWrite
    lastSaveStart,    \* a.lastSaveStart
    rob, res, err,    \* reorder buffer; res: points the lock holder still has to add
    lock,             \* "free", "adding" (inside add) or "saving" (inside persist or bump)
    cur,              \* timestamp whose add() waits for persist, 0 if none
    gcNow,            \* the `now` of the GC call that holds the lock, 0 if none
    tmpLastWrite,     \* local of GC
    pending,          \* write requests of persist that are not sent yet, oldest first
    newVal,           \* locals of the running AtomicBump calls
    queue,            \* the store's write queue
    stored,           \* chunks the store holds
    pushed,           \* chunks handed to the chunk cache (AddIfHot)
    primary,          \* cluster.Manager.IsPrimary()
    remote,           \* highest T0 saved by another primary (and everything older)
    now,              \* wall clock
    persisted,        \* history: T0's of the chunks persist was called on
    addedAt           \* history: when the reorder buffer last accepted a point

ringVars == <<chunks, currentChunkPos, firstTs>>
robVars  == <<rob, res, err>>
gcVars   == <<gcNow, tmpLastWrite>>
saveVars == <<lastSaveStart, newVal>>
envVars  == <<queue, stored, primary, remote, now>>
histVars == <<persisted, addedAt>>
vars == <<ringVars, lastWrite, saveVars, robVars, lock, cur, gcVars, pending,
          pushed, envVars, histVars>>
------------------------------------------------------------------------------
ROB == INSTANCE ReorderBuffer WITH Vals <- {0}, AllowUpdates <- {AllowUpdate}

Bumpers == {"holder", "writer", "notifier"}
Bump == INSTANCE AtomicBump WITH Callers <- Bumpers, Values <- Nat \ {0},
                                 loc <- lastSaveStart, highest <- 0

NoPoint == ROB!NoPoint
T0(ts) == ts - (ts % ChunkSpan)
Chunk(i) == chunks[i + 1]
Current == Chunk(currentChunkPos)
LastTs(c) == CHOOSE t \in c.pts : \A u \in c.pts : u <= t      \* Series.T
Request(c) == [t0 |-> c.t0, pts |-> c.pts]                     \* ChunkWriteRequest

NewChunk(ts, first) == [t0 |-> T0(ts), pts |-> {ts}, first |-> first, finished |-> FALSE]
Finished == [chunks EXCEPT ![currentChunkPos + 1].finished = TRUE]
Init ==
    /\ chunks = <<>> /\ currentChunkPos = 0 /\ firstTs = 0
    /\ lastWrite = Start /\ now = Start
    /\ lastSaveStart = 0 /\ newVal = [b \in Bumpers |-> 0]
    /\ ROB!Init
    /\ lock = "free" /\ cur = 0 /\ gcNow = 0 /\ tmpLastWrite = 0
    /\ pending = <<>> /\ queue = <<>> /\ stored = {} /\ pushed = {}
    /\ primary \in BOOLEAN /\ remote = 0 /\ persisted = {} /\ addedAt = 0
------------------------------------------------------------------------------
(* Add: the checks before the lock, and the reorder buffer.  A point below   *)
(* IngestFromT0 or too far ahead changes nothing in this series.             *)

TooFarAhead(ts) == ts > FutureTolerance /\ ts - FutureTolerance > now

Ingested(ts) == ts >= IngestFromT0 /\ ~(EnforceFutureTolerance /\ TooFarAhead(ts))

AddDirect(ts) ==
    /\ Window = 0
    /\ res' = <<[ts |-> ts, val |-> 0]>>
    /\ UNCHANGED <<rob, err, lastWrite, addedAt>>

\* An accepted point that purges nothing only moves lastWrite; purged points are
\* added one after the other, and it is add() that moves lastWrite.
AddReordered(ts) ==
    /\ Window # 0
    /\ ROB!Add(ts, 0)
    /\ lastWrite' = IF err' = "none" /\ (\A i \in DOMAIN res' : res'[i] = NoPoint)
                    THEN now ELSE lastWrite
    /\ addedAt' = IF err' = "none" THEN now ELSE addedAt

Add(ts) ==
    /\ lock = "free"
    /\ Ingested(ts)
    /\ AddDirect(ts) \/ AddReordered(ts)
    /\ lock' = "adding"
    /\ UNCHANGED <<ringVars, saveVars, cur, gcVars, pending, pushed, envVars, persisted>>
------------------------------------------------------------------------------
(* add: the lock holder takes the next point of res.                         *)

Take(ts) ==
    /\ lock = "adding" /\ newVal["holder"] = 0
    /\ \E i \in DOMAIN res :
          /\ res[i] # NoPoint /\ res[i].ts = ts
          /\ \A j \in 1 .. i - 1 : res[j] = NoPoint
          /\ res' = SubSeq(res, i + 1, Len(res))
    /\ UNCHANGED <<rob, err, gcVars, envVars, addedAt>>

StartBump(b, v) == newVal' = [newVal EXCEPT ![b] = v]

AddFirst(ts) ==
    /\ chunks = <<>>
    /\ chunks' = <<NewChunk(ts, TRUE)>>
    /\ firstTs' = ts
    /\ lastWrite' = now
    /\ IF DropFirstChunk THEN StartBump("holder", T0(ts)) ELSE UNCHANGED newVal
    /\ UNCHANGED <<currentChunkPos, lastSaveStart, lock, cur, pending, pushed, persisted>>

\* The point is in the current chunk, which takes it only while it is not
\* finished and only in order; a point of an older chunk is out of order.
\* (variant with a fault: the Finished test is missing)
PushableFinished(ts) == T0(ts) = Current.t0 /\ ts > LastTs(Current)

Pushable(ts) == T0(ts) = Current.t0 /\ ~Current.finished /\ ts > LastTs(Current)

AddToCurrent(ts) ==
    /\ chunks # <<>>
    /\ Pushable(ts)
    /\ chunks' = [chunks EXCEPT ![currentChunkPos + 1].pts = @ \cup {ts}]
    /\ lastWrite' = now
    /\ UNCHANGED <<currentChunkPos, firstTs, saveVars, lock, cur, pending, pushed, persisted>>

AddDiscard(ts) ==
    /\ chunks # <<>>
    /\ T0(ts) <= Current.t0 /\ ~Pushable(ts)
    /\ UNCHANGED <<ringVars, lastWrite, saveVars, lock, cur, pending, pushed, persisted>>

(* persist: the current chunk and, walking back through the ring, the older  *)
(* ones above lastSaveStart, sent oldest first.                              *)
Prev(k) == Chunk((currentChunkPos - k) % Len(chunks))

NeedsSaving(k) == Prev(k).t0 < Current.t0 /\ lastSaveStart < Prev(k).t0

OlderUnsaved ==
    CHOOSE n \in 0 .. Len(chunks) - 1 :
        (\A k \in 1 .. n : NeedsSaving(k)) /\ ~NeedsSaving(n + 1)

\* (variant with a fault: older unsaved chunks are forgotten)
WriteRequestsLast == <<Request(Current)>>

WriteRequests == [i \in 1 .. OlderUnsaved + 1 |-> Request(Prev(OlderUnsaved + 1 - i))]

Persist ==
    /\ persisted' = persisted \cup {Current.t0}
    /\ IF lastSaveStart >= Current.t0
       THEN UNCHANGED <<pending, newVal>>
       ELSE pending' = WriteRequests /\ StartBump("holder", Current.t0)

\* Finish, pushToCache, and persist on a primary.
CloseCurrent ==
    /\ chunks' = Finished
    /\ pushed' = pushed \cup {Request(Current)}
    /\ IF primary THEN Persist ELSE UNCHANGED <<pending, newVal, persisted>>
    /\ lock' = "saving"
    /\ UNCHANGED <<currentChunkPos, firstTs, lastSaveStart>>

\* (variant with a fault: any other T0 opens a new chunk)
OpensChunkAnyOrder(ts) == T0(ts) # Current.t0

OpensChunk(ts) == T0(ts) > Current.t0

AddNewChunk(ts) ==
    /\ chunks # <<>>
    /\ OpensChunk(ts)
    /\ CloseCurrent
    /\ cur' = ts
    /\ UNCHANGED lastWrite

AddNext(ts) ==
    /\ Take(ts)
    /\ AddFirst(ts) \/ AddToCurrent(ts) \/ AddDiscard(ts) \/ AddNewChunk(ts)

\* One swap of the AtomicBump that the holder, the writer's callback or the
\* notifier is in.
BumpStep(b) ==
    /\ Bump!Swap(b)
    /\ UNCHANGED <<ringVars, lastWrite, robVars, lock, cur, gcVars, pending, pushed,
                   envVars, histVars>>

\* store.Add: blocks, with the lock held, while the write queue is full.
StoreAdd ==
    /\ lock = "saving" /\ newVal["holder"] = 0
    /\ pending # <<>> /\ Len(queue) < QueueSize
    /\ queue' = Append(queue, Head(pending))
    /\ pending' = Tail(pending)
    /\ UNCHANGED <<ringVars, lastWrite, saveVars, robVars, lock, cur, gcVars, pushed,
                   stored, primary, remote, now, histVars>>

\* (variant with a fault: add goes on while requests are not sent yet)
SavedEarly == lock = "saving" /\ newVal["holder"] = 0

Saved == lock = "saving" /\ newVal["holder"] = 0 /\ pending = <<>>

\* (variant with a fault: no wrap-around)
NextPosNoWrap == currentChunkPos + 1

NextPos == IF currentChunkPos + 1 >= NumChunks THEN 0 ELSE currentChunkPos + 1

\* The rest of add after persist: advance in the ring, open the new chunk.
Advance ==
    /\ Saved /\ cur # 0
    /\ chunks' = IF Len(chunks) < NumChunks
                 THEN Append(chunks, NewChunk(cur, FALSE))
                 ELSE [chunks EXCEPT ![NextPos + 1] = NewChunk(cur, FALSE)]
    /\ currentChunkPos' = NextPos
    /\ lastWrite' = now
    /\ cur' = 0
    /\ lock' = "adding"
    /\ UNCHANGED <<firstTs, saveVars, robVars, gcVars, pending, pushed, envVars, histVars>>

------------------------------------------------------------------------------
(* GC: flush the reorder buffer into the chunks without counting that as a   *)
(* write, then close and persist the current chunk if it is still quiet.     *)

Collectable(t, written) ==
    /\ written < t - ChunkMaxStale
    /\ chunks # <<>> => Current.t0 + ChunkSpan + Grace < t

GC ==
    /\ lock = "free"
    /\ Collectable(now, lastWrite)
    /\ IF Window # 0 THEN ROB!Flush ELSE UNCHANGED robVars
    /\ gcNow' = now
    /\ tmpLastWrite' = lastWrite
    /\ lock' = "adding"
    /\ UNCHANGED <<ringVars, lastWrite, saveVars, cur, pending, pushed, envVars, histVars>>

AddsDone == lock = "adding" /\ newVal["holder"] = 0 /\ \A i \in DOMAIN res : res[i] = NoPoint

Release == lock' = "free" /\ gcNow' = 0 /\ tmpLastWrite' = 0 /\ res' = <<>> /\ err' = "none"

\* Add returns.
AddReturn ==
    /\ AddsDone /\ gcNow = 0
    /\ Release
    /\ UNCHANGED <<ringVars, lastWrite, saveVars, rob, cur, pending, pushed, envVars, histVars>>

\* GC after the flush: the series has no chunks, became active, or its chunk is
\* closed already.
Closable == chunks # <<>> /\ Collectable(gcNow, tmpLastWrite) /\ ~Current.finished

GCReturn ==
    /\ AddsDone /\ gcNow # 0 /\ ~Closable
    /\ lastWrite' = tmpLastWrite
    /\ Release
    /\ UNCHANGED <<ringVars, saveVars, rob, cur, pending, pushed, envVars, histVars>>

GCClose ==
    /\ AddsDone /\ gcNow # 0 /\ Closable
    /\ lastWrite' = tmpLastWrite
    /\ CloseCurrent
    /\ UNCHANGED <<robVars, cur, gcVars, envVars, addedAt>>

GCClosed ==
    /\ Saved /\ cur = 0
    /\ Release
    /\ UNCHANGED <<ringVars, lastWrite, saveVars, rob, cur, pending, pushed, envVars, histVars>>
------------------------------------------------------------------------------
(* The goroutines that do not hold the lock, and the environment.            *)

\* (variant with a fault: the callback takes the lock of the series)
WriterReadyLocking == queue # <<>> /\ newVal["writer"] = 0 /\ lock = "free"

WriterReady == queue # <<>> /\ newVal["writer"] = 0

\* The store's writer inserts the oldest request of the queue, however often it
\* has to retry, and calls SyncChunkSaveState's callback.
StoreWrite ==
    /\ WriterReady
    /\ stored' = stored \cup {Head(queue)}
    /\ queue' = Tail(queue)
    /\ StartBump("writer", Head(queue).t0)
    /\ UNCHANGED <<ringVars, lastWrite, lastSaveStart, robVars, lock, cur, gcVars, pending,
                   pushed, primary, remote, now, histVars>>

\* A persist message of another primary, or the echo of one of ours, however late.
Notify(t) ==
    /\ \/ t \in RemoteT0s /\ t <= remote
       \/ \E r \in stored : r.t0 = t
    /\ newVal["notifier"] = 0
    /\ StartBump("notifier", t)
    /\ UNCHANGED <<ringVars, lastWrite, lastSaveStart, robVars, lock, cur, gcVars, pending,
                   pushed, envVars, histVars>>

RemoteSave(t) ==
    /\ t > remote
    /\ remote' = t
    /\ UNCHANGED <<ringVars, lastWrite, saveVars, robVars, lock, cur, gcVars, pending, pushed,
                   queue, stored, primary, now, histVars>>

SetPrimary(p) ==
    /\ primary # p
    /\ primary' = p
    /\ UNCHANGED <<ringVars, lastWrite, saveVars, robVars, lock, cur, gcVars, pending, pushed,
                   queue, stored, remote, now, histVars>>

Tick ==
    /\ now + TickSize <= MaxNow
    /\ now' = now + TickSize
    /\ UNCHANGED <<ringVars, lastWrite, saveVars, robVars, lock, cur, gcVars, pending, pushed,
                   queue, stored, primary, remote, histVars>>

ChunkT0s == {T0(ts) : ts \in Timestamps} \cup RemoteT0s

\* the timestamps add() can see: as received, or aligned by the reorder buffer
Aligned == IF Window = 0 THEN Timestamps ELSE {ROB!AggBoundary(ts, Interval) : ts \in Timestamps}

Holder ==
    \/ \E ts \in Aligned : AddNext(ts)
    \/ StoreAdd \/ Advance \/ AddReturn \/ GCReturn \/ GCClose \/ GCClosed
    \/ BumpStep("holder")

Next ==
    \/ \E ts \in Timestamps : Add(ts)
    \/ GC
    \/ Holder
    \/ StoreWrite \/ BumpStep("writer")
    \/ \E t \in ChunkT0s : Notify(t)
    \/ BumpStep("notifier")
    \/ \E t \in RemoteT0s : RemoteSave(t)
    \/ \E p \in BOOLEAN : SetPrimary(p)
    \/ Tick

\* The lock holder, the store's writer and a running bump keep going; nothing
\* says that points, GC runs, messages or clock ticks keep coming.
Fairness ==
    /\ WF_vars(Holder) /\ WF_vars(StoreWrite)
    /\ WF_vars(BumpStep("writer")) /\ WF_vars(BumpStep("notifier"))

Spec == Init /\ [][Next]_vars /\ Fairness
------------------------------------------------------------------------------
(* Get, under the read lock.  Ring order: 0 is the oldest chunk.             *)

RingPos(k) == (currentChunkPos + 1 + k) % Len(chunks)
Ages == 0 .. Len(chunks) - 1
RobPoints == IF Window = 0 THEN <<>> ELSE ROB!Points(ROB!Get)
\* (variant with a fault: the first point ever seen, whatever the chunk)
OldestOfFirst(c) == firstTs

OldestOf(c) == IF c.first THEN firstTs ELSE c.t0

\* positions, in ring order, from the first chunk `from` falls in to the last one
\* `to` falls in; round the ring when the first is behind the last
\* (variant with a fault: the chunk is skipped as soon as `from` is past its start)
ItersFromLate(from) ==
    CHOOSE k \in Ages : (from < Chunk(RingPos(k)).t0 \/ k = Len(chunks) - 1)
                        /\ \A j \in 0 .. k - 1 : from >= Chunk(RingPos(j)).t0

ItersFrom(from) == CHOOSE k \in Ages : /\ from < Chunk(RingPos(k)).t0 + ChunkSpan
                                       /\ \A j \in 0 .. k - 1 : from >= Chunk(RingPos(j)).t0 + ChunkSpan
ItersTo(to) == CHOOSE k \in Ages : /\ to > Chunk(RingPos(k)).t0
                                   /\ \A j \in k + 1 .. Len(chunks) - 1 : to <= Chunk(RingPos(j)).t0
Iters(from, to) == LET f == ItersFrom(from) t == ItersTo(to)
                   IN  {k \in Ages : IF f <= t THEN f <= k /\ k <= t ELSE k >= f \/ k <= t}

Result(ks, oldest) ==
    [pts    |-> {RobPoints[i].ts : i \in DOMAIN RobPoints}
                \cup UNION {Chunk(RingPos(k)).pts : k \in ks},
     oldest |-> oldest]

Get(from, to) ==
    IF RobPoints # <<>> /\ RobPoints[1].ts <= from THEN Result({}, RobPoints[1].ts)
    ELSE IF chunks = <<>>
         THEN Result({}, IF RobPoints # <<>> THEN RobPoints[1].ts ELSE Modulus)
    ELSE IF from >= Current.t0 + ChunkSpan THEN Result({}, from)
    ELSE IF to <= Chunk(RingPos(0)).t0 THEN Result({}, OldestOf(Chunk(RingPos(0))))
    ELSE Result(Iters(from, to), OldestOf(Chunk(RingPos(ItersFrom(from)))))
------------------------------------------------------------------------------
ToSet(s) == {s[i] : i \in DOMAIN s}
Requests == stored \cup ToSet(queue) \cup ToSet(pending)

ChunkType == [t0 : Nat, pts : SUBSET Nat, first : BOOLEAN, finished : BOOLEAN]
RequestType == [t0 : Nat, pts : SUBSET Nat]

\* The ring and the write queue stay within their bounds, and the locals of the lock
\* holder are what its step needs.
TypeOK ==
    /\ chunks \in Seq(ChunkType) /\ Len(chunks) <= NumChunks
    /\ currentChunkPos \in 0 .. NumChunks - 1
    /\ firstTs \in Nat /\ lastWrite \in Nat /\ lastSaveStart \in Nat /\ cur \in Nat
    /\ gcNow \in Nat /\ tmpLastWrite \in Nat /\ remote \in Nat /\ now \in Nat
    /\ newVal \in [Bumpers -> Nat]
    /\ lock \in {"free", "adding", "saving"} /\ primary \in BOOLEAN
    /\ pending \in Seq(RequestType)
    /\ queue \in Seq(RequestType) /\ Len(queue) <= QueueSize
    /\ stored \subseteq RequestType /\ pushed \subseteq RequestType

\* chunk i was opened before chunk j: the oldest one follows the current one in the ring
Older(i, j) ==
    IF i > currentChunkPos THEN j <= currentChunkPos \/ i < j
                           ELSE j <= currentChunkPos /\ i < j

\* "Chunks[CurrentChunkPos] is active. Others are finished": going round the ring
\* from the slot after the current one the T0's ascend up to the current chunk,
\* and every other chunk is finished.
RingInv ==
    /\ chunks # <<>> => currentChunkPos < Len(chunks)
    /\ Len(chunks) < NumChunks => currentChunkPos = IF chunks = <<>> THEN 0 ELSE Len(chunks) - 1
    /\ \A i, j \in Ages : Older(i, j) => Chunk(i).t0 < Chunk(j).t0
    /\ \A i \in Ages : i # currentChunkPos => Chunk(i).finished

\* "never persist a chunk that may receive further updates": what was handed to
\* the write queue, the store or the chunk cache is what the chunk in memory
\* holds, and that chunk takes no more points.
PersistedFinal ==
    \A r \in Requests \cup pushed : \A i \in Ages :
        Chunk(i).t0 = r.t0 => Chunk(i).finished /\ Chunk(i).pts = r.pts

\* What the two need to be inductive: a request is never ahead of the current
\* chunk, and while the lock holder saves, the current chunk is finished and the
\* point that waits belongs to a later one.
SavePhase ==
    /\ \A r \in Requests \cup pushed : chunks # <<>> /\ r.t0 <= Current.t0
    /\ lock = "saving" => chunks # <<>> /\ Current.finished
    /\ cur # 0 => lock = "saving" /\ T0(cur) > Current.t0

IInv == TypeOK /\ RingInv /\ PersistedFinal /\ SavePhase

\* A chunk another primary saved, or the first chunk when it is dropped on purpose,
\* does not have to be saved by this node.
Durable(t0) ==
    \/ \E r \in Requests : r.t0 = t0
    \/ t0 <= remote
    \/ DropFirstChunk /\ t0 = T0(firstTs)

\* "Every chunk with a T0 <= this chunks' T0 is now either saved, or in the
\* writeQueue": whatever lastSaveStart covers, or is about to cover, is durable.
SaveStateSound ==
    \A i \in Ages : \A v \in {lastSaveStart} \cup {newVal[b] : b \in Bumpers} :
        Chunk(i).t0 <= v => Durable(Chunk(i).t0)

\* No chunk closed while the node was primary is lost, also after its slot in the
\* ring was reused, whatever the other writers of lastSaveStart did meanwhile.
ClosedDurable == \A t0 \in persisted : Durable(t0)

\* "Get all data between the requested time ranges".
Queries == {q \in Timestamps \X {t + 1 : t \in Timestamps} : q[1] < q[2]}
InMemory == UNION {Chunk(i).pts : i \in Ages} \cup {RobPoints[i].ts : i \in DOMAIN RobPoints}
Complete(f, t) == \A p \in InMemory : f <= p /\ p < t => p \in Get(f, t).pts

GetAllData == lock = "free" => \A q \in Queries : Complete(q[1], q[2])

\* Get is complete as long as what the reorder buffer holds is newer than the chunks.
RobAhead == \A i \in DOMAIN RobPoints : \A k \in Ages : \A p \in Chunk(k).pts : p < RobPoints[i].ts
GetComplete == RobAhead => GetAllData

\* "oldest point we have, so that if your query needs data before it, the caller
\* knows when to query the store": nothing that is only in the store is at or
\* after the Oldest that Get reports.
OldestSound ==
    lock = "free" /\ RobAhead =>
        \A q \in Queries : \A r \in Requests : \A p \in r.pts :
            /\ q[1] <= p /\ p < q[2] /\ Get(q[1], q[2]).oldest <= p
            => p \in Get(q[1], q[2]).pts

\* "wall clock time of when last point was successfully added (possibly to the
\* ROB)": lastWrite, which decides when GC may flush and drop the series, is not
\* older than the last point the reorder buffer took.
LastWriteCurrent == lock = "free" => lastWrite >= addedAt

\* Add and GC come back: the lock holder blocked on a full write queue always gets
\* through, since the writer's callback needs no lock of the series.
LockReleased == lock # "free" ~> lock = "free"
==============================================================================
