------------------------------ MODULE WriteQueue ------------------------------
(***************************************************************************)
(* idx/memory/write_queue.go with the operations of UnpartitionedMemoryIdx *)
(* (idx/memory/memory.go) that go through it: new archives are buffered    *)
(* and added to the index in batches, when the buffer is full (by the      *)
(* goroutine that fills it) or when the loop's timer fires.                *)
(*                                                                         *)
(* An archive is a pointer: a position in heap.  Every action is one       *)
(* critical section or one channel operation; the index lock is never held *)
(* across a blocking operation, the lock of the queue is held across the   *)
(* send that ends a flush.  Of an archive only LastUpdate is kept, and     *)
(* AtomicBump is one step here (module AtomicBump has its swaps).          *)
(***************************************************************************)
EXTENDS Integers, Sequences, FiniteSets

CONSTANTS
    Keys, Callers,
    Times,          \* timestamps of incoming points
    MaxBuffered,    \* wq.maxBuffered
    MaxArchives     \* bound on the number of archives created

ASSUME WriteQueueAssumption ==
    MaxBuffered \in Nat \ {0} /\ MaxArchives \in Nat /\ Times \subseteq Nat \ {0}

VARIABLES
    defById,    \* m.defById: archive of a key, 0 if absent
    archives,   \* wq.archives: buffered archive of a key, 0 if absent
    heap,       \* all archives: [key, lastUpdate]
    call,       \* call[c] = [pc, op, key, ts, arch, known]: a caller of the index
    lock,       \* holder of wq's write lock that is about to signal: a caller, "loop" or "free"
    flushed,    \* number of signals in the channel wq.flushed (capacity 1)
    timer,      \* "running", "fired" (its channel is full) or "drained"
    loop,       \* where the loop is: "select", "timer", "shutdown", "signal", "done"
    shutdown,   \* wq.shutdown is closed
    added,      \* history: keys AddOrUpdate has returned for
    atStop,     \* history: those keys when Stop was called
    seenIndexed \* history: highest time reported for the indexed archive of a key

idxVars == <<defById, archives, heap>>
loopVars == <<timer, loop, shutdown>>
histVars == <<added, atStop, seenIndexed>>
vars == <<idxVars, call, lock, flushed, loopVars, histVars>>

Ops == {"AddOrUpdate", "Update", "UpdateArchiveLastSave"}
Larger(a, b) == IF a >= b THEN a ELSE b
Queued == {k \in Keys : archives[k] # 0}
Idle == [pc |-> "idle", op |-> "none", key |-> "none", ts |-> 0, arch |-> 0, known |-> FALSE]
Stamps(op) == IF op = "UpdateArchiveLastSave" THEN {0} ELSE Times

Init ==
    /\ defById = [k \in Keys |-> 0] /\ archives = [k \in Keys |-> 0] /\ heap = <<>>
    /\ call = [c \in Callers |-> Idle]
    /\ lock = "free" /\ flushed = 0
    /\ timer = "running" /\ loop = "select" /\ shutdown = FALSE
    /\ added = {} /\ atStop = {} /\ seenIndexed = [k \in Keys |-> 0]
-------------------------------------------------------------------------------
(* The callers.  The index is looked at first, under its read lock.          *)

Start(c, op, k, ts) ==
    /\ call[c].pc = "idle"
    /\ LET next(pc, a) == [pc |-> pc, op |-> op, key |-> k, ts |-> ts, arch |-> a,
                           known |-> op # "AddOrUpdate" /\ k \in added]
       IN  \/ /\ defById[k] # 0
              /\ call' = [call EXCEPT ![c] = next("found", defById[k])]
              /\ UNCHANGED heap
           \/ /\ defById[k] = 0 /\ op = "AddOrUpdate"
              /\ Len(heap) < MaxArchives
              /\ heap' = Append(heap, [key |-> k, lastUpdate |-> ts])
              /\ call' = [call EXCEPT ![c] = next("queue", Len(heap) + 1)]
           \/ /\ defById[k] = 0 /\ op # "AddOrUpdate"
              /\ call' = [call EXCEPT ![c] = next("get", 0)]
              /\ UNCHANGED heap
    /\ UNCHANGED <<defById, archives, lock, flushed, loopVars, histVars>>

Return(c) ==
    /\ call' = [call EXCEPT ![c] = Idle]
    /\ added' = IF call[c].op = "AddOrUpdate" THEN added \cup {call[c].key} ELSE added
    /\ UNCHANGED atStop

\* updateExisting, or the store of LastSave (which leaves LastUpdate alone: ts is 0),
\* on the archive that was found, wherever that archive is by now.
UpdateExisting(c) ==
    /\ call[c].pc = "found"
    /\ LET a == call[c].arch k == call[c].key
       IN  /\ heap' = [heap EXCEPT ![a].lastUpdate = Larger(@, call[c].ts)]
           /\ seenIndexed' = [seenIndexed EXCEPT ![k] = IF defById[k] = a THEN Larger(@, call[c].ts)
                                                        ELSE @]
    /\ Return(c)
    /\ UNCHANGED <<defById, archives, lock, flushed, loopVars>>

\* writeQueue.Get, under the read lock of the queue.
QueueGet(c) ==
    /\ call[c].pc = "get" /\ lock = "free"
    /\ LET a == archives[call[c].key]
       IN  call' = [call EXCEPT ![c].pc = IF a # 0 THEN "found" ELSE "recheck", ![c].arch = a]
    /\ UNCHANGED <<idxVars, lock, flushed, loopVars, histVars>>

\* "we need to do one final check of m.defById"
\* (variant with a fault: no second look at the index)
RecheckSkipped(k) == 0

RecheckArchive(k) == defById[k]

Recheck(c) ==
    /\ call[c].pc = "recheck"
    /\ LET a == RecheckArchive(call[c].key)
       IN  call' = [call EXCEPT ![c].pc = IF a # 0 THEN "found" ELSE "notFound", ![c].arch = a]
    /\ UNCHANGED <<idxVars, lock, flushed, loopVars, histVars>>

NotFound(c) ==
    /\ call[c].pc = "notFound"
    /\ Return(c)
    /\ UNCHANGED <<idxVars, lock, flushed, loopVars, seenIndexed>>
-------------------------------------------------------------------------------
(* flush: the batch goes into the index; a key that is there already only    *)
(* has its LastUpdate raised.  The caller holds the lock and goes on to send *)
(* the signal.                                                               *)

\* (variant with a fault: add replaces the archive of a key that is indexed)
IndexedOverwrite(k, batch) == IF batch[k] = 0 THEN defById[k] ELSE batch[k]

Indexed(k, batch) == IF defById[k] = 0 THEN batch[k] ELSE defById[k]

Raised(p, batch) ==
    LET k == heap[p].key
    IN  IF defById[k] = p /\ batch[k] # 0
        THEN [heap[p] EXCEPT !.lastUpdate = Larger(@, heap[batch[k]].lastUpdate)]
        ELSE heap[p]

Flush(batch) ==
    /\ defById' = [k \in Keys |-> Indexed(k, batch)]
    /\ heap' = [p \in DOMAIN heap |-> Raised(p, batch)]
    /\ archives' = [k \in Keys |-> 0]

\* (variant with a fault: off by one)
FullLate(n) == n > MaxBuffered

Full(n) == n >= MaxBuffered

Queue(c) ==
    /\ call[c].pc = "queue" /\ lock = "free"
    /\ LET batch == [archives EXCEPT ![call[c].key] = call[c].arch]
       IN  IF Full(Cardinality({k \in Keys : batch[k] # 0}))
           THEN /\ Flush(batch)
                /\ lock' = c
                /\ call' = [call EXCEPT ![c].pc = "signal"]
                /\ UNCHANGED histVars
           ELSE /\ archives' = batch
                /\ Return(c)
                /\ UNCHANGED <<defById, heap, lock, seenIndexed>>
    /\ UNCHANGED <<flushed, loopVars>>

\* The send that ends a flush of a batch: it blocks while the channel is full.
\* (variant with a fault: it does not)
SignalAlways(who) == lock = who /\ flushed' = flushed + 1 /\ lock' = "free"

Signal(who) ==
    /\ lock = who /\ flushed = 0
    /\ flushed' = 1
    /\ lock' = "free"

QueueSignal(c) ==
    /\ call[c].pc = "signal"
    /\ Signal(c)
    /\ Return(c)
    /\ UNCHANGED <<idxVars, loopVars, seenIndexed>>
-------------------------------------------------------------------------------
(* The loop: select on the signal, the timer and the shutdown.               *)

TimerFires ==
    /\ timer = "running" /\ loop # "done"
    /\ timer' = "fired"
    /\ UNCHANGED <<idxVars, call, lock, flushed, loop, shutdown, histVars>>

\* The timer is stopped, or its channel drained, and started again.
LoopFlushed ==
    /\ loop = "select" /\ flushed = 1
    /\ flushed' = 0
    /\ timer' = "running"
    /\ UNCHANGED <<idxVars, call, lock, loop, shutdown, histVars>>

LoopTimer ==
    /\ loop = "select" /\ timer = "fired"
    /\ timer' = "drained" /\ loop' = "timer"
    /\ UNCHANGED <<idxVars, call, lock, flushed, shutdown, histVars>>

LoopShutdown ==
    /\ loop = "select" /\ shutdown
    /\ loop' = "shutdown"
    /\ UNCHANGED <<idxVars, call, lock, flushed, timer, shutdown, histVars>>

Flushing == loop \in {"timer", "shutdown"} /\ lock = "free"

\* (variant with a fault: the loop ends without flushing)
HasBatchOnTimer == loop = "timer" /\ Queued # {}

HasBatch == Queued # {}

\* After the flush: the timer is started again, or the loop ends.
LoopReturn ==
    /\ loop' = IF shutdown /\ timer # "drained" THEN "done" ELSE "select"
    /\ timer' = IF timer = "drained" THEN "running" ELSE timer

\* An empty batch: the signal is sent only if the channel has room.
LoopFlushEmpty ==
    /\ Flushing /\ ~HasBatch
    /\ flushed' = 1
    /\ LoopReturn
    /\ UNCHANGED <<idxVars, call, lock, shutdown, histVars>>

LoopFlush ==
    /\ Flushing /\ HasBatch
    /\ Flush(archives)
    /\ lock' = "loop" /\ loop' = "signal"
    /\ UNCHANGED <<call, flushed, timer, shutdown, histVars>>

LoopSignal ==
    /\ loop = "signal"
    /\ Signal("loop")
    /\ LoopReturn
    /\ UNCHANGED <<idxVars, call, shutdown, histVars>>

\* At a shutdown the inputs are waited for, but not longer than 10 seconds: calls may
\* be running, and may still be started.
Stop ==
    /\ ~shutdown
    /\ shutdown' = TRUE
    /\ atStop' = added
    /\ UNCHANGED <<idxVars, call, lock, flushed, timer, loop, added, seenIndexed>>

CallerStep(c) ==
    UpdateExisting(c) \/ QueueGet(c) \/ Recheck(c) \/ NotFound(c) \/ Queue(c) \/ QueueSignal(c)

LoopStep == LoopFlushed \/ LoopTimer \/ LoopShutdown \/ LoopFlushEmpty \/ LoopFlush \/ LoopSignal

Next ==
    \/ \E c \in Callers, op \in Ops, k \in Keys : \E ts \in Stamps(op) : Start(c, op, k, ts)
    \/ \E c \in Callers : CallerStep(c)
    \/ TimerFires \/ LoopStep
    \/ Stop

\* Running calls, the timer and the loop make progress; nobody has to call.
Fairness ==
    /\ \A c \in Callers : WF_vars(CallerStep(c))
    /\ WF_vars(TimerFires) /\ WF_vars(LoopStep)

Spec == Init /\ [][Next]_vars /\ Fairness
-------------------------------------------------------------------------------
Archives == 0 .. Len(heap)

\* Index and buffer refer to archives of the right key, and the channel of the loop
\* holds at most one signal.
TypeOK ==
    /\ defById \in [Keys -> Archives] /\ archives \in [Keys -> Archives]
    /\ \A k \in Keys : \A a \in {defById[k], archives[k]} \ {0} : heap[a].key = k
    /\ \A c \in Callers : call[c].pc \in {"found", "queue", "signal"} => call[c].arch \in DOMAIN heap
    /\ lock \in Callers \cup {"loop", "free"} /\ flushed \in 0 .. 1
    /\ timer \in {"running", "fired", "drained"}
    /\ loop \in {"select", "timer", "shutdown", "signal", "done"}

\* A key that AddOrUpdate has returned for is found by every Update and
\* UpdateArchiveLastSave that starts later, whichever way a flush falls between
\* their three lookups.
KnownFound == \A c \in Callers : call[c].pc = "notFound" => ~call[c].known

\* Between two critical sections the buffer is below its limit.
BatchBounded == lock = "free" => Cardinality(Queued) < MaxBuffered

\* Once a key is indexed, a point reported for the indexed archive is never lost,
\* also when copies of the archive that were created concurrently are flushed.
IndexedUpdateKept ==
    \A k \in Keys : seenIndexed[k] > 0 =>
        defById[k] # 0 /\ heap[defById[k]].lastUpdate >= seenIndexed[k]

\* Stop returns only after everything that was queued before it was called is in the
\* index, whatever calls are still running then.  What they queue after the last
\* flush of the loop may stay in the buffer.
StopFlushes == loop = "done" => atStop \subseteq {k \in Keys : defById[k] # 0}

\* "received point may be older than a previously received point, in which case the
\* previous value was correct": the LastUpdate of a key, indexed or queued, never
\* goes down.
LastUpdate(k) ==
    LET held == {defById[k], archives[k]} \ {0}
    IN  IF held = {} THEN 0
        ELSE heap[CHOOSE a \in held : \A b \in held : heap[b].lastUpdate <= heap[a].lastUpdate].lastUpdate

LastUpdateKept == [][\A k \in Keys : LastUpdate(k)' >= LastUpdate(k)]_vars

\* AddOrUpdate: "if was new -> adds new MetricDefinition to index".  The key of
\* every archive that is created gets into the index, unless the index is stopped.
EventuallyIndexed ==
    \A k \in Keys : (\E a \in DOMAIN heap : heap[a].key = k) ~> (defById[k] # 0 \/ shutdown)
===============================================================================
