---------------------------- MODULE ReorderBuffer ----------------------------
(***************************************************************************)
(* mdata/reorder_buffer.go: a ring of Window slots, one per interval, that *)
(* lets points arrive out of order.  A slot with ts 0 is empty.  The       *)
(* caller (AggMetric) holds its lock around every call, so calls are       *)
(* atomic.                                                                 *)
(***************************************************************************)
EXTENDS Integers, Sequences

CONSTANTS Window,       \* cap(rob.buf)
          Interval,     \* rob.interval
          AllowUpdates, \* the values reorder-allow-update may have
          Timestamps,   \* timestamps of the points that arrive
          Vals,         \* their values
          Modulus       \* 2^32 in the code: timestamps are uint32

\* Unix timestamps are far above the window and far below the end of uint32.
ASSUME RobAssumption ==
    /\ Window \in Nat /\ Interval \in Nat \ {0} /\ Modulus \in Nat
    /\ AllowUpdates \subseteq BOOLEAN
    /\ \A ts \in Timestamps :
          ts \in Nat /\ ts > Window * Interval /\ ts + Interval < Modulus

VARIABLES rob,  \* [buf, newest, allowUpdate]
          res,  \* what the last call returned, one entry per slot it visited: an
                \* empty slot, which the code does not append, is a NoPoint entry
          err   \* error of the last call

vars == <<rob, res, err>>

Slots == 0 .. Window - 1
NoPoint == [ts |-> 0, val |-> 0]

AggBoundary(ts, span) == ts + span - (((ts - 1) % span) + 1)

\* uint32 subtraction
Minus(a, b) == (a - b) % Modulus

\* (variant with a fault: newest starts past the last slot)
NewReorderBufferPast(u) == [buf |-> [s \in Slots |-> NoPoint], newest |-> Window, allowUpdate |-> u]

NewReorderBuffer(u) == [buf |-> [s \in Slots |-> NoPoint], newest |-> 0, allowUpdate |-> u]

NewestTs == rob.buf[rob.newest].ts
Index(ts) == (ts \div Interval) % Window

\* the n slots that follow the newest one, oldest point first
Oldest(n) == [i \in 1 .. n |-> rob.buf[(rob.newest + i) % Window]]

Init == (\E u \in AllowUpdates : rob = NewReorderBuffer(u)) /\ res = <<>> /\ err = "none"

\* (variant with a fault: the oldest interval of the window is refused)
TooOldEarly(ts) == NewestTs # 0 /\ ts <= Minus(NewestTs, (Window - 1) * Interval)

TooOld(ts) == NewestTs # 0 /\ ts <= Minus(NewestTs, Window * Interval)

Reject(e) == err' = e /\ res' = <<>> /\ UNCHANGED rob

Put(p) == rob' = [rob EXCEPT !.buf[Index(p.ts)] = p]

\* ts is newer than everything buffered: the slots between the newest point and
\* ts are purged, oldest first, and ts becomes the newest point.
FlushCount(ts) ==
    LET n == (ts - NewestTs) \div Interval IN IF n > Window THEN Window ELSE n

\* (variant with a fault: what is handed out stays in its slot)
PurgedKept(ts) == {}

Purged(ts) == {(rob.newest + i) % Window : i \in 1 .. FlushCount(ts)}

PutNewest(p) ==
    /\ res' = Oldest(FlushCount(p.ts))
    /\ rob' = [rob EXCEPT !.buf = [s \in Slots |-> IF s = Index(p.ts) THEN p
                                                   ELSE IF s \in Purged(p.ts) THEN NoPoint
                                                   ELSE rob.buf[s]],
                          !.newest = Index(p.ts)]

\* Add of an aligned point
AddPoint(p) ==
    \/ TooOld(p.ts) /\ Reject("TooOld")
    \/ /\ ~TooOld(p.ts) /\ p.ts = rob.buf[Index(p.ts)].ts
       /\ \/ ~rob.allowUpdate /\ Reject("NewValueForTimestamp")
          \/ rob.allowUpdate /\ Put(p) /\ res' = <<>> /\ err' = "none"
    \/ /\ ~TooOld(p.ts) /\ p.ts # rob.buf[Index(p.ts)].ts
       /\ \/ p.ts > NewestTs /\ PutNewest(p)
          \/ p.ts <= NewestTs /\ Put(p) /\ res' = <<>>
       /\ err' = "none"

Add(ts, val) == AddPoint([ts |-> AggBoundary(ts, Interval), val |-> val])

\* Get: from the slot after the newest one round to the newest one
Get == Oldest(Window)

IsEmpty == NewestTs = 0

Flush == res' = Get /\ rob' = NewReorderBuffer(rob.allowUpdate) /\ err' = "none"

Next == Flush \/ \E ts \in Timestamps, val \in Vals : Add(ts, val)

Spec == Init /\ [][Next]_vars
-----------------------------------------------------------------------------
Buffered == {rob.buf[s] : s \in Slots} \ {NoPoint}
Points(s) == SelectSeq(s, LAMBDA p : p # NoPoint)

\* Slots are empty or hold a point, `newest` points into the ring, and what is handed
\* out are points that were put in.
TypeOK ==
    /\ rob.newest \in Slots /\ rob.allowUpdate \in BOOLEAN
    /\ \A s \in Slots : rob.buf[s].ts \in Nat /\ (rob.buf[s].ts = 0 => rob.buf[s] = NoPoint)
    /\ \A i \in DOMAIN res : res[i] # NoPoint => res[i].ts \in Nat /\ res[i].val \in Vals

\* "the buffer is evenly spaced (points are `interval` apart) and may be sparsely
\* populated": every point sits in the slot of its interval, and inside the window
\* that ends with the newest point.  Add finds a point by its slot alone, so a
\* stale point in a slot would be taken for a point of the window.
WindowInv ==
    \A s \in Slots : rob.buf[s].ts # 0 =>
        /\ rob.buf[s].ts % Interval = 0
        /\ Index(rob.buf[s].ts) = s
        /\ rob.buf[s].ts <= NewestTs
        /\ rob.buf[s].ts > NewestTs - Window * Interval
==============================================================================
