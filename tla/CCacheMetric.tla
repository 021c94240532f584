----------------------------- MODULE CCacheMetric -----------------------------
(***************************************************************************)
(* mdata/cache/ccache_metric.go: the cached chunks of one series, a map    *)
(* from T0 to a doubly linked list node, and the sorted list of the T0's.  *)
(* A chunk stands for [T0, T0 + ChunkSpan); it knows its span only when it *)
(* is stored in a span-aware format (aware), otherwise the end is guessed  *)
(* from its neighbours.  0 is "no chunk", as in the code.                  *)
(*                                                                         *)
(* Every operation runs under the lock of the CCacheMetric, so each is one *)
(* action here; CachedStore composes them with the goroutines that call.   *)
(***************************************************************************)
EXTENDS Integers, Sequences, SequencesExt

CONSTANTS
    ChunkSpan,
    Histories  \* the series that are considered: [t0s, aware, corrupt], the T0's of the
               \* chunks it has, of those that know their span, and of those whose bytes
               \* in the store cannot be decoded

ASSUME CCacheMetricAssumption ==
    /\ ChunkSpan \in Nat \ {0}
    /\ \A h \in Histories :
          /\ h.aware \subseteq h.t0s /\ h.corrupt \subseteq h.t0s
          /\ \A t \in h.t0s : t \in Nat \ {0} /\ t % ChunkSpan = 0

VARIABLES
    series,    \* one of Histories; it does not change
    chunks,    \* mc.chunks: T0 -> [prev, next]
    keys       \* mc.keys

Cached == DOMAIN chunks
Span(t) == IF t \in series.aware THEN ChunkSpan ELSE 0          \* IterGen.Span
-------------------------------------------------------------------------------
\* The T0 of the next chunk, guessing if necessary; t itself if it cannot tell.
NextTsCore(t, prev, next) ==
    IF Span(t) > 0 THEN t + Span(t)
    ELSE IF next # 0 THEN next
    ELSE IF prev # 0 THEN t + (t - prev)
    ELSE t

NextTs(t) == NextTsCore(t, chunks[t].prev, chunks[t].next)

LastTs == NextTs(keys[Len(keys)])

\* The cached chunk that contains ts, from old to recent and from recent to old.
Covers(i, ts) == keys[i] <= ts /\ ts < NextTs(keys[i])

SeekAsc(ts) ==
    LET hits == {i \in DOMAIN keys : Covers(i, ts) /\ \A j \in 1 .. i - 1 : keys[j] <= ts}
    IN  IF hits = {} THEN 0 ELSE keys[CHOOSE i \in hits : \A j \in hits : i <= j]

SeekDesc(ts) ==
    LET hits == {i \in DOMAIN keys : keys[i] <= ts /\ \A j \in i .. Len(keys) : ts < NextTs(keys[j])}
    IN  IF hits = {} THEN 0 ELSE keys[CHOOSE i \in hits : \A j \in hits : i >= j]

Sorted(ks) == SortSeq(ks, <)
-------------------------------------------------------------------------------
(* Add: link the new chunk with its neighbours, in both directions.          *)

\* "if previous chunk has not been passed we try to be smart and figure it out"
Before(prev, t) == IF prev = 0 THEN SeekDesc(t - 1) ELSE prev

With(c, t, prev, next) == [u \in DOMAIN c \cup {t} |-> IF u = t THEN [prev |-> prev, next |-> next] ELSE c[u]]

LinkBefore(c, p, t) == IF p \in DOMAIN c THEN [c EXCEPT ![p].next = t, ![t].prev = p] ELSE c

\* (variant with a fault: the next chunk is linked in one direction only)
LinkAfterHalf(c, n, t) == IF n > t /\ n \in DOMAIN c THEN [c EXCEPT ![t].next = n] ELSE c

LinkAfter(c, n, t) ==
    IF n > t /\ n \in DOMAIN c THEN [c EXCEPT ![n].prev = t, ![t].next = n] ELSE c

AppendSorted(t) ==
    LET ks == Append(keys, t)
    IN  IF Len(ks) > 1 /\ ks[Len(ks)] < ks[Len(ks) - 1] THEN Sorted(ks) ELSE ks

AddOne(prev, t) ==
    IF t \in Cached THEN UNCHANGED <<chunks, keys>>
    ELSE /\ chunks' = LinkAfter(LinkBefore(With(chunks, t, 0, 0), Before(prev, t), t),
                                NextTsCore(t, 0, 0), t)
         /\ keys' = AppendSorted(t)
-------------------------------------------------------------------------------
(* AddRange: an ascending sequence of chunks, "complete (no gaps)".  The     *)
(* first and the last one are linked with what is cached around them.        *)

\* The previous chunk, if it is cached and as far away as the second is.
GoodPrev(prev, s) ==
    LET p == Before(prev, s[1])
    IN  IF p # 0 /\ s[1] - p = s[2] - s[1] /\ p \in Cached THEN p ELSE 0

AddFirst(prev, s) ==
    IF s[1] \in Cached THEN [chunks EXCEPT ![s[1]].next = s[2]]
    ELSE LET p == GoodPrev(prev, s) c == With(chunks, s[1], p, s[2])
         IN  IF p # 0 THEN [c EXCEPT ![p].next = s[1]] ELSE c

AddMiddle(c, s) ==
    [t \in DOMAIN c \cup {s[i] : i \in 2 .. Len(s) - 1} |->
        IF \E i \in 2 .. Len(s) - 1 : s[i] = t
        THEN LET i == CHOOSE i \in 2 .. Len(s) - 1 : s[i] = t
             IN  [prev |-> s[i - 1], next |-> s[i + 1]]
        ELSE c[t]]

AddLast(c, s) ==
    LET t == s[Len(s)] p == s[Len(s) - 1] n == NextTsCore(t, p, 0)
    IN  IF t \in DOMAIN c THEN [c EXCEPT ![t].prev = p]
        ELSE LinkAfter(With(c, t, p, 0), n, t)

\* (variant with a fault: the range is appended as it comes)
SortKeysNever(s) == FALSE

SortKeys(s) == keys # <<>> /\ keys[Len(keys)] > s[1]

\* "Only append key if we didn't have this chunk already"
\* (variant with a fault: the keys of the whole range are appended)
NewKeysAll(s) == s

NewKeys(s) == SelectSeq(s, LAMBDA t : t \notin Cached)

AddRange(prev, s) ==
    CASE s = <<>>   -> UNCHANGED <<chunks, keys>>
      [] Len(s) = 1 -> AddOne(prev, s[1])
      [] OTHER      -> /\ chunks' = AddLast(AddMiddle(AddFirst(prev, s), s), s)
                       /\ LET ks == keys \o NewKeys(s)
                          IN  keys' = IF SortKeys(s) THEN Sorted(ks) ELSE ks
-------------------------------------------------------------------------------
Unlinked(t) ==
    [u \in Cached |-> [prev |-> IF u = chunks[t].next THEN 0 ELSE chunks[u].prev,
                       next |-> IF u = chunks[t].prev THEN 0 ELSE chunks[u].next]]

Del(t) ==
    IF t \notin Cached THEN UNCHANGED <<chunks, keys>>
    ELSE LET left == Cached \ {t} c == Unlinked(t)
         IN  chunks' = [u \in left |-> c[u]] /\ keys' = SetToSortSeq(left, <)
-------------------------------------------------------------------------------
(* Search.                                                                   *)

\* A search that gets to a chunk that is not cached dereferences nil, and one that
\* follows the links in a circle does not end: either is marked by Lost at the end of
\* the chunks it has collected.
Lost == 0

\* searchForward stops at `until`, at the end of the links, or at a link that does
\* not lead forward ("suspected bug suppressed").
Forward(from, until) ==
    LET walk[t \in Cached] ==
            IF NextTs(t) >= until \/ chunks[t].next <= t THEN <<t>>
            ELSE <<t>> \o IF chunks[t].next \in Cached THEN walk[chunks[t].next] ELSE <<Lost>>
        first == SeekAsc(from)
    IN  IF first = 0 THEN <<>> ELSE walk[first]

\* searchBackward; a walk that visits more chunks than are cached is in a circle.
Backward(from, until) ==
    LET walk[t \in series.t0s \cup {0}, n \in 0 .. Len(keys)] ==
            IF t = 0 \/ t < from THEN <<>>
            ELSE IF t \notin Cached \/ n = 0 THEN <<Lost>>
            ELSE <<t>> \o walk[chunks[t].prev, n - 1]
    IN  walk[SeekDesc(until - 1), Len(keys)]

Reaches(s, until) == s # <<>> /\ NextTs(s[Len(s)]) >= until

\* Whether Search gets to its end, and what it returns then.
Returns(from, until) ==
    LET start == Forward(from, until)
    IN  /\ Lost \notin ToSet(start)
        /\ Reaches(start, until) \/ Lost \notin ToSet(Backward(from, until))

Search(from, until) ==
    LET start == Forward(from, until)
        hit   == Reaches(start, until)
        end   == IF hit THEN <<>> ELSE Backward(from, until)
        f     == IF start = <<>> THEN from ELSE NextTs(start[Len(start)])
        u     == IF end = <<>> THEN until ELSE end[Len(end)]
    IN  IF ~hit /\ f > u
        THEN [hit |-> FALSE, from |-> from, until |-> until, start |-> <<>>, end |-> <<>>]
        ELSE [hit |-> hit, from |-> f, until |-> u, start |-> start, end |-> end]
===============================================================================
