--------------------------- MODULE AggMetricProofs ---------------------------
(***************************************************************************)
(* Proofs about one series (AggMetric), for every ring size, chunk span,   *)
(* reorder window, queue size and set of timestamps: types, the order of   *)
(* the chunk ring, and that nothing handed out changes afterwards.         *)
(*                                                                         *)
(* The inductive invariant is IInv.  The actions that move the ring have a *)
(* lemma each (AddFirstInv, AddToCurrentInv, CloseCurrentInv, AdvanceInv); *)
(* all others leave the ring and the requests alone and go by RingFrame.   *)
(***************************************************************************)
EXTENDS AggMetric, SequenceTheorems, WellFoundedInduction, TLAPS

\* The T0 of a timestamp is a natural number.
LEMMA T0Nat == ASSUME NEW ts \in Nat PROVE T0(ts) \in Nat
<1> DEFINE q == ts \div ChunkSpan
           m == ts % ChunkSpan
<1>1. m \in Nat /\ q \in Nat /\ ts = ChunkSpan * q + m
  BY AggMetricAssumption
<1> HIDE DEF q, m
<1>2. ChunkSpan * q \in Nat
  BY <1>1, AggMetricAssumption
<1>3. ts - m \in Nat
  BY <1>1, <1>2
<1> QED BY <1>3 DEF T0, m

\* Timestamps, also after the reorder buffer moved them to a boundary, are positive.
LEMMA AlignedNat == Aligned \subseteq Nat \ {0}
<1>1. ASSUME NEW ts \in Timestamps PROVE ROB!AggBoundary(ts, Interval) \in Nat \ {0}
  <2>1. ts \in Nat \ {0}
    BY AggMetricAssumption
  <2>2. (ts - 1) % Interval \in 0 .. Interval - 1
    BY <2>1, AggMetricAssumption
  <2> QED BY <2>1, <2>2, AggMetricAssumption DEF ROB!AggBoundary
<1>2. Timestamps \subseteq Nat \ {0}
  BY AggMetricAssumption
<1> QED BY <1>1, <1>2 DEF Aligned

\* The typed facts about the chunks of a non-empty ring that the other lemmas use.
LEMMA RingFacts ==
  ASSUME TypeOK, RingInv, chunks # <<>>
  PROVE  /\ Len(chunks) \in Nat \ {0}
         /\ currentChunkPos \in Ages
         /\ \A i \in Ages : Chunk(i) \in ChunkType
         /\ Current \in ChunkType
<1>1. Len(chunks) \in Nat \ {0}
  BY EmptySeq DEF TypeOK
<1>2. currentChunkPos \in Ages
  BY <1>1 DEF TypeOK, RingInv, Ages
<1>3. \A i \in Ages : Chunk(i) \in ChunkType
  BY <1>1 DEF TypeOK, Ages, Chunk
<1> QED BY <1>1, <1>2, <1>3 DEF Current

\* Two chunks of the ring never share a T0, and none is ahead of the current one.
LEMMA RingDistinct ==
  ASSUME TypeOK, RingInv, chunks # <<>>
  PROVE  /\ \A i, j \in Ages : Chunk(i).t0 = Chunk(j).t0 => i = j
         /\ \A i \in Ages : Chunk(i).t0 <= Current.t0
<1> USE RingFacts
<1>0. \A i \in Ages : Chunk(i).t0 \in Nat
  BY DEF ChunkType
<1>1. ASSUME NEW i \in Ages, NEW j \in Ages, i # j PROVE Older(i, j) \/ Older(j, i)
  BY <1>1 DEF Older, Ages, TypeOK
<1>2. \A i \in Ages : i # currentChunkPos => Older(i, currentChunkPos)
  BY DEF Older, Ages, TypeOK
<1>3. \A i, j \in Ages : Older(i, j) => Chunk(i).t0 < Chunk(j).t0
  BY DEF RingInv
<1>4. \A i, j \in Ages : Chunk(i).t0 = Chunk(j).t0 => i = j
  BY <1>0, <1>1, <1>3
<1>5. \A i \in Ages : Chunk(i).t0 <= Current.t0
  BY <1>0, <1>2, <1>3 DEF Current
<1> QED BY <1>4, <1>5

\* Finishing the current chunk changes neither the length, nor a T0, nor a point of the ring.
LEMMA FinishedFacts ==
  ASSUME TypeOK, RingInv, chunks # <<>>
  PROVE  /\ Finished \in Seq(ChunkType)
         /\ Len(Finished) = Len(chunks)
         /\ \A i \in Ages : Finished[i + 1] = IF i = currentChunkPos
                                              THEN [Chunk(i) EXCEPT !.finished = TRUE]
                                              ELSE Chunk(i)
<1> DEFINE c == [Current EXCEPT !.finished = TRUE]
<1>1. c \in ChunkType
  BY RingFacts DEF ChunkType
<1>2. currentChunkPos + 1 \in 1 .. Len(chunks)
  BY RingFacts DEF Ages
<1>3. Finished = [chunks EXCEPT ![currentChunkPos + 1] = c]
  BY DEF Finished, Current, Chunk
<1>4. chunks \in Seq(ChunkType)
  BY DEF TypeOK
<1> HIDE DEF c
<1>5. /\ Finished \in Seq(ChunkType) /\ Len(Finished) = Len(chunks)
      /\ \A j \in 1 .. Len(chunks) : Finished[j] = IF j = currentChunkPos + 1 THEN c ELSE chunks[j]
  BY <1>1, <1>2, <1>3, <1>4, ExceptSeq
<1>6. ASSUME NEW i \in Ages
      PROVE Finished[i + 1] = IF i = currentChunkPos
                              THEN [Chunk(i) EXCEPT !.finished = TRUE] ELSE Chunk(i)
  <2>1. i + 1 \in 1 .. Len(chunks) /\ (i + 1 = currentChunkPos + 1 <=> i = currentChunkPos)
    BY RingFacts DEF Ages
  <2> QED BY <1>5, <2>1 DEF c, Chunk, Current
<1> QED BY <1>5, <1>6

\* A non-empty set of naturals has a least element.
LEMMA LeastNat ==
  ASSUME NEW T, T \subseteq Nat, T # {}
  PROVE  \E k \in T : \A j \in T : ~(j < k)
<1> DEFINE R == {ss \in Nat \X Nat : ss[1] < ss[2]}
<1>1. IsWellFoundedOn(R, Nat)
  BY NatLessThanWellFounded, Zenon DEF OpToRel
<1>2. \E k \in T : \A j \in T : ~(<<j, k>> \in R)
  <2> HIDE DEF R
  <2> QED BY <1>1, WFMin
<1>3. \A j, k \in Nat : j < k => <<j, k>> \in R
  OBVIOUS
<1> HIDE DEF R
<1> QED BY <1>2, <1>3

\* The walk of persist stops before it is round the ring.
LEMMA OlderUnsavedType ==
  ASSUME TypeOK, RingInv, chunks # <<>>
  PROVE  OlderUnsaved \in 0 .. Len(chunks) - 1
<1> DEFINE n == Len(chunks)
           Stops == {k \in 0 .. n - 1 : ~NeedsSaving(k + 1)}
<1>1. n \in Nat \ {0} /\ currentChunkPos \in 0 .. n - 1
  BY RingFacts DEF Ages
<1>2. (currentChunkPos - n) % n = currentChunkPos
  BY <1>1
<1>3. ~NeedsSaving(n)
  <2>1. Current.t0 \in Nat
    BY RingFacts DEF ChunkType
  <2> QED BY <1>2, <2>1 DEF NeedsSaving, Prev, Current
<1>4. n - 1 \in Stops
  BY <1>1, <1>3
<1>5. Stops \subseteq Nat /\ Stops # {}
  <2>1. 0 .. n - 1 \subseteq Nat
    BY <1>1
  <2> QED BY <1>4, <2>1
<1>6. PICK k \in Stops : \A j \in Stops : ~(j < k)
  <2> HIDE DEF Stops
  <2> QED BY <1>5, LeastNat
<1>7. \A j \in 1 .. k : NeedsSaving(j)
  <2> SUFFICES ASSUME NEW j \in 1 .. k, ~NeedsSaving(j) PROVE FALSE
    OBVIOUS
  <2>1. j - 1 \in 0 .. n - 1 /\ (j - 1) + 1 = j /\ j - 1 < k
    BY <1>1
  <2> QED BY <2>1, <1>6
<1>8. \E m \in 0 .. n - 1 : (\A j \in 1 .. m : NeedsSaving(j)) /\ ~NeedsSaving(m + 1)
  BY <1>7
<1> QED BY <1>8 DEF OlderUnsaved

\* Every request persist makes is for a chunk of the ring, with its points.
LEMMA WriteRequestsFacts ==
  ASSUME TypeOK, RingInv, chunks # <<>>
  PROVE  /\ WriteRequests \in Seq(RequestType)
         /\ \A r \in ToSet(WriteRequests) : \E i \in Ages : r = Request(Chunk(i))
<1> DEFINE n == OlderUnsaved + 1
<1>1. n \in Nat /\ OlderUnsaved \in Nat
  BY OlderUnsavedType, RingFacts
<1>2. ASSUME NEW k \in Int PROVE (currentChunkPos - k) % Len(chunks) \in Ages
  BY RingFacts DEF Ages
<1>3. ASSUME NEW i \in 1 .. n
      PROVE  \E a \in Ages : WriteRequests[i] = Request(Chunk(a))
  <2>1. i \in Int /\ OlderUnsaved + 1 - i \in Int
    BY <1>1
  <2>2. Prev(OlderUnsaved + 1 - i) = Chunk((currentChunkPos - (OlderUnsaved + 1 - i)) % Len(chunks))
    BY DEF Prev
  <2> QED BY <1>2, <2>1, <2>2 DEF WriteRequests
<1>4. \A a \in Ages : Request(Chunk(a)) \in RequestType
  BY RingFacts DEF Request, RequestType, ChunkType
<1>5. DOMAIN WriteRequests = 1 .. n
  BY DEF WriteRequests
<1>6. WriteRequests \in [1 .. n -> RequestType]
  <2>1. \A i \in 1 .. n : WriteRequests[i] \in RequestType
    BY <1>3, <1>4
  <2>2. WriteRequests = [i \in 1 .. n |-> WriteRequests[i]]
    BY DEF WriteRequests
  <2> QED BY <2>1, <2>2
<1>7. WriteRequests \in Seq(RequestType)
  <2> HIDE DEF n
  <2> QED BY <1>1, <1>6
<1> QED BY <1>3, <1>5, <1>7 DEF ToSet

\* Taking the oldest request off a queue: it and what is left were in the queue.
LEMMA HeadTailSet ==
  ASSUME NEW S, NEW s \in Seq(S), s # <<>>
  PROVE  /\ Head(s) \in ToSet(s) /\ ToSet(Tail(s)) \subseteq ToSet(s)
         /\ Head(s) \in S /\ Tail(s) \in Seq(S) /\ Len(Tail(s)) = Len(s) - 1
<1>1. Len(s) \in Nat \ {0} /\ Head(s) = s[1]
  BY EmptySeq
<1>2. /\ Head(s) \in S /\ Tail(s) \in Seq(S) /\ Len(Tail(s)) = Len(s) - 1
      /\ \A i \in 1 .. Len(Tail(s)) : Tail(s)[i] = s[i + 1]
  BY HeadTailProperties
<1>3. \A i \in 1 .. Len(Tail(s)) : i + 1 \in 1 .. Len(s)
  BY <1>1, <1>2
<1>4. DOMAIN s = 1 .. Len(s) /\ DOMAIN Tail(s) = 1 .. Len(Tail(s))
  BY <1>2, LenProperties
<1> QED BY <1>1, <1>2, <1>3, <1>4 DEF ToSet

\* Appending a request adds that request only.
LEMMA AppendSet ==
  ASSUME NEW S, NEW s \in Seq(S), NEW e \in S
  PROVE  /\ ToSet(Append(s, e)) \subseteq ToSet(s) \cup {e}
         /\ Append(s, e) \in Seq(S) /\ Len(Append(s, e)) = Len(s) + 1
<1>1. Len(s) \in Nat /\ DOMAIN s = 1 .. Len(s)
  BY LenProperties
<1>2. /\ Append(s, e) \in Seq(S) /\ Len(Append(s, e)) = Len(s) + 1
      /\ \A i \in 1 .. Len(s) : Append(s, e)[i] = s[i]
      /\ Append(s, e)[Len(s) + 1] = e
  BY AppendProperties
<1>3. DOMAIN Append(s, e) = 1 .. Len(s) + 1
  BY <1>2, LenProperties
<1> QED BY <1>1, <1>2, <1>3 DEF ToSet

\* Steps that leave the ring alone and make no new request.
LEMMA RingFrame ==
  ASSUME IInv, UNCHANGED <<chunks, currentChunkPos>>,
         Requests' \subseteq Requests, pushed' = pushed,
         lock' = "saving" => lock = "saving",
         cur' = cur, cur # 0 => lock' = "saving"
  PROVE  RingInv' /\ PersistedFinal' /\ SavePhase'
<1>1. /\ Ages' = Ages /\ Current' = Current
      /\ \A i \in Ages : Chunk(i)' = Chunk(i)
  BY DEF Ages, Current, Chunk
<1>2. RingInv'
  BY DEF IInv, RingInv, Ages, Chunk, Older
<1>3. PersistedFinal'
  BY <1>1 DEF IInv, PersistedFinal
<1>4. SavePhase'
  BY <1>1 DEF IInv, SavePhase, T0
<1> QED BY <1>2, <1>3, <1>4

\* Closing the current chunk: whatever is handed out is final.
LEMMA CloseCurrentInv ==
  ASSUME IInv, CloseCurrent, chunks # <<>>, UNCHANGED <<queue, stored>>,
         cur' = cur \/ (cur' \in Nat \ {0} /\ T0(cur') > Current.t0)
  PROVE  /\ chunks' \in Seq(ChunkType) /\ Len(chunks') <= NumChunks
         /\ pending' \in Seq(RequestType) /\ pushed' \subseteq RequestType
         /\ newVal' \in [Bumpers -> Nat]
         /\ RingInv' /\ PersistedFinal' /\ SavePhase'
<1> USE DEF IInv
<1>1. /\ chunks' \in Seq(ChunkType) /\ Len(chunks') = Len(chunks)
      /\ Ages' = Ages /\ currentChunkPos' = currentChunkPos
      /\ \A i \in Ages : Chunk(i)' = IF i = currentChunkPos
                                     THEN [Chunk(i) EXCEPT !.finished = TRUE]
                                     ELSE Chunk(i)
  BY FinishedFacts DEF CloseCurrent, Ages, Chunk
<1>2. \A i \in Ages : /\ Chunk(i)'.t0 = Chunk(i).t0 /\ Chunk(i)'.pts = Chunk(i).pts
                      /\ Chunk(i)'.finished
  BY <1>1, RingFacts DEF ChunkType, RingInv
<1>3. chunks' # <<>>
  BY <1>1, RingFacts, EmptySeq
<1>4. currentChunkPos \in Ages /\ Current'.t0 = Current.t0 /\ Current'.finished
  <2>1. Current' = Chunk(currentChunkPos)'
    BY <1>1 DEF Current, Chunk
  <2> QED BY <1>1, <1>2, <2>1, RingFacts DEF Current
<1>5. RingInv'
  <2>1. \A i, j \in Ages : Older(i, j)' <=> Older(i, j)
    BY <1>1 DEF Older
  <2> QED BY <1>1, <1>2, <1>3, <2>1 DEF RingInv
<1>6. /\ pending' = pending \/ pending' = WriteRequests
      /\ newVal' = newVal \/ newVal' = [newVal EXCEPT !["holder"] = Current.t0]
  BY DEF CloseCurrent, Persist, StartBump
<1>7. \A r \in Requests' \cup pushed' :
         r \in Requests \cup pushed \/ \E i \in Ages : r = Request(Chunk(i))
  <2>1. \A r \in ToSet(pending') : r \in ToSet(pending) \/ \E i \in Ages : r = Request(Chunk(i))
    BY <1>6, WriteRequestsFacts
  <2>2. \A r \in pushed' : r \in pushed \/ \E i \in Ages : r = Request(Chunk(i))
    BY <1>4 DEF CloseCurrent, Current
  <2>3. Requests' = stored \cup ToSet(queue) \cup ToSet(pending')
    BY DEF Requests, ToSet
  <2> QED BY <2>1, <2>2, <2>3 DEF Requests
<1>8. PersistedFinal'
  <2> SUFFICES ASSUME NEW r \in Requests' \cup pushed', NEW i \in Ages,
                      Chunk(i)'.t0 = r.t0
               PROVE  Chunk(i)'.finished /\ Chunk(i)'.pts = r.pts
    BY <1>1 DEF PersistedFinal
  <2>1. CASE r \in Requests \cup pushed
    BY <1>2, <2>1 DEF PersistedFinal
  <2>2. ASSUME NEW j \in Ages, r = Request(Chunk(j))
        PROVE  Chunk(i)'.finished /\ Chunk(i)'.pts = r.pts
    BY <1>2, <2>2, RingDistinct DEF Request
  <2> QED BY <1>7, <2>1, <2>2
<1>9. SavePhase'
  <2>1. \A r \in Requests' \cup pushed' : r.t0 <= Current'.t0
    <3> SUFFICES ASSUME NEW r \in Requests' \cup pushed' PROVE r.t0 <= Current.t0
      BY <1>4
    <3>1. CASE r \in Requests \cup pushed
      BY <3>1 DEF SavePhase
    <3>2. ASSUME NEW j \in Ages, r = Request(Chunk(j)) PROVE r.t0 <= Current.t0
      BY <3>2, RingDistinct DEF Request
    <3> QED BY <1>7, <3>1, <3>2
  <2>2. lock' = "saving"
    BY DEF CloseCurrent
  <2>3. cur' # 0 => T0(cur') > Current'.t0
    BY <1>4 DEF SavePhase
  <2> QED BY <1>3, <1>4, <2>1, <2>2, <2>3 DEF SavePhase, T0
<1>10. pending' \in Seq(RequestType)
  BY <1>6, WriteRequestsFacts DEF TypeOK
<1>11. pushed' \subseteq RequestType
  <2>1. Request(Current) \in RequestType
    BY RingFacts DEF Request, RequestType, ChunkType
  <2> QED BY <2>1 DEF CloseCurrent, TypeOK
<1>12. newVal' \in [Bumpers -> Nat]
  <2>1. Current.t0 \in Nat
    BY RingFacts DEF ChunkType
  <2> QED BY <1>6, <2>1 DEF TypeOK
<1>13. Len(chunks') <= NumChunks
  BY <1>1 DEF TypeOK
<1> QED BY <1>1, <1>5, <1>8, <1>9, <1>10, <1>11, <1>12, <1>13

\* The first point of a series: nothing was handed out before it.
LEMMA AddFirstInv ==
  ASSUME IInv, NEW ts \in Nat \ {0}, AddFirst(ts), lock = "adding", UNCHANGED <<queue, stored>>
  PROVE  /\ chunks' \in Seq(ChunkType) /\ Len(chunks') <= NumChunks
         /\ newVal' \in [Bumpers -> Nat]
         /\ RingInv' /\ PersistedFinal' /\ SavePhase'
<1>a. /\ TypeOK /\ RingInv /\ SavePhase
      /\ chunks = <<>> /\ chunks' = <<NewChunk(ts, TRUE)>>
      /\ newVal' = newVal \/ newVal' = [newVal EXCEPT !["holder"] = T0(ts)]
      /\ UNCHANGED <<currentChunkPos, lock, cur, pending, pushed>>
  BY DEF IInv, AddFirst, StartBump
<1>1. NewChunk(ts, TRUE) \in ChunkType
  BY T0Nat DEF NewChunk, ChunkType
<1>2. chunks' \in Seq(ChunkType) /\ Len(chunks') = 1 /\ chunks' # <<>>
  <2>1. PICK c \in ChunkType : chunks' = <<c>>
    BY <1>1, <1>a
  <2> QED BY <2>1
<1>3. Ages' = {0}
  BY <1>2 DEF Ages
<1>4. currentChunkPos' = 0
  BY <1>a, EmptySeq, AggMetricAssumption DEF RingInv
<1>5. Requests' \cup pushed' = {}
  BY <1>a DEF SavePhase, Requests, ToSet
<1>6. RingInv'
  BY <1>2, <1>3, <1>4 DEF RingInv, Older
<1>7. PersistedFinal' /\ SavePhase'
  BY <1>2, <1>5, <1>a DEF PersistedFinal, SavePhase
<1>8. newVal' \in [Bumpers -> Nat]
  BY <1>a, T0Nat DEF TypeOK
<1> QED BY <1>2, <1>6, <1>7, <1>8, AggMetricAssumption

\* A point in the current chunk: that chunk is not finished, so it was not handed out.
LEMMA AddToCurrentInv ==
  ASSUME IInv, NEW ts \in Nat \ {0}, AddToCurrent(ts), lock = "adding", UNCHANGED <<queue, stored>>
  PROVE  /\ chunks' \in Seq(ChunkType) /\ Len(chunks') <= NumChunks
         /\ RingInv' /\ PersistedFinal' /\ SavePhase'
<1> DEFINE c == [Current EXCEPT !.pts = @ \cup {ts}]
<1>a. /\ TypeOK /\ RingInv /\ PersistedFinal /\ SavePhase
      /\ chunks # <<>> /\ ~Current.finished
      /\ chunks' = [chunks EXCEPT ![currentChunkPos + 1] = c]
      /\ UNCHANGED <<currentChunkPos, lock, cur, pending, pushed>>
  BY DEF IInv, AddToCurrent, Pushable, Current, Chunk
<1>1. /\ c \in ChunkType /\ c.t0 = Current.t0 /\ c.finished = Current.finished
  BY <1>a, RingFacts DEF ChunkType
<1>2. currentChunkPos + 1 \in 1 .. Len(chunks)
  BY <1>a, RingFacts DEF Ages
<1> HIDE DEF c
<1>3. /\ chunks' \in Seq(ChunkType) /\ Len(chunks') = Len(chunks)
      /\ \A j \in 1 .. Len(chunks) : chunks'[j] = IF j = currentChunkPos + 1 THEN c ELSE chunks[j]
  <2>1. chunks \in Seq(ChunkType)
    BY <1>a DEF TypeOK
  <2> QED BY <1>1, <1>2, <1>a, <2>1, ExceptSeq
<1>4. Ages' = Ages /\ currentChunkPos' = currentChunkPos /\ currentChunkPos \in Ages
  BY <1>3, <1>a, RingFacts DEF Ages
<1>5. \A i \in Ages : Chunk(i)' = IF i = currentChunkPos THEN c ELSE Chunk(i)
  <2> SUFFICES ASSUME NEW i \in Ages
               PROVE  chunks'[i + 1] = IF i = currentChunkPos THEN c ELSE chunks[i + 1]
    BY DEF Chunk
  <2>1. i + 1 \in 1 .. Len(chunks) /\ (i + 1 = currentChunkPos + 1 <=> i = currentChunkPos)
    BY <1>a, <1>4, RingFacts DEF Ages
  <2> QED BY <1>3, <2>1
<1>6. \A i \in Ages : Chunk(i)'.t0 = Chunk(i).t0 /\ Chunk(i)'.finished = Chunk(i).finished
  BY <1>1, <1>5 DEF Current
<1>7. chunks' # <<>> /\ Current'.t0 = Current.t0
  <2>1. Current' = Chunk(currentChunkPos)'
    BY <1>4 DEF Current, Chunk
  <2>2. Len(chunks') # 0
    BY <1>3, <1>a, RingFacts
  <2> QED BY <1>4, <1>6, <2>1, <2>2, EmptySeq DEF Current
<1>8. RingInv'
  <2>1. \A i, j \in Ages : Older(i, j)' <=> Older(i, j)
    BY <1>4 DEF Older
  <2> QED BY <1>3, <1>4, <1>6, <1>7, <1>a, <2>1 DEF RingInv
<1>9. Requests' = Requests /\ pushed' = pushed
  BY <1>a DEF Requests, ToSet
<1>10. PersistedFinal'
  <2> SUFFICES ASSUME NEW r \in Requests \cup pushed, NEW i \in Ages, Chunk(i)'.t0 = r.t0
               PROVE  Chunk(i)'.finished /\ Chunk(i)'.pts = r.pts
    BY <1>4, <1>9 DEF PersistedFinal
  <2>1. Chunk(i).finished /\ Chunk(i).pts = r.pts
    BY <1>6, <1>a DEF PersistedFinal
  <2>2. i # currentChunkPos
    BY <2>1, <1>a DEF Current
  <2> QED BY <1>5, <2>1, <2>2
<1>11. SavePhase'
  BY <1>7, <1>9, <1>a DEF SavePhase
<1> QED BY <1>3, <1>8, <1>10, <1>11, <1>a DEF TypeOK

\* What is stored, queued, pending or pushed are requests with a natural T0.
LEMMA RequestT0 ==
  ASSUME TypeOK
  PROVE  \A r \in Requests \cup pushed : r \in RequestType /\ r.t0 \in Nat
<1>1. Requests \cup pushed \subseteq RequestType
  BY DEF TypeOK, Requests, ToSet
<1> QED BY <1>1 DEF RequestType

\* Advancing in the ring: the new chunk is ahead of every chunk and every request.
LEMMA AdvanceInv ==
  ASSUME IInv, Advance
  PROVE  /\ chunks' \in Seq(ChunkType) /\ Len(chunks') <= NumChunks
         /\ currentChunkPos' \in 0 .. NumChunks - 1
         /\ RingInv' /\ PersistedFinal' /\ SavePhase'
<1> DEFINE c == NewChunk(cur, FALSE)
<1>0. chunks # <<>> /\ Current.finished /\ T0(cur) > Current.t0 /\ cur \in Nat
  BY DEF IInv, Advance, SavePhase, Saved, TypeOK
<1>a. TypeOK /\ RingInv /\ PersistedFinal /\ SavePhase
  BY DEF IInv
<1>b. /\ chunks' = IF Len(chunks) < NumChunks THEN Append(chunks, c)
                   ELSE [chunks EXCEPT ![NextPos + 1] = c]
      /\ currentChunkPos' = NextPos /\ cur' = 0 /\ lock' = "adding"
      /\ UNCHANGED <<pending, pushed, queue, stored>>
  BY DEF Advance, envVars
<1>1. c \in ChunkType /\ c.t0 = T0(cur)
  BY <1>0, T0Nat DEF NewChunk, ChunkType
<1>2. \A i \in Ages : Chunk(i) \in ChunkType /\ Chunk(i).t0 < c.t0 /\ Chunk(i).finished
  <2>1. \A i \in Ages : Chunk(i) \in ChunkType
    BY <1>0, <1>a, RingFacts
  <2>2. \A i \in Ages : Chunk(i).t0 < c.t0
    <3>1. \A i \in Ages : Chunk(i).t0 <= Current.t0 /\ Chunk(i).t0 \in Nat
      BY <1>0, <1>a, <2>1, RingDistinct DEF ChunkType
    <3>2. Current.t0 \in Nat
      BY <1>0, <1>a, RingFacts DEF ChunkType
    <3>3. T0(cur) \in Nat
      BY <1>0, T0Nat
    <3> HIDE DEF c
    <3> QED BY <1>0, <1>1, <3>1, <3>2, <3>3
  <2>3. \A i \in Ages : Chunk(i).finished
    BY <1>0, <1>a DEF RingInv, Current
  <2> QED BY <2>1, <2>2, <2>3
<1>3. Len(chunks) \in Nat \ {0} /\ currentChunkPos \in Ages /\ Len(chunks) <= NumChunks
  BY <1>0, <1>a, RingFacts DEF TypeOK
<1> HIDE DEF c
<1>c. PICK p \in 0 .. NumChunks - 1 : p = NextPos
  BY <1>3, AggMetricAssumption DEF NextPos, Ages
<1>4. /\ chunks' \in Seq(ChunkType) /\ Len(chunks') \in Nat \ {0} /\ Len(chunks') <= NumChunks
      /\ currentChunkPos' \in Ages' /\ currentChunkPos' = p
      /\ Len(chunks') < NumChunks => currentChunkPos' = Len(chunks') - 1
      /\ Chunk(p)' = c
      /\ \A i \in Ages' : i # p => i \in Ages /\ Chunk(i)' = Chunk(i)
      /\ \A i, j \in Ages' : i # p /\ j # p /\ Older(i, j)' => Older(i, j)
      /\ \A j \in Ages' : ~Older(p, j)'
  <2>1. CASE Len(chunks) < NumChunks
    <3>1. currentChunkPos = Len(chunks) - 1 /\ p = Len(chunks)
      BY <1>0, <1>3, <1>a, <1>c, <2>1, AggMetricAssumption DEF RingInv, NextPos
    <3>2. chunks' = Append(chunks, c)
      BY <1>b, <2>1
    <3>3. /\ chunks' \in Seq(ChunkType) /\ Len(chunks') = Len(chunks) + 1
          /\ \A i \in 1 .. Len(chunks) : chunks'[i] = chunks[i]
          /\ chunks'[Len(chunks) + 1] = c
      BY <1>1, <1>a, <3>2, AppendProperties DEF TypeOK
    <3>4. Ages' = 0 .. Len(chunks) /\ Ages = 0 .. Len(chunks) - 1
      BY <1>3, <3>3 DEF Ages
    <3>5. \A i \in Ages' : i # p => i \in Ages /\ Chunk(i)' = Chunk(i)
      BY <1>3, <3>1, <3>3, <3>4 DEF Chunk
    <3>6. \A i, j \in Ages' : i # p /\ j # p /\ Older(i, j)' => Older(i, j)
      BY <1>3, <1>b, <1>c, <3>1, <3>4 DEF Older
    <3>7. \A j \in Ages' : ~Older(p, j)'
      BY <1>3, <1>b, <1>c, <3>1, <3>4 DEF Older
    <3>8. Chunk(p)' = c
      BY <3>1, <3>3 DEF Chunk
    <3>9. /\ Len(chunks') \in Nat \ {0} /\ Len(chunks') <= NumChunks
          /\ currentChunkPos' \in Ages' /\ currentChunkPos' = p
          /\ currentChunkPos' = Len(chunks') - 1
      BY <1>3, <1>b, <1>c, <2>1, <3>1, <3>3, <3>4, AggMetricAssumption
    <3> QED BY <3>3, <3>5, <3>6, <3>7, <3>8, <3>9
  <2>2. CASE Len(chunks) = NumChunks
    <3>1. p \in Ages /\ p = IF currentChunkPos + 1 >= Len(chunks) THEN 0 ELSE currentChunkPos + 1
      BY <1>3, <1>c, <2>2 DEF NextPos, Ages
    <3>2. chunks' = [chunks EXCEPT ![p + 1] = c] /\ p + 1 \in 1 .. Len(chunks)
      BY <1>3, <1>b, <1>c, <2>2, <3>1 DEF Ages
    <3>3. /\ chunks' \in Seq(ChunkType) /\ Len(chunks') = Len(chunks)
          /\ \A j \in 1 .. Len(chunks) : chunks'[j] = IF j = p + 1 THEN c ELSE chunks[j]
      BY <1>1, <1>a, <3>2, ExceptSeq DEF TypeOK
    <3>4. Ages' = Ages /\ Ages = 0 .. Len(chunks) - 1
      BY <3>3 DEF Ages
    <3>5. \A i \in Ages' : i # p => i \in Ages /\ Chunk(i)' = Chunk(i)
      BY <1>3, <3>1, <3>3, <3>4 DEF Chunk
    <3>6. \A i, j \in Ages' : i # p /\ j # p /\ Older(i, j)' => Older(i, j)
      BY <1>3, <1>b, <1>c, <3>1, <3>4 DEF Older
    <3>7. \A j \in Ages' : ~Older(p, j)'
      BY <1>3, <1>b, <1>c, <3>1, <3>4 DEF Older
    <3>8. Chunk(p)' = c
      BY <1>3, <3>1, <3>2, <3>3 DEF Chunk
    <3> QED BY <1>3, <1>b, <1>c, <2>2, <3>1, <3>3, <3>4, <3>5, <3>6, <3>7, <3>8, AggMetricAssumption
  <2> QED BY <1>3, <2>1, <2>2, AggMetricAssumption
<1>5. chunks' # <<>> /\ Current' = c
  <2>1. chunks' # <<>>
    BY <1>4, EmptySeq
  <2> QED BY <1>4, <2>1 DEF Current, Chunk
<1>6. RingInv'
  <2>1. ASSUME NEW i \in Ages', NEW j \in Ages', Older(i, j)'
        PROVE  Chunk(i)'.t0 < Chunk(j)'.t0
    <3>1. i # p /\ i \in Ages /\ Chunk(i)' = Chunk(i)
      BY <1>4, <2>1
    <3>2. CASE j = p
      BY <1>2, <1>4, <3>1, <3>2
    <3>3. CASE j # p
      BY <1>4, <1>a, <2>1, <3>1, <3>3 DEF RingInv
    <3> QED BY <3>2, <3>3
  <2>2. \A i \in Ages' : i # currentChunkPos' => Chunk(i)'.finished
    BY <1>2, <1>4
  <2>3. currentChunkPos' < Len(chunks')
    BY <1>4 DEF Ages
  <2> QED BY <1>4, <1>5, <2>1, <2>2, <2>3 DEF RingInv
<1>7. Requests' = Requests /\ pushed' = pushed
  BY <1>b DEF Requests, ToSet
<1>8. \A r \in Requests \cup pushed : r.t0 < c.t0
  <2> SUFFICES ASSUME NEW r \in Requests \cup pushed PROVE r.t0 < c.t0
    OBVIOUS
  <2>1. r.t0 <= Current.t0
    BY <1>a DEF SavePhase
  <2>2. r.t0 \in Nat
    BY <1>a, RequestT0
  <2>3. Current.t0 < c.t0 /\ Current.t0 \in Nat /\ c.t0 \in Nat
    BY <1>1, <1>2, <1>3 DEF Current, ChunkType
  <2> QED BY <2>1, <2>2, <2>3
<1>9. PersistedFinal'
  <2> SUFFICES ASSUME NEW r \in Requests \cup pushed, NEW i \in Ages', Chunk(i)'.t0 = r.t0
               PROVE  Chunk(i)'.finished /\ Chunk(i)'.pts = r.pts
    BY <1>7 DEF PersistedFinal
  <2>0. r.t0 \in Nat /\ c.t0 \in Nat
    BY <1>1, <1>a, RequestT0 DEF ChunkType
  <2>1. i # p
    BY <1>4, <1>8, <2>0
  <2> QED BY <1>4, <1>a, <2>1 DEF PersistedFinal
<1>10. SavePhase'
  <2>1. \A r \in Requests \cup pushed : r.t0 <= c.t0
    BY <1>1, <1>8, <1>a, RequestT0 DEF ChunkType
  <2> QED BY <1>5, <1>7, <1>b, <2>1 DEF SavePhase
<1> QED BY <1>4, <1>6, <1>9, <1>10, <1>c

\* A new series, without chunks, satisfies the invariant.
LEMMA InitIInv == Init => IInv
<1> SUFFICES ASSUME Init PROVE IInv
  OBVIOUS
<1>0. Start \in Nat /\ QueueSize \in Nat /\ NumChunks \in Nat \ {0}
  BY AggMetricAssumption
<1>1. TypeOK
  BY <1>0 DEF Init, TypeOK
<1>2. Requests \cup pushed = {} /\ Ages = {}
  BY DEF Init, Requests, ToSet, Ages
<1>3. RingInv
  BY <1>2 DEF Init, RingInv
<1> QED BY <1>1, <1>2, <1>3 DEF Init, IInv, PersistedFinal, SavePhase

\* One swap of AtomicBump: only lastSaveStart and the caller's local change.
LEMMA BumpStepInv == ASSUME IInv, NEW b \in Bumpers, BumpStep(b) PROVE IInv'
<1>1. /\ newVal' \in [Bumpers -> Nat] /\ lastSaveStart' \in Nat
  BY DEF IInv, TypeOK, BumpStep, Bump!Swap
<1>2. UNCHANGED <<chunks, currentChunkPos, firstTs, lastWrite, lock, cur, gcNow, tmpLastWrite,
                  pending, pushed, queue, stored, primary, remote, now>>
  BY DEF BumpStep, ringVars, gcVars, envVars
<1>3. TypeOK'
  BY <1>1, <1>2 DEF IInv, TypeOK
<1>4. Requests' = Requests
  BY <1>2 DEF Requests, ToSet
<1> QED BY <1>2, <1>3, <1>4, RingFrame DEF IInv, SavePhase

\* add of one point.
LEMMA AddNextInv == ASSUME IInv, NEW ts \in Aligned, AddNext(ts) PROVE IInv'
<1>1. ts \in Nat \ {0}
  BY AlignedNat
<1>2. TypeOK /\ RingInv /\ PersistedFinal /\ SavePhase
  BY DEF IInv
<1>3. /\ lock = "adding" /\ UNCHANGED <<gcNow, tmpLastWrite, queue, stored, primary, remote, now>>
  BY DEF AddNext, Take, gcVars, envVars
<1>4. CASE AddFirst(ts)
  <2>1. firstTs' = ts /\ lastWrite' = now /\ UNCHANGED <<currentChunkPos, lastSaveStart, lock, cur, pending, pushed>>
    BY <1>4 DEF AddFirst
  <2> QED BY <1>1, <1>2, <1>3, <1>4, <2>1, AddFirstInv DEF IInv, TypeOK
<1>5. CASE AddToCurrent(ts)
  <2>1. lastWrite' = now /\ UNCHANGED <<currentChunkPos, firstTs, lastSaveStart, newVal, lock, cur, pending, pushed>>
    BY <1>5 DEF AddToCurrent, saveVars
  <2> QED BY <1>1, <1>2, <1>3, <1>5, <2>1, AddToCurrentInv DEF IInv, TypeOK
<1>6. CASE AddDiscard(ts)
  <2>1. UNCHANGED <<chunks, currentChunkPos, firstTs, lastWrite, lastSaveStart, newVal, lock, cur, pending, pushed>>
    BY <1>6 DEF AddDiscard, saveVars, ringVars
  <2>2. TypeOK'
    BY <1>2, <1>3, <2>1 DEF TypeOK
  <2>3. Requests' = Requests
    BY <1>3, <2>1 DEF Requests, ToSet
  <2> QED BY <1>2, <1>3, <2>1, <2>2, <2>3, RingFrame DEF IInv, SavePhase
<1>7. CASE AddNewChunk(ts)
  <2>1. /\ chunks # <<>> /\ CloseCurrent /\ cur' = ts /\ T0(ts) > Current.t0 /\ lock' = "saving"
        /\ UNCHANGED <<currentChunkPos, firstTs, lastSaveStart, lastWrite>>
    BY <1>7 DEF AddNewChunk, CloseCurrent, OpensChunk
  <2>2. cur' \in Nat \ {0} /\ T0(cur') > Current.t0
    BY <1>1, <2>1
  <2> QED BY <1>1, <1>2, <1>3, <2>1, <2>2, CloseCurrentInv DEF IInv, TypeOK
<1> QED BY <1>4, <1>5, <1>6, <1>7 DEF AddNext

\* The other steps of the lock holder.
LEMMA HolderInv == ASSUME IInv, Holder PROVE IInv'
<1>0. TypeOK /\ RingInv /\ PersistedFinal /\ SavePhase
  BY DEF IInv
<1>1. CASE StoreAdd
  <2>1. /\ pending # <<>> /\ Len(queue) < QueueSize
        /\ queue' = Append(queue, Head(pending)) /\ pending' = Tail(pending)
        /\ UNCHANGED <<chunks, currentChunkPos, firstTs, lastWrite, lastSaveStart, newVal, lock, cur,
                       gcNow, tmpLastWrite, pushed, stored, primary, remote, now>>
    BY <1>1 DEF StoreAdd, ringVars, saveVars, gcVars
  <2>2. /\ pending \in Seq(RequestType) /\ queue \in Seq(RequestType)
    BY <1>0 DEF TypeOK
  <2>3. /\ pending' \in Seq(RequestType) /\ Head(pending) \in RequestType
        /\ ToSet(Tail(pending)) \subseteq ToSet(pending) /\ Head(pending) \in ToSet(pending)
    BY <2>1, <2>2, HeadTailSet
  <2>4. /\ queue' \in Seq(RequestType) /\ Len(queue') = Len(queue) + 1
        /\ ToSet(Append(queue, Head(pending))) \subseteq ToSet(queue) \cup {Head(pending)}
    BY <2>1, <2>2, <2>3, AppendSet
  <2>5. Len(queue') <= QueueSize
    <3>1. Len(queue) \in Nat /\ QueueSize \in Nat
      BY <2>2, LenProperties, AggMetricAssumption
    <3> QED BY <2>1, <2>4, <3>1
  <2>6. Requests' \subseteq Requests
    <3>1. Requests' = stored \cup ToSet(Append(queue, Head(pending))) \cup ToSet(Tail(pending))
      BY <2>1 DEF Requests, ToSet
    <3> QED BY <2>3, <2>4, <3>1 DEF Requests
  <2>7. TypeOK'
    BY <1>0, <2>1, <2>3, <2>4, <2>5 DEF TypeOK
  <2> QED BY <1>0, <2>1, <2>6, <2>7, RingFrame DEF IInv, SavePhase
<1>2. CASE Advance
  <2>1. /\ lastWrite' = now /\ cur' = 0 /\ lock' = "adding"
        /\ UNCHANGED <<firstTs, lastSaveStart, newVal, gcNow, tmpLastWrite, pending, pushed,
                       queue, stored, primary, remote, now>>
    BY <1>2 DEF Advance, saveVars, gcVars, envVars
  <2> QED BY <1>0, <1>2, <2>1, AdvanceInv DEF IInv, TypeOK
<1>3. CASE AddReturn \/ GCReturn \/ GCClosed
  <2>1. /\ lock' = "free" /\ gcNow' = 0 /\ tmpLastWrite' = 0 /\ cur = 0
        /\ lastWrite' = lastWrite \/ lastWrite' = tmpLastWrite
        /\ UNCHANGED <<chunks, currentChunkPos, firstTs, lastSaveStart, newVal, cur, pending, pushed,
                       queue, stored, primary, remote, now>>
    BY <1>0, <1>3 DEF AddReturn, GCReturn, GCClosed, Release, AddsDone, SavePhase,
                      ringVars, saveVars, envVars
  <2>2. TypeOK'
    BY <1>0, <2>1 DEF TypeOK
  <2>3. Requests' = Requests
    BY <2>1 DEF Requests, ToSet
  <2> QED BY <1>0, <2>1, <2>2, <2>3, RingFrame DEF IInv
<1>4. CASE GCClose
  <2>1. /\ chunks # <<>> /\ CloseCurrent /\ cur' = cur /\ lock' = "saving" /\ lastWrite' = tmpLastWrite
        /\ UNCHANGED <<currentChunkPos, firstTs, lastSaveStart, gcNow, tmpLastWrite,
                       queue, stored, primary, remote, now>>
    BY <1>4 DEF GCClose, Closable, CloseCurrent, gcVars, envVars
  <2> QED BY <1>0, <2>1, CloseCurrentInv DEF IInv, TypeOK
<1> QED BY <1>1, <1>2, <1>3, <1>4, AddNextInv, BumpStepInv DEF Holder, Bumpers

\* Adds and GC starting, the store's writer, the notifier and the environment.
LEMMA OtherInv ==
  ASSUME IInv,
         \/ \E ts \in Timestamps : Add(ts)
         \/ GC \/ StoreWrite
         \/ \E t \in ChunkT0s : Notify(t)
         \/ \E t \in RemoteT0s : RemoteSave(t)
         \/ \E p \in BOOLEAN : SetPrimary(p)
         \/ Tick
  PROVE  IInv'
<1>0. TypeOK /\ RingInv /\ PersistedFinal /\ SavePhase
  BY DEF IInv
<1>a. UNCHANGED <<chunks, currentChunkPos, firstTs, lastSaveStart, cur, pending, pushed>>
  BY DEF Add, GC, StoreWrite, Notify, RemoteSave, SetPrimary, Tick, ringVars, saveVars
<1>1. ASSUME NEW ts \in Timestamps, Add(ts) PROVE IInv'
  <2>1. /\ lock = "free" /\ lock' = "adding" /\ lastWrite' \in {lastWrite, now}
        /\ UNCHANGED <<gcNow, tmpLastWrite, newVal, queue, stored, primary, remote, now>>
    BY <1>1 DEF Add, AddDirect, AddReordered, gcVars, saveVars, envVars
  <2>2. TypeOK' /\ Requests' = Requests
    BY <1>0, <1>a, <2>1 DEF TypeOK, Requests, ToSet
  <2> QED BY <1>0, <1>a, <2>1, <2>2, RingFrame DEF IInv, SavePhase
<1>2. CASE GC
  <2>1. /\ lock = "free" /\ lock' = "adding" /\ gcNow' = now /\ tmpLastWrite' = lastWrite
        /\ UNCHANGED <<lastWrite, newVal, queue, stored, primary, remote, now>>
    BY <1>2 DEF GC, saveVars, envVars
  <2>2. TypeOK' /\ Requests' = Requests
    BY <1>0, <1>a, <2>1 DEF TypeOK, Requests, ToSet
  <2> QED BY <1>0, <1>a, <2>1, <2>2, RingFrame DEF IInv, SavePhase
<1>3. CASE StoreWrite
  <2>1. /\ queue # <<>> /\ stored' = stored \cup {Head(queue)} /\ queue' = Tail(queue)
        /\ newVal' = [newVal EXCEPT !["writer"] = Head(queue).t0]
        /\ UNCHANGED <<lock, gcNow, tmpLastWrite, lastWrite, primary, remote, now>>
    BY <1>3 DEF StoreWrite, WriterReady, StartBump, gcVars
  <2>2. queue \in Seq(RequestType)
    BY <1>0 DEF TypeOK
  <2>3. /\ queue' \in Seq(RequestType) /\ Len(queue') = Len(queue) - 1 /\ Head(queue) \in RequestType
        /\ ToSet(Tail(queue)) \subseteq ToSet(queue) /\ Head(queue) \in ToSet(queue)
    BY <2>1, <2>2, HeadTailSet
  <2>4. Len(queue') <= QueueSize
    <3>1. Len(queue) \in Nat /\ QueueSize \in Nat /\ Len(queue) <= QueueSize
      BY <1>0, <2>2, LenProperties, AggMetricAssumption DEF TypeOK
    <3> QED BY <2>3, <3>1
  <2>5. Requests' \subseteq Requests
    <3>1. Requests' = stored \cup {Head(queue)} \cup ToSet(Tail(queue)) \cup ToSet(pending)
      BY <1>a, <2>1 DEF Requests, ToSet
    <3> QED BY <2>3, <3>1 DEF Requests
  <2>6. newVal' \in [Bumpers -> Nat]
    BY <1>0, <2>1, <2>3 DEF TypeOK, RequestType
  <2>7. TypeOK'
    BY <1>0, <1>a, <2>1, <2>3, <2>4, <2>6 DEF TypeOK
  <2> QED BY <1>0, <1>a, <2>1, <2>5, <2>7, RingFrame DEF IInv, SavePhase
<1>4. ASSUME NEW t \in ChunkT0s, Notify(t) PROVE IInv'
  <2>1. /\ newVal' = [newVal EXCEPT !["notifier"] = t]
        /\ UNCHANGED <<lock, gcNow, tmpLastWrite, lastWrite, queue, stored, primary, remote, now>>
    BY <1>4 DEF Notify, StartBump, gcVars, envVars
  <2>2. t \in Nat
    <3>1. \A ts \in Timestamps : T0(ts) \in Nat
      BY T0Nat, AggMetricAssumption
    <3> QED BY <3>1, AggMetricAssumption DEF ChunkT0s
  <2>3. TypeOK' /\ Requests' = Requests
    BY <1>0, <1>a, <2>1, <2>2 DEF TypeOK, Requests, ToSet
  <2> QED BY <1>0, <1>a, <2>1, <2>3, RingFrame DEF IInv, SavePhase
<1>5. ASSUME (\E t \in RemoteT0s : RemoteSave(t)) \/ (\E p \in BOOLEAN : SetPrimary(p)) \/ Tick
      PROVE  IInv'
  <2>1. /\ UNCHANGED <<lock, gcNow, tmpLastWrite, lastWrite, newVal, queue, stored>>
        /\ remote' = remote \/ remote' \in RemoteT0s
        /\ primary' = primary \/ primary' \in BOOLEAN
        /\ now' = now \/ now' = now + TickSize
    BY <1>5 DEF RemoteSave, SetPrimary, Tick, gcVars, saveVars
  <2>2. remote' \in Nat /\ now' \in Nat /\ primary' \in BOOLEAN
    <3>1. remote' \in Nat
      BY <1>0, <2>1, AggMetricAssumption DEF TypeOK
    <3>2. now \in Nat /\ TickSize \in Nat
      BY <1>0, AggMetricAssumption DEF TypeOK
    <3>3. now' \in Nat
      BY <2>1, <3>2
    <3>4. primary' \in BOOLEAN
      BY <1>0, <2>1, Zenon DEF TypeOK
    <3> QED BY <3>1, <3>3, <3>4
  <2>3. TypeOK' /\ Requests' = Requests
    BY <1>0, <1>a, <2>1, <2>2 DEF TypeOK, Requests, ToSet
  <2> QED BY <1>0, <1>a, <2>1, <2>3, RingFrame DEF IInv, SavePhase
<1> QED BY <1>1, <1>2, <1>3, <1>4, <1>5

\* Steps that change nothing preserve the invariant.
LEMMA StutterInv == ASSUME IInv, UNCHANGED vars PROVE IInv'
<1>1. UNCHANGED <<chunks, currentChunkPos, firstTs, lastWrite, lastSaveStart, newVal, lock, cur,
                  gcNow, tmpLastWrite, pending, pushed, queue, stored, primary, remote, now>>
  BY DEF vars, ringVars, saveVars, gcVars, envVars
<1>2. TypeOK' /\ Requests' = Requests
  BY <1>1 DEF IInv, TypeOK, Requests, ToSet
<1> QED BY <1>1, <1>2, RingFrame DEF IInv, SavePhase

\* Every step of a series and of its environment preserves the invariant.
LEMMA NextIInv == IInv /\ [Next]_vars => IInv'
<1> SUFFICES ASSUME IInv, [Next]_vars PROVE IInv'
  OBVIOUS
<1>1. CASE Next
  BY <1>1, HolderInv, OtherInv, BumpStepInv DEF Next, Bumpers
<1> QED BY <1>1, StutterInv

\* The inductive invariant holds in every reachable state of a series.
THEOREM Invariance == Spec => []IInv
  BY InitIInv, NextIInv, PTL DEF Spec

\* Every variable of a series keeps its type, and the ring its bounds.
THEOREM TypeCorrect == Spec => []TypeOK
<1>1. IInv => TypeOK
  BY DEF IInv
<1> QED BY <1>1, Invariance, PTL

\* The ring of chunks stays ordered, with only the current chunk open.
THEOREM RingOrdered == Spec => []RingInv
<1>1. IInv => RingInv
  BY DEF IInv
<1> QED BY <1>1, Invariance, PTL

\* "never persist a chunk that may receive further updates!": what persist and
\* pushToCache handed out is final, whatever points, GCs and bumps follow.
THEOREM PersistedIsFinal == Spec => []PersistedFinal
<1>1. IInv => PersistedFinal
  BY DEF IInv
<1> QED BY <1>1, Invariance, PTL
==============================================================================
