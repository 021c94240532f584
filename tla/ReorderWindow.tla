---------------------------- MODULE ReorderWindow ----------------------------
(***************************************************************************)
(* What a reorder buffer promises, without its ring of slots: it holds the *)
(* points of the last Window intervals, hands out the ones that fall out   *)
(* of the window oldest first, and refuses what is older than the window.  *)
(***************************************************************************)
EXTENDS Naturals, Sequences, SequencesExt, FiniteSetsExt

CONSTANTS Window,       \* reorderWindow: number of intervals that are held
          Interval,     \* seconds between two points of the metric
          AllowUpdates, \* the values reorderAllowUpdate may have
          Timestamps,   \* timestamps points may carry, as received
          Vals          \* values points may carry

VARIABLES held,  \* the points inside the window
          out,   \* what the last call handed out, in order
          err,   \* how the last call ended
          allowUpdate  \* whether a second value for a timestamp replaces the first

vars == <<held, out, err, allowUpdate>>

TsOf(ps) == {p.ts : p \in ps}
Newest(ps) == Max(TsOf(ps) \cup {0})
OldestFirst(ps) == SetToSortSeq(ps, LAMBDA p, q : p.ts < q.ts)

Init == held = {} /\ out = <<>> /\ err = "none" /\ allowUpdate \in AllowUpdates

\* ts is the first multiple of Interval that is not below the received timestamp.
Quantized(raw, ts) == ts % Interval = 0 /\ ts >= raw /\ ts < raw + Interval

TooOld(ts) == held # {} /\ ts + Window * Interval <= Newest(held)

Refuse(ts) ==
    \/ TooOld(ts) /\ err' = "TooOld"
    \/ ~TooOld(ts) /\ ts \in TsOf(held) /\ ~allowUpdate /\ err' = "NewValueForTimestamp"

Accept(p) ==
    /\ ~TooOld(p.ts)
    /\ p.ts \in TsOf(held) => allowUpdate
    /\ LET all  == {q \in held : q.ts # p.ts} \cup {p}
           kept == {q \in all : q.ts + Window * Interval > Newest(all)}
       IN  /\ held' = kept
           /\ out' = OldestFirst(all \ kept)
    /\ err' = "none"

Add(raw, val) ==
    \E ts \in raw .. raw + Interval :
        /\ Quantized(raw, ts)
        /\ \/ Refuse(ts) /\ held' = held /\ out' = <<>>
           \/ Accept([ts |-> ts, val |-> val])

Flush == held' = {} /\ out' = OldestFirst(held) /\ err' = "none"

Next ==
    /\ Flush \/ \E raw \in Timestamps, val \in Vals : Add(raw, val)
    /\ UNCHANGED allowUpdate

Spec == Init /\ [][Next]_vars
==============================================================================
