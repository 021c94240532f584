---- MODULE MCAggMetric ----
(* Chunks of two seconds in a ring of two or three, and a write queue of one request. *)
EXTENDS AggMetric

\* three chunks with two points each: a ring of two wraps and every chunk can be
\* filled in and out of order
MCTimestamps == 4 .. 9

\* four chunks: a ring of three wraps, and up to three chunks in it may have to be
\* saved at once
MCTimestampsLong == {4, 5, 6, 8, 10}
====
