---- MODULE MCCachedStore ----
(* Chunks of two seconds.  The queries ask for ranges that begin and end before,
   inside and on the boundary of chunks; the properties are about all ranges. *)
EXTENDS CachedStore

MCRanges == {<<1, 4>>, <<3, 5>>, <<3, 7>>, <<5, 9>>}

Of(t0s, aware, corrupt) == [t0s |-> t0s, aware |-> aware, corrupt |-> corrupt]

\* span-aware chunks without gap
MCPlain == {Of({2, 4, 6}, {2, 4, 6}, {})}

\* these; span-aware chunks with a gap, in two rows of the store; chunks without span and
\* without gap; both kinds in one series, the middle one corrupt
MCHistories ==
    MCPlain \cup {Of({2, 8}, {2, 8}, {}), Of({2, 4, 6}, {}, {}), Of({2, 4, 6}, {4, 6}, {4})}

\* chunks without span and with a gap
MCGapLegacy == {Of({2, 6, 8}, {}, {})}
====
