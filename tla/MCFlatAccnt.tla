---- MODULE MCFlatAccnt ----
(* Chunks of one and two bytes; the archives have one raw key. *)
EXTENDS FlatAccnt

CONSTANTS m1, m2

MCSize == [t \in T0s |-> t]
MCRawKey == [m \in Metrics |-> "raw"]

\* one series with late hit reports; two archives that are deleted together
MCHits == [series |-> {m1}, maxHits |-> 1]
MCArchives == [series |-> {m1, m2}, maxHits |-> 0]
MCWorkloads == {MCHits, MCArchives}
MCHitsOnly == {MCHits}
MCQuiet == {[series |-> {m1}, maxHits |-> 0]}
====
