---- MODULE MCAggMetrics ----
(* Two orgs with a key each; points of two chunks, two of them in the same chunk. *)
EXTENDS AggMetrics, TLC
MCOrg(k) == IF k = "a1" THEN "a" ELSE "b"
MCPoints == {<<"a1", 4>>, <<"a1", 5>>, <<"a1", 6>>, <<"b1", 4>>}
MCPointsA == {<<"a1", 4>>, <<"a1", 5>>, <<"a1", 6>>}
Symmetry == Permutations(Ingesters)
====
